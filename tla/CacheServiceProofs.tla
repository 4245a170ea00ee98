------------------------- MODULE CacheServiceProofs -------------------------
(***************************************************************************)
(* Theorems of CacheService, for any keys, tenants, tags and TTLs, any     *)
(* number of reads and invalidations in progress, and any lag.             *)
(*                                                                         *)
(* EntriesListed is inductive with what bounds an entry: its age and what  *)
(* is left of its TTL together never exceed the TTL and the lag with which *)
(* it was written (EntryOK), and only what can be cached gets to be        *)
(* indexed.  All TTLs of a tag being within the slack, an EXPIRE that one  *)
(* entry brings is never short of what another has left.                   *)
(***************************************************************************)
EXTENDS CacheService, TLAPS

EntryType == [left : 0..DateLimit, age : 0..(DateLimit + MaxLag)]

\* What an entry of key k may be.
EntryOK(k, e) ==
  /\ e \in EntryType
  /\ e.left = 0 => e.age = 0
  /\ e.left # 0 => Cacheable(k) /\ e.left <= Ttl[k] /\ e.age + e.left <= Ttl[k] + MaxLag

EntriesOK == /\ entry \in [Keys -> EntryType]
             /\ \A k \in Keys : EntryOK(k, entry[k])

IndexType == [members : SUBSET Keys, left : {Forever} \cup 0..(DateLimit + TagSlack)]

IndexOK(i) == i \in IndexType /\ (i.left = 0 <=> i.members = {})

IndexesOK == /\ index \in [Tags -> IndexType]
             /\ \A t \in Tags : IndexOK(index[t])

ReaderType == [phase : ReaderPhase, key : Keys, age : 0..MaxLag]

ReadersOK ==
  /\ reader \in [Readers -> ReaderType]
  /\ \A r \in Readers : reader[r].phase = "index" => Cacheable(reader[r].key)

RestOK == sweep \in [Sweepers -> Swept] /\ stray \subseteq Keys \X Tags

\* What EntriesListed says of the tags of one key.
Found(k) == Live(k) /\ ~BeingIndexed(k) =>
              \A t \in TagsOf(k) : <<k, t>> \in stray \/ Listed(k, t)

AllFound == TtlsWithinSlack => \A k \in Keys : Found(k)

IInv == EntriesOK /\ IndexesOK /\ ReadersOK /\ RestOK /\ AllFound
-----------------------------------------------------------------------------
(* Data                                                                    *)

\* The constants' types.
LEMMA ConstantTypes ==
  /\ TagSlack \in Nat /\ DateLimit \in Nat /\ MaxLag \in Nat
  /\ \A k \in Keys : /\ Ttl[k] \in Int /\ TagsOf(k) \subseteq Tags
                     /\ TenantOf[k] \in TagsOf(k) /\ ClassOf[k] \in TagsOf(k)
BY CacheAssumption DEF CacheAssumption, TagsOf, Tags

\* No entry is an entry, for any key, and no index an index.
LEMMA Nothings ==
  /\ \A k \in Keys : EntryOK(k, NoEntry)
  /\ IndexOK(NoIndex) /\ NoEntry.left = 0 /\ NoIndex.members = {}
<1>1. NoEntry \in EntryType /\ NoEntry.left = 0 /\ NoEntry.age = 0
  BY ConstantTypes DEF NoEntry, EntryType
<1>2. NoIndex \in IndexType /\ NoIndex.left = 0 /\ NoIndex.members = {}
  BY ConstantTypes DEF NoIndex, IndexType
<1> QED  BY <1>1, <1>2 DEF EntryOK, IndexOK

\* A new entry is no older than the lag.
LEMMA StoredOK ==
  ASSUME NEW k \in Keys, NEW age \in 0..MaxLag, Cacheable(k)
  PROVE  EntryOK(k, [left |-> Ttl[k], age |-> age])
<1> DEFINE e == [left |-> Ttl[k], age |-> age]
<1>1. e.left = Ttl[k] /\ e.age = age
  OBVIOUS
<1>2. Ttl[k] \in 0..DateLimit /\ age \in 0..(DateLimit + MaxLag)
  BY ConstantTypes DEF Cacheable
<1>3. e \in EntryType
  BY <1>2 DEF EntryType
<1> HIDE DEF e
<1>4. EntryOK(k, e)
  BY <1>1, <1>2, <1>3, ConstantTypes DEF EntryOK, Cacheable
<1> QED  BY <1>4 DEF e

\* What an entry gains in age it loses of its TTL.
LEMMA EntryLaterOK ==
  ASSUME NEW k \in Keys, NEW e, EntryOK(k, e)
  PROVE  /\ EntryOK(k, EntryLater(e))
         /\ EntryLater(e).left # 0 => e.left # 0 /\ EntryLater(e).left = e.left - 1
<1>1. e.left \in Int /\ e.age \in Int /\ e.left >= 0 /\ e.age >= 0
  BY ConstantTypes DEF EntryOK, EntryType
<1>2. CASE e.left <= 1
  BY <1>2, Nothings DEF EntryLater
<1>3. CASE ~(e.left <= 1)
  <2> DEFINE d == [left |-> e.left - 1, age |-> e.age + 1]
  <2>1. EntryLater(e) = d
    BY <1>3 DEF EntryLater
  <2>2. d.left = e.left - 1 /\ d.age = e.age + 1
    OBVIOUS
  <2>3. e.left - 1 \in 0..DateLimit /\ e.age + 1 \in 0..(DateLimit + MaxLag)
    BY <1>1, <1>3, ConstantTypes DEF EntryOK, EntryType, Cacheable
  <2>4. d \in EntryType
    BY <2>3 DEF EntryType
  <2> HIDE DEF d
  <2>5. EntryOK(k, d)
    BY <1>1, <1>3, <2>2, <2>4, ConstantTypes DEF EntryOK
  <2> QED  BY <1>1, <1>3, <2>1, <2>2, <2>5
<1> QED  BY <1>2, <1>3

\* An index has its members until it expires.
LEMMA IndexLaterOK ==
  ASSUME NEW i, IndexOK(i)
  PROVE  /\ IndexOK(IndexLater(i))
         /\ i.left = Forever => IndexLater(i) = i
         /\ i.left # Forever /\ i.left > 1 =>
              IndexLater(i).left = i.left - 1 /\ IndexLater(i).members = i.members
<1>1. i.left \in Int
  BY ConstantTypes DEF IndexOK, IndexType, Forever
<1>2. CASE i.left = Forever
  BY <1>2 DEF IndexLater
<1>3. CASE i.left # Forever /\ i.left <= 1
  BY <1>1, <1>3, Nothings DEF IndexLater
<1>4. CASE i.left # Forever /\ ~(i.left <= 1)
  <2> DEFINE d == [i EXCEPT !.left = @ - 1]
  <2>1. IndexLater(i) = d
    BY <1>4 DEF IndexLater
  <2>2. d.left = i.left - 1 /\ d.members = i.members
    BY DEF IndexOK, IndexType
  <2>3. i.left - 1 \in 0..(DateLimit + TagSlack)
    BY <1>1, <1>4, ConstantTypes DEF IndexOK, IndexType
  <2>4. d \in IndexType
    BY <2>3 DEF IndexOK, IndexType
  <2> HIDE DEF d
  <2>5. IndexOK(d)
    BY <1>1, <1>4, <2>2, <2>3, <2>4 DEF IndexOK
  <2> QED  BY <1>1, <1>4, <2>1, <2>2, <2>5
<1> QED  BY <1>2, <1>3, <1>4

\* What the pipeline of indexTags() does to the index of one tag.
LEMMA IndexedOK ==
  ASSUME IndexesOK, NEW k \in Keys, Cacheable(k), NEW done, NEW half, NEW t \in Tags
  PROVE  LET i == Indexed(k, done, half)[t] IN
         /\ IndexOK(i)
         /\ index[t].members \subseteq i.members
         /\ t \in done => k \in i.members /\ i.left = Ttl[k] + TagSlack
         /\ t \notin done /\ index[t].members # {} => i.left = index[t].left
<1> DEFINE m == index[t].members \cup {k}
           i == Indexed(k, done, half)[t]
<1>1. IndexOK(index[t]) /\ m \in SUBSET Keys /\ m # {}
  BY DEF IndexesOK, IndexOK, IndexType
<1>2. CASE t \in done
  <2> DEFINE d == [members |-> m, left |-> ExpireAfter(k)]
  <2>1. i = d
    BY <1>2 DEF Indexed
  <2>2. d.members = m /\ d.left = Ttl[k] + TagSlack
    BY DEF ExpireAfter
  <2>3. Ttl[k] + TagSlack \in 0..(DateLimit + TagSlack) /\ Ttl[k] + TagSlack # 0
    BY ConstantTypes DEF Cacheable
  <2>4. d \in IndexType
    BY <1>1, <2>3 DEF IndexType, ExpireAfter
  <2> HIDE DEF d
  <2>5. IndexOK(d)
    BY <1>1, <2>2, <2>3, <2>4 DEF IndexOK
  <2> QED  BY <1>2, <2>1, <2>2, <2>5
<1>3. CASE t \notin done /\ t \in half
  <2> DEFINE l == IF index[t] = NoIndex THEN Forever ELSE index[t].left
             d == [members |-> m, left |-> l]
  <2>1. i = d
    BY <1>3 DEF Indexed
  <2>2. d.members = m /\ d.left = l
    OBVIOUS
  <2>3. index[t] # NoIndex => index[t].left # 0
    BY <1>1 DEF IndexOK, IndexType, NoIndex
  <2>4. l \in {Forever} \cup 0..(DateLimit + TagSlack) /\ l # 0
    BY <1>1, <2>3 DEF IndexOK, IndexType, Forever
  <2>5. index[t].members # {} => l = index[t].left
    BY DEF NoIndex
  <2> HIDE DEF l
  <2>6. d \in IndexType
    BY <1>1, <2>4 DEF IndexType
  <2> HIDE DEF d
  <2>7. IndexOK(d)
    BY <1>1, <2>2, <2>4, <2>6 DEF IndexOK
  <2> QED  BY <1>3, <2>1, <2>2, <2>5, <2>7
<1>4. CASE t \notin done /\ t \notin half
  BY <1>1, <1>4 DEF Indexed
<1> QED  BY <1>2, <1>3, <1>4

\* Another entry with tag t stays listed when k is indexed.
LEMMA ListedKept ==
  ASSUME EntriesOK, IndexesOK, TtlsWithinSlack, NEW k \in Keys, Cacheable(k),
         NEW done \in SUBSET TagsOf(k), NEW half,
         NEW i \in Keys, NEW t \in TagsOf(i), Live(i), Listed(i, t),
         index' = Indexed(k, done, half), entry' = entry
  PROVE  Listed(i, t)'
<1>1. t \in Tags
  BY ConstantTypes
<1>2. /\ index[t].members \subseteq index'[t].members
      /\ t \in done => index'[t].left = Ttl[k] + TagSlack
      /\ t \notin done /\ index[t].members # {} => index'[t].left = index[t].left
  BY <1>1, IndexedOK
<1>3. i \in index'[t].members
  BY <1>2 DEF Listed
<1>4. CASE t \in done
  <2>1. Cacheable(i) /\ entry[i].left <= Ttl[i] /\ entry[i].left \in Int
    BY ConstantTypes DEF EntriesOK, EntryOK, EntryType, Live
  <2>2. t \in TagsOf(i) \cap TagsOf(k)
    BY <1>4
  <2>3. Ttl[i] <= Ttl[k] + TagSlack
    BY <2>1, <2>2 DEF TtlsWithinSlack
  <2>4. entry[i].left <= index'[t].left
    BY <1>2, <1>4, <2>1, <2>3, ConstantTypes
  <2> QED  BY <1>3, <2>4 DEF Listed
<1>5. CASE t \notin done
  <2>1. index'[t].left = index[t].left
    BY <1>2, <1>5 DEF Listed
  <2> QED  BY <1>3, <2>1 DEF Listed
<1> QED  BY <1>4, <1>5

-----------------------------------------------------------------------------
(* The kinds of steps                                                      *)

\* Slots at rest, and slots with a read, are readers.
LEMMA ReaderTypes ==
  /\ \A k \in Keys, age \in 0..MaxLag, phase \in ReaderPhase :
       Reader(phase, k, age) \in ReaderType /\ Reader(phase, k, age).phase = phase
  /\ AtRest \in ReaderType /\ AtRest.phase = "idle"
<1>1. ASSUME NEW k \in Keys, NEW age \in 0..MaxLag, NEW phase \in ReaderPhase
      PROVE  Reader(phase, k, age) \in ReaderType /\ Reader(phase, k, age).phase = phase
  BY DEF Reader, ReaderType
<1>2. PICK k \in Keys : k = CHOOSE i \in Keys : TRUE
  BY CacheAssumption DEF CacheAssumption
<1>3. 0 \in 0..MaxLag
  BY ConstantTypes
<1>4. AtRest = Reader("idle", k, 0)
  BY <1>2 DEF AtRest
<1> QED  BY <1>1, <1>3, <1>4 DEF ReaderPhase

\* A read that gets on without touching Redis.
LEMMA ReaderStep ==
  ASSUME IInv, NEW r \in Readers, NEW q \in ReaderType,
         reader[r].phase # "index", q.phase # "index",
         reader' = [reader EXCEPT ![r] = q], UNCHANGED <<entry, index, sweep, stray>>
  PROVE  IInv'
<1>1. reader'[r] = q /\ \A t \in Readers : t # r => reader'[t] = reader[t]
  BY DEF IInv, ReadersOK
<1>2. ReadersOK'
  BY <1>1 DEF IInv, ReadersOK
<1>3. ASSUME NEW k \in Keys, BeingIndexed(k)
      PROVE  BeingIndexed(k)'
  BY <1>1, <1>3 DEF BeingIndexed
<1>4. AllFound'
  BY <1>3 DEF IInv, AllFound, Found, Live, Listed
<1> QED  BY <1>2, <1>4 DEF IInv, EntriesOK, IndexesOK, RestOK

\* SETEX was run; the read indexes the entry next, or the entry is stray.
LEMMA StoredStep ==
  ASSUME IInv, NEW r \in Readers, reader[r].phase = "store",
         NEW q \in ReaderType, q.key = reader[r].key \/ q.phase # "index",
         Cacheable(reader[r].key),
         entry' = Stored(reader[r].key, reader[r].age),
         reader' = [reader EXCEPT ![r] = q], UNCHANGED <<index, sweep>>,
         stray \subseteq stray', stray' \subseteq Keys \X Tags,
         \/ q.phase = "index"
         \/ \A t \in TagsOf(reader[r].key) : <<reader[r].key, t>> \in stray'
  PROVE  IInv'
<1>1. PICK k \in Keys, age \in 0..MaxLag : k = reader[r].key /\ age = reader[r].age
  BY DEF IInv, ReadersOK, ReaderType
<1>2. reader'[r] = q /\ \A t \in Readers : t # r => reader'[t] = reader[t]
  BY DEF IInv, ReadersOK
<1> DEFINE e == [left |-> Ttl[k], age |-> age]
<1>3. entry' = [entry EXCEPT ![k] = e]
  BY <1>1 DEF Stored
<1>4. EntryOK(k, e)
  BY <1>1, StoredOK
<1> HIDE DEF e
<1>5. entry'[k] = e /\ \A i \in Keys : i # k => entry'[i] = entry[i]
  BY <1>3 DEF IInv, EntriesOK
<1>6. EntriesOK'
  BY <1>3, <1>4, <1>5 DEF IInv, EntriesOK, EntryOK
<1>7. ReadersOK'
  BY <1>1, <1>2 DEF IInv, ReadersOK
<1>8. ASSUME NEW i \in Keys, BeingIndexed(i)
      PROVE  BeingIndexed(i)'
  BY <1>2, <1>8 DEF BeingIndexed
<1>9. AllFound'
  <2> SUFFICES ASSUME TtlsWithinSlack, NEW i \in Keys
               PROVE  Found(i)'
    BY DEF AllFound, TtlsWithinSlack
  <2>1. CASE i = k
    <3>1. CASE q.phase = "index"
      <4>1. BeingIndexed(k)'
        BY <1>1, <1>2, <3>1 DEF BeingIndexed
      <4> QED  BY <2>1, <4>1 DEF Found
    <3>2. CASE q.phase # "index"
      BY <1>1, <2>1, <3>2 DEF Found
    <3> QED  BY <3>1, <3>2
  <2>2. CASE i # k
    BY <1>5, <1>8, <2>2 DEF IInv, AllFound, Found, Live, Listed
  <2> QED  BY <2>1, <2>2
<1> QED  BY <1>6, <1>7, <1>9 DEF IInv, IndexesOK, RestOK

\* What indexTags() has run of its pipeline: the tags in done can find the
\* entry, and for the others it is stray.
LEMMA IndexStep ==
  ASSUME IInv, NEW r \in Readers, reader[r].phase = "index",
         NEW k \in Keys, k = reader[r].key,
         NEW done \in SUBSET TagsOf(k), NEW half,
         index' = Indexed(k, done, half),
         reader' = [reader EXCEPT ![r] = AtRest], UNCHANGED <<entry, sweep>>,
         stray' \subseteq Keys \X Tags,
         \A i \in Keys : i # k => \A t \in TagsOf(i) : <<i, t>> \in stray => <<i, t>> \in stray',
         Live(k) => \A t \in TagsOf(k) \ done : <<k, t>> \in stray'
  PROVE  IInv'
<1>1. AtRest \in ReaderType /\ AtRest.phase = "idle"
  BY ReaderTypes DEF ReaderPhase
<1>2. /\ reader'[r] = AtRest
      /\ \A t \in Readers : t # r => reader'[t] = reader[t]
  BY DEF IInv, ReadersOK
<1>3. Cacheable(k)
  BY DEF IInv, ReadersOK
<1>4. ReadersOK'
  BY <1>1, <1>2 DEF IInv, ReadersOK
<1>5. IndexesOK'
  <2>1. \A t \in Tags : IndexOK(index'[t])
    BY <1>3, IndexedOK DEF IInv
  <2>2. index' = [t \in Tags |-> index'[t]]
    BY DEF Indexed
  <2>3. \A t \in Tags : index'[t] \in IndexType
    BY <2>1 DEF IndexOK
  <2>4. index' \in [Tags -> IndexType]
    BY <2>2, <2>3
  <2> QED  BY <2>1, <2>4 DEF IndexesOK, IndexOK
<1>6. AllFound'
  <2> SUFFICES ASSUME TtlsWithinSlack, NEW i \in Keys, Live(i), ~BeingIndexed(i)',
                      NEW t \in TagsOf(i)
               PROVE  <<i, t>> \in stray' \/ Listed(i, t)'
    BY DEF AllFound, TtlsWithinSlack, Found, Live
  <2>1. CASE i = k
    <3>1. t \notin done => <<k, t>> \in stray'
      BY <2>1
    <3>2. CASE t \in done
      <4>1. t \in Tags
        BY ConstantTypes
      <4>2. k \in index'[t].members /\ index'[t].left = Ttl[k] + TagSlack
        BY <1>3, <3>2, <4>1, IndexedOK DEF IInv
      <4>3. entry[k].left <= Ttl[k] /\ entry[k].left \in Int
        BY <2>1, ConstantTypes DEF IInv, EntriesOK, EntryOK, EntryType, Live
      <4>4. entry'[k].left <= index'[t].left
        BY <4>2, <4>3, ConstantTypes
      <4> QED  BY <2>1, <4>2, <4>4 DEF Listed
    <3> QED  BY <2>1, <3>1, <3>2
  <2>2. CASE i # k
    <3>1. ~BeingIndexed(i)
      BY <1>2, <2>2 DEF BeingIndexed
    <3>2. <<i, t>> \in stray \/ Listed(i, t)
      BY <3>1 DEF IInv, AllFound, Found
    <3>3. Listed(i, t) => Listed(i, t)'
      BY <1>3, ListedKept DEF IInv
    <3> QED  BY <2>2, <3>2, <3>3
  <2> QED  BY <2>1, <2>2
<1> QED  BY <1>4, <1>5, <1>6 DEF IInv, EntriesOK, RestOK

\* DELs of entries and indexes: entries that lose an index are stray.
LEMMA DeletedStep ==
  ASSUME IInv, NEW keys \in SUBSET Keys, NEW tags \in SUBSET Tags, Deleted(keys, tags),
         UNCHANGED reader, sweep' \in [Sweepers -> Swept]
  PROVE  IInv'
<1>1. /\ entry' = [k \in Keys |-> IF k \in keys THEN NoEntry ELSE entry[k]]
      /\ index' = [t \in Tags |-> IF t \in tags THEN NoIndex ELSE index[t]]
      /\ stray' = {p \in stray \cup (Keys \X tags) :
                     p[2] \in TagsOf(p[1]) /\ entry'[p[1]].left # 0}
  BY DEF Deleted
<1>2. EntriesOK'
  BY <1>1, Nothings DEF IInv, EntriesOK, EntryOK
<1>3. IndexesOK'
  BY <1>1, Nothings DEF IInv, IndexesOK, IndexOK
<1>4. RestOK'
  BY <1>1 DEF IInv, RestOK
<1>5. AllFound'
  <2> SUFFICES ASSUME TtlsWithinSlack, NEW i \in Keys, entry'[i].left # 0,
                      ~BeingIndexed(i), NEW t \in TagsOf(i)
               PROVE  <<i, t>> \in stray' \/ Listed(i, t)'
    BY DEF AllFound, TtlsWithinSlack, Found, Live, BeingIndexed
  <2>1. i \notin keys /\ entry'[i] = entry[i] /\ t \in Tags
    BY <1>1, Nothings, ConstantTypes
  <2>2. <<i, t>> \in stray \cup (Keys \X tags) => <<i, t>> \in stray'
    BY <1>1
  <2>3. CASE t \in tags
    BY <2>2, <2>3
  <2>4. CASE t \notin tags
    <3>1. index'[t] = index[t]
      BY <1>1, <2>1, <2>4
    <3>2. <<i, t>> \in stray \/ Listed(i, t)
      BY <2>1 DEF IInv, AllFound, Found, Live
    <3> QED  BY <2>1, <2>2, <3>1, <3>2 DEF Listed
  <2> QED  BY <2>3, <2>4
<1> QED  BY <1>2, <1>3, <1>4, <1>5 DEF IInv, ReadersOK

\* Time passes for an entry and for its indexes alike.
LEMMA TickStep ==
  ASSUME IInv, Tick
  PROVE  IInv'
<1>1. /\ entry' = [k \in Keys |-> EntryLater(entry[k])]
      /\ index' = [t \in Tags |-> IndexLater(index[t])]
      /\ reader' = [r \in Readers |->
           IF reader[r].phase = "store" THEN [reader[r] EXCEPT !.age = @ + 1]
                                        ELSE reader[r]]
      /\ stray' = {p \in stray : entry'[p[1]].left # 0}
      /\ UNCHANGED sweep
  BY DEF Tick
<1>2. \A k \in Keys : EntryOK(k, entry'[k])
  BY <1>1, EntryLaterOK DEF IInv, EntriesOK
<1>3. EntriesOK'
  BY <1>1, <1>2 DEF EntriesOK, EntryOK
<1>4. \A t \in Tags : IndexOK(index'[t])
  BY <1>1, IndexLaterOK DEF IInv, IndexesOK
<1>5. IndexesOK'
  BY <1>1, <1>4 DEF IndexesOK, IndexOK
<1>6. ASSUME NEW r \in Readers
      PROVE  /\ reader'[r] \in ReaderType
             /\ reader'[r].phase = reader[r].phase /\ reader'[r].key = reader[r].key
  <2>1. reader[r] \in ReaderType
    BY DEF IInv, ReadersOK
  <2>2. CASE reader[r].phase = "store"
    <3>1. reader[r].age + 1 \in 0..MaxLag
      BY <2>1, <2>2, ConstantTypes DEF Tick, ReaderType
    <3>2. reader'[r] = [reader[r] EXCEPT !.age = @ + 1]
      BY <1>1, <2>2
    <3> QED  BY <2>1, <3>1, <3>2 DEF ReaderType
  <2>3. CASE reader[r].phase # "store"
    BY <1>1, <2>1, <2>3
  <2> QED  BY <2>2, <2>3
<1>7. ReadersOK'
  BY <1>1, <1>6 DEF IInv, ReadersOK
<1>8. RestOK'
  BY <1>1 DEF IInv, RestOK
<1>9. AllFound'
  <2> SUFFICES ASSUME TtlsWithinSlack, NEW i \in Keys, entry'[i].left # 0,
                      ~BeingIndexed(i)', NEW t \in TagsOf(i)
               PROVE  <<i, t>> \in stray' \/ Listed(i, t)'
    BY DEF AllFound, TtlsWithinSlack, Found, Live
  <2>1. ~BeingIndexed(i)
    BY <1>6 DEF BeingIndexed
  <2>2. entry[i].left # 0 /\ entry'[i].left = entry[i].left - 1 /\ entry[i].left \in Int
    BY <1>1, EntryLaterOK, ConstantTypes DEF IInv, EntriesOK, EntryOK, EntryType
  <2>3. <<i, t>> \in stray => <<i, t>> \in stray'
    BY <1>1
  <2>4. <<i, t>> \in stray \/ Listed(i, t)
    BY <2>1, <2>2 DEF IInv, AllFound, Found, Live
  <2>5. ASSUME Listed(i, t)
        PROVE  Listed(i, t)'
    <3>1. t \in Tags /\ IndexOK(index[t]) /\ index'[t] = IndexLater(index[t])
      BY <1>1, ConstantTypes DEF IInv, IndexesOK
    <3>2. index[t].left \in Int
      BY <3>1, ConstantTypes DEF IndexOK, IndexType, Forever
    <3>3. entry'[i].left \in Int /\ entry'[i].left > 0
      BY <1>2, ConstantTypes DEF EntryOK, EntryType
    <3>4. CASE index[t].left = Forever
      <4>1. index'[t] = index[t]
        BY <3>1, <3>4, IndexLaterOK
      <4> QED  BY <2>5, <3>4, <4>1 DEF Listed
    <3>5. CASE index[t].left # Forever
      <4>1. entry[i].left <= index[t].left /\ index[t].left > 1
        BY <2>2, <2>5, <3>2, <3>3, <3>5 DEF Listed
      <4>2. index'[t].left = index[t].left - 1 /\ index'[t].members = index[t].members
        BY <3>1, <3>5, <4>1, IndexLaterOK
      <4>3. entry'[i].left <= index'[t].left
        BY <2>2, <3>2, <4>1, <4>2
      <4> QED  BY <2>5, <4>2, <4>3 DEF Listed
    <3> QED  BY <3>4, <3>5
  <2> QED  BY <2>3, <2>4, <2>5
<1> QED  BY <1>3, <1>5, <1>7, <1>8, <1>9 DEF IInv

-----------------------------------------------------------------------------
(* The theorems                                                            *)

\* Redis is empty at the start.
LEMMA InitInv == Init => IInv
<1> SUFFICES ASSUME Init
             PROVE  IInv
  OBVIOUS
<1>1. EntriesOK
  BY Nothings DEF Init, EntriesOK, EntryOK
<1>2. IndexesOK
  BY Nothings DEF Init, IndexesOK, IndexOK
<1>3. ReadersOK
  BY ReaderTypes DEF Init, ReadersOK, ReaderPhase
<1>4. RestOK
  BY DEF Init, RestOK, Swept, None
<1>5. AllFound
  BY Nothings DEF Init, AllFound, Found, Live
<1> QED  BY <1>1, <1>2, <1>3, <1>4, <1>5 DEF IInv

\* Steps of getOrSet().
LEMMA ReadSteps ==
  ASSUME IInv, NEW r \in Readers,
         \/ \E k \in Keys : Get(r, k)
         \/ Fetch(r) \/ FetchFails(r) \/ Store(r) \/ StoreFails(r) \/ Index(r) \/ IndexFails(r)
  PROVE  IInv'
<1> DEFINE k == reader[r].key
<1>1. /\ reader[r] \in ReaderType /\ k \in Keys /\ TagsOf(k) \subseteq Tags
      /\ stray \subseteq Keys \X Tags
  BY ConstantTypes DEF IInv, ReadersOK, ReaderType, RestOK
<1>2. 0 \in 0..MaxLag
  BY ConstantTypes
<1>3. AtRest \in ReaderType /\ AtRest.phase # "index"
  BY ReaderTypes DEF ReaderPhase
<1>4. \A i \in Keys, phase \in {"fetch", "store"} :
        Reader(phase, i, 0) \in ReaderType /\ Reader(phase, i, 0).phase # "index"
  BY <1>2, ReaderTypes DEF ReaderPhase
<1>5. CASE \E i \in Keys : Get(r, i)
  <2>1. PICK q \in ReaderType : q.phase # "index" /\ reader' = [reader EXCEPT ![r] = q]
    BY <1>3, <1>4, <1>5 DEF Get
  <2>2. reader[r].phase # "index" /\ UNCHANGED <<entry, index, sweep, stray>>
    BY <1>5 DEF Get
  <2> QED  BY <2>1, <2>2, ReaderStep
<1>6. CASE Fetch(r) \/ FetchFails(r)
  <2>1. PICK q \in ReaderType : q.phase # "index" /\ reader' = [reader EXCEPT ![r] = q]
    BY <1>1, <1>3, <1>4, <1>6 DEF Fetch, FetchFails
  <2>2. reader[r].phase # "index" /\ UNCHANGED <<entry, index, sweep, stray>>
    BY <1>6 DEF Fetch, FetchFails
  <2> QED  BY <2>1, <2>2, ReaderStep
<1>7. CASE Store(r)
  <2> DEFINE q == [reader[r] EXCEPT !.phase = "index"]
  <2>1. q \in ReaderType /\ q.phase = "index" /\ q.key = k
    BY <1>1 DEF ReaderType, ReaderPhase
  <2>2. /\ reader[r].phase = "store" /\ Cacheable(k) /\ entry' = Stored(k, reader[r].age)
        /\ reader' = [reader EXCEPT ![r] = q] /\ UNCHANGED <<index, sweep, stray>>
    BY <1>7 DEF Store
  <2> HIDE DEF q
  <2> QED  BY <1>1, <2>1, <2>2, StoredStep
<1>8. CASE StoreFails(r)
  <2>1. /\ reader[r].phase = "store" /\ reader' = [reader EXCEPT ![r] = AtRest]
        /\ UNCHANGED <<index, sweep>>
    BY <1>8 DEF StoreFails
  <2>2. CASE UNCHANGED <<entry, stray>>
    BY <1>3, <2>1, <2>2, ReaderStep
  <2>3. CASE /\ Cacheable(k) /\ entry' = Stored(k, reader[r].age)
             /\ stray' = stray \cup ({k} \X TagsOf(k))
    <3>1. /\ stray \subseteq stray' /\ stray' \subseteq Keys \X Tags
          /\ \A t \in TagsOf(k) : <<k, t>> \in stray'
      BY <1>1, <2>3
    <3> QED  BY <1>3, <2>1, <2>3, <3>1, StoredStep
  <2> QED  BY <1>8, <2>2, <2>3 DEF StoreFails
<1>9. CASE Index(r)
  <2>1. /\ reader[r].phase = "index" /\ index' = Indexed(k, TagsOf(k), {})
        /\ stray' = stray \ ({k} \X TagsOf(k))
        /\ reader' = [reader EXCEPT ![r] = AtRest] /\ UNCHANGED <<entry, sweep>>
    BY <1>9 DEF Index
  <2>2. /\ stray' \subseteq Keys \X Tags
        /\ \A i \in Keys : i # k => \A t \in TagsOf(i) : <<i, t>> \in stray => <<i, t>> \in stray'
    BY <1>1, <2>1
  <2> QED  BY <1>1, <2>1, <2>2, IndexStep
<1>10. CASE IndexFails(r)
  <2>1. PICK p \in IndexPrefixes(k) :
          /\ index' = Indexed(k, p.done, p.half)
          /\ stray' = IF Live(k)
                      THEN (stray \ ({k} \X p.done)) \cup ({k} \X (TagsOf(k) \ p.done))
                      ELSE stray
    BY <1>10 DEF IndexFails
  <2>2. p.done \in SUBSET TagsOf(k)
    BY DEF IndexPrefixes, TagsOf
  <2>3. /\ reader[r].phase = "index" /\ UNCHANGED <<entry, sweep>>
        /\ reader' = [reader EXCEPT ![r] = AtRest]
    BY <1>10 DEF IndexFails
  <2>4. /\ stray' \subseteq Keys \X Tags
        /\ \A i \in Keys : i # k => \A t \in TagsOf(i) : <<i, t>> \in stray => <<i, t>> \in stray'
        /\ Live(k) => \A t \in TagsOf(k) \ p.done : <<k, t>> \in stray'
    BY <1>1, <2>1, <2>2
  <2> QED  BY <1>1, <2>1, <2>2, <2>3, <2>4, IndexStep
<1> QED  BY <1>5, <1>6, <1>7, <1>8, <1>9, <1>10

\* What an invalidation has read does not change what is cached.
LEMMA SweepStep ==
  ASSUME IInv, sweep' \in [Sweepers -> Swept], UNCHANGED <<entry, index, reader, stray>>
  PROVE  IInv'
BY DEF IInv, EntriesOK, IndexesOK, ReadersOK, RestOK, AllFound, Found, Live, BeingIndexed, Listed

\* Steps of deleteByTag() and deleteByPattern().
LEMMA SweepSteps ==
  ASSUME IInv, NEW s \in Sweepers,
         \/ \E t \in Classes : SweepClass(s, t)
         \/ \E x \in Tenants : SweepTenant(s, x)
         \/ DeletePipeline(s)
  PROVE  IInv'
<1>1. sweep \in [Sweepers -> Swept] /\ None \in Swept
  BY DEF IInv, RestOK, Swept, None
<1>2. ASSUME NEW t \in Classes, SweepClass(s, t)
      PROVE  IInv'
  <2>1. t \in Tags /\ index[t].members \in SUBSET Keys
    BY DEF Tags, IInv, IndexesOK, IndexType
  <2>2. [keys |-> index[t].members, tags |-> {t}] \in Swept
    BY <2>1 DEF Swept
  <2>3. sweep' \in [Sweepers -> Swept] /\ UNCHANGED <<entry, index, reader, stray>>
    BY <1>1, <1>2, <2>2 DEF SweepClass
  <2> QED  BY <2>3, SweepStep
<1>3. ASSUME NEW x \in Tenants, SweepTenant(s, x)
      PROVE  IInv'
  <2> DEFINE keys == {k \in Keys : TenantOf[k] = x /\ Live(k)}
             tags == {t \in {x} : index[t] # NoIndex}
  <2>1. keys \in SUBSET Keys /\ tags \in SUBSET Tags
    BY DEF Tags
  <2>2. sweep' = [sweep EXCEPT ![s] = [keys |-> keys, tags |-> tags]]
    BY <1>3 DEF SweepTenant
  <2> HIDE DEF keys, tags
  <2>3. [keys |-> keys, tags |-> tags] \in Swept
    BY <2>1 DEF Swept
  <2>4. sweep' \in [Sweepers -> Swept] /\ UNCHANGED <<entry, index, reader, stray>>
    BY <1>1, <1>3, <2>2, <2>3 DEF SweepTenant
  <2> QED  BY <2>4, SweepStep
<1>4. CASE DeletePipeline(s)
  <2>1. sweep[s].keys \in SUBSET Keys /\ sweep[s].tags \in SUBSET Tags
    BY <1>1 DEF Swept
  <2>2. PICK keys \in SUBSET Keys, tags \in SUBSET Tags : Deleted(keys, tags)
    BY <1>4, <2>1 DEF DeletePipeline
  <2>3. UNCHANGED reader /\ sweep' \in [Sweepers -> Swept]
    BY <1>1, <1>4 DEF DeletePipeline
  <2> QED  BY <2>2, <2>3, DeletedStep
<1> QED  BY <1>2, <1>3, <1>4

\* Every step keeps the invariant.
LEMMA NextInv == IInv /\ [Next]_cacheVars => IInv'
<1> SUFFICES ASSUME IInv, [Next]_cacheVars
             PROVE  IInv'
  OBVIOUS
<1>1. ASSUME NEW r \in Readers,
             \/ \E k \in Keys : Get(r, k)
             \/ Fetch(r) \/ FetchFails(r) \/ Store(r) \/ StoreFails(r) \/ Index(r) \/ IndexFails(r)
      PROVE  IInv'
  BY <1>1, ReadSteps
<1>2. ASSUME NEW s \in Sweepers,
             \/ \E t \in Classes : SweepClass(s, t)
             \/ \E x \in Tenants : SweepTenant(s, x)
             \/ DeletePipeline(s)
      PROVE  IInv'
  BY <1>2, SweepSteps
<1>3. ASSUME NEW b \in Bundles, DeleteBundle(b)
      PROVE  IInv'
  <2>1. b \in SUBSET Keys
    BY CacheAssumption DEF CacheAssumption
  <2>2. PICK keys \in SUBSET Keys : Deleted(keys, {})
    BY <1>3, <2>1 DEF DeleteBundle
  <2>3. UNCHANGED reader /\ sweep' \in [Sweepers -> Swept]
    BY <1>3 DEF DeleteBundle, IInv, RestOK
  <2> QED  BY <2>2, <2>3, DeletedStep
<1>4. CASE Evict
  <2>1. PICK keys \in SUBSET Keys, tags \in SUBSET Tags : Deleted(keys, tags)
    BY <1>4 DEF Evict
  <2>2. UNCHANGED reader /\ sweep' \in [Sweepers -> Swept]
    BY <1>4 DEF Evict, IInv, RestOK
  <2> QED  BY <2>1, <2>2, DeletedStep
<1>5. CASE Tick
  BY <1>5, TickStep
<1>6. CASE UNCHANGED cacheVars
  BY <1>6, SweepStep DEF cacheVars, IInv, RestOK
<1> QED  BY <1>1, <1>2, <1>3, <1>4, <1>5, <1>6 DEF Next

\* The inductive invariant of the cache.
THEOREM CacheInvHolds == Spec => []IInv
BY InitInv, NextInv, PTL DEF Spec

\* A Redis key exists exactly as long as it has a TTL, or none it loses by.
THEOREM CacheTypeCorrect == Spec => []TypeOK
<1>1. IInv => TypeOK
  BY DEF IInv, EntriesOK, EntryType, IndexesOK, IndexOK, IndexType, ReadersOK, ReaderType,
         RestOK, TypeOK
<1> QED  BY CacheInvHolds, <1>1, PTL

\* TTLs of a tag within the slack, whatever they are: an entry is lost to the
\* invalidation of its tags only by a failure, an eviction or a race.
THEOREM EntriesListedHolds == Spec => []EntriesListed
<1>1. IInv => EntriesListed
  BY DEF IInv, AllFound, Found, EntriesListed
<1> QED  BY CacheInvHolds, <1>1, PTL

\* No entry is older than its TTL and the lag of its writer, whatever the lag.
THEOREM ServedFreshHolds == Spec => []ServedFresh
<1>1. IInv => ServedFresh
  <2> SUFFICES ASSUME IInv, NEW k \in Keys, entry[k].left # 0
               PROVE  entry[k].age < Ttl[k] + MaxLag
    BY DEF ServedFresh, Live
  <2>1. EntryOK(k, entry[k])
    BY DEF IInv, EntriesOK
  <2>2. entry[k].left \in Int /\ entry[k].age \in Int /\ entry[k].left >= 1
    BY <2>1, ConstantTypes DEF EntryOK, EntryType
  <2> QED  BY <2>1, <2>2, ConstantTypes DEF EntryOK
<1> QED  BY CacheInvHolds, <1>1, PTL
=============================================================================
