---------------------------- MODULE CacheService ----------------------------
(***************************************************************************)
(* The Redis cache of tenant data: services/cache/CacheService.ts, used by *)
(* the read and invalidate methods of modules/onus/onu.service.ts and      *)
(* modules/olts/olt.service.ts.                                            *)
(*                                                                         *)
(* A step is what Redis, or the upstream, does between two awaits.  All    *)
(* commands of the gateway go down one ioredis connection, so a pipeline   *)
(* runs without another command of the gateway in between.  A command may  *)
(* fail: not reach Redis, or be run and its answer lost; of a pipeline, a  *)
(* first part may be run.                                                  *)
(*                                                                         *)
(* Time is in ticks, the unit of the TTLs.  Data is abstracted to its age. *)
(***************************************************************************)
EXTENDS Integers, FiniteSets

CONSTANTS
  Readers,      \* slots for the getOrSet() calls in progress
  Sweepers,     \* slots for the invalidations in progress
  Keys,         \* cache keys, `tenant:${id}:...`
  Tenants,      \* tenant ids
  Classes,      \* the tags 'onus', 'olts', ... that all tenants share
  TenantOf,     \* TenantOf[k]: the tenant k belongs to
  ClassOf,      \* ClassOf[k]: the class tag k is set with
  Ttl,          \* Ttl[k]: what set() is given for k: a fixed number, a value
                \* of the configuration, or any number a tenant's cacheRules has
  Bundles,      \* the key sets that invalidateONUCache(tenantId, sn) deletes
  TagSlack,     \* what a tag index is kept longer than its latest entry
  DateLimit,    \* past this TTL, expiresAt is not a valid Date any more
  MaxLag        \* bound: the age at which upstream data is written at last

Tags == Tenants \cup Classes

TagsOf(k) == {TenantOf[k], ClassOf[k]}

ASSUME CacheAssumption ==
  /\ Keys # {}
  /\ Tenants \cap Classes = {}
  /\ TenantOf \in [Keys -> Tenants]
  /\ ClassOf \in [Keys -> Classes]
  /\ Ttl \in [Keys -> Int]
  /\ Bundles \subseteq SUBSET Keys
  /\ TagSlack \in Nat /\ DateLimit \in Nat /\ MaxLag \in Nat

\* SETEX takes a positive TTL, and toISOString() a valid date.
Cacheable(k) == Ttl[k] > 0 /\ Ttl[k] <= DateLimit

VARIABLES
  entry,   \* entry[k]: the value stored under k
  index,   \* index[t]: the set stored under `tag:${t}`
  reader,  \* reader[r]: the getOrSet() call in slot r
  sweep,   \* sweep[s]: the invalidation in slot s
  stray    \* history: the <<key, tag>> for which the key's entry may be
           \* missing from the tag's index, because of a failed command, of
           \* an eviction, or of an invalidation that overlapped the write

cacheVars == <<entry, index, reader, sweep, stray>>

-----------------------------------------------------------------------------
(* State                                                                   *)

Forever == -1                             \* a Redis key without a TTL

NoEntry == [left |-> 0, age |-> 0]        \* left: the TTL that remains
NoIndex == [members |-> {}, left |-> 0]

\* "fetch", "store", "index": awaiting the fetcher, SETEX, indexTags().
\* "idle": the last call has returned or thrown, or there was none.
ReaderPhase == {"idle", "fetch", "store", "index"}

Reader(phase, k, age) == [phase |-> phase, key |-> k, age |-> age]
AtRest                == Reader("idle", CHOOSE k \in Keys : TRUE, 0)

\* What an invalidation has read and is going to delete.
Swept == [keys : SUBSET Keys, tags : SUBSET Tags]
None  == [keys |-> {}, tags |-> {}]

Init ==
  /\ entry = [k \in Keys |-> NoEntry]
  /\ index = [t \in Tags |-> NoIndex]
  /\ reader = [r \in Readers |-> AtRest]
  /\ sweep = [s \in Sweepers |-> None]
  /\ stray = {}

Live(k) == entry[k].left # 0

-----------------------------------------------------------------------------
(* What Redis does                                                         *)

\* Mutant: the tag index is given the TTL of the entry.
ExpireWithoutSlack(k) == Ttl[k]

ExpireAfter(k) == Ttl[k] + TagSlack

\* The pipeline of indexTags(): SADD and EXPIRE for each tag, of which
\* `done` tags got both and `half` the SADD only.
Indexed(k, done, half) ==
  [t \in Tags |->
     IF t \in done
     THEN [members |-> index[t].members \cup {k}, left |-> ExpireAfter(k)]
     ELSE IF t \in half
     THEN [members |-> index[t].members \cup {k},
           left |-> IF index[t] = NoIndex THEN Forever ELSE index[t].left]
     ELSE index[t]]

\* What can have been run of that pipeline when it fails.
IndexPrefixes(k) ==
  LET tenant == TenantOf[k]
      class  == ClassOf[k]
  IN  {[done |-> {},              half |-> {}],
       [done |-> {},              half |-> {tenant}],
       [done |-> {tenant},        half |-> {}],
       [done |-> {tenant},        half |-> {class}],
       [done |-> {tenant, class}, half |-> {}]}

\* DEL of a set of keys and a set of tag indexes.  Only what is left in the
\* cache can be stray.
Deleted(keys, tags) ==
  /\ entry' = [k \in Keys |-> IF k \in keys THEN NoEntry ELSE entry[k]]
  /\ index' = [t \in Tags |-> IF t \in tags THEN NoIndex ELSE index[t]]
  /\ stray' = {p \in stray \cup (Keys \X tags) :
                 p[2] \in TagsOf(p[1]) /\ entry'[p[1]].left # 0}

-----------------------------------------------------------------------------
(* getOrSet()                                                              *)

\* get(): a hit ends the read with the entry; a failed GET is a miss.
Get(r, k) ==
  /\ reader[r].phase = "idle"
  /\ \/ Live(k) /\ reader' = [reader EXCEPT ![r] = AtRest]
     \/ reader' = [reader EXCEPT ![r] = Reader("fetch", k, 0)]
  /\ UNCHANGED <<entry, index, sweep, stray>>

\* The upstream has answered; set() then computes expiresAt, which throws for
\* a date out of range, before any await.
Fetch(r) ==
  LET k == reader[r].key IN
  /\ reader[r].phase = "fetch"
  /\ reader' = [reader EXCEPT ![r] =
       IF Ttl[k] <= DateLimit THEN Reader("store", k, 0) ELSE AtRest]
  /\ UNCHANGED <<entry, index, sweep, stray>>

\* The upstream request has failed.
FetchFails(r) ==
  /\ reader[r].phase = "fetch"
  /\ reader' = [reader EXCEPT ![r] = AtRest]
  /\ UNCHANGED <<entry, index, sweep, stray>>

\* Mutant: the entry lives as long as the index.
StoredLonger(k, age) ==
  [entry EXCEPT ![k] = [left |-> Ttl[k] + TagSlack, age |-> age]]

Stored(k, age) == [entry EXCEPT ![k] = [left |-> Ttl[k], age |-> age]]

\* SETEX.
Store(r) ==
  LET k == reader[r].key IN
  /\ reader[r].phase = "store"
  /\ Cacheable(k)
  /\ entry' = Stored(k, reader[r].age)
  /\ reader' = [reader EXCEPT ![r].phase = "index"]
  /\ UNCHANGED <<index, sweep, stray>>

\* SETEX fails, was run but its answer is lost, or is refused for its TTL.
\* set() gives up without indexing, and the read is answered.
StoreFails(r) ==
  LET k == reader[r].key IN
  /\ reader[r].phase = "store"
  /\ \/ UNCHANGED <<entry, stray>>
     \/ /\ Cacheable(k)
        /\ entry' = Stored(k, reader[r].age)
        /\ stray' = stray \cup ({k} \X TagsOf(k))
  /\ reader' = [reader EXCEPT ![r] = AtRest]
  /\ UNCHANGED <<index, sweep>>

\* indexTags().
Index(r) ==
  LET k == reader[r].key IN
  /\ reader[r].phase = "index"
  /\ index' = Indexed(k, TagsOf(k), {})
  /\ stray' = stray \ ({k} \X TagsOf(k))
  /\ reader' = [reader EXCEPT ![r] = AtRest]
  /\ UNCHANGED <<entry, sweep>>

\* indexTags() fails; the read is answered.
IndexFails(r) ==
  LET k == reader[r].key IN
  /\ reader[r].phase = "index"
  /\ \E p \in IndexPrefixes(k) :
       /\ index' = Indexed(k, p.done, p.half)
       /\ stray' = IF Live(k)
                   THEN (stray \ ({k} \X p.done))
                          \cup ({k} \X (TagsOf(k) \ p.done))
                   ELSE stray
  /\ reader' = [reader EXCEPT ![r] = AtRest]
  /\ UNCHANGED <<entry, sweep>>

-----------------------------------------------------------------------------
(* Invalidation                                                            *)

\* deleteByTag(class) up to its pipeline: SMEMBERS.  A failed or empty answer
\* ends it.  The tenant that asks for it makes no difference.
SweepClass(s, t) ==
  /\ sweep[s] = None
  /\ index[t].members # {}
  /\ sweep' = [sweep EXCEPT ![s] =
                 [keys |-> index[t].members, tags |-> {t}]]
  /\ UNCHANGED <<entry, index, reader, stray>>

\* deleteByPattern(`*tenant:${id}*`) up to its pipeline: KEYS, which lists
\* the tenant's entries and the index of its tag.
SweepTenant(s, x) ==
  LET keys == {k \in Keys : TenantOf[k] = x /\ Live(k)}
      tags == {t \in {x} : index[t] # NoIndex}
  IN
  /\ sweep[s] = None
  /\ keys \cup tags # {}
  /\ sweep' = [sweep EXCEPT ![s] = [keys |-> keys, tags |-> tags]]
  /\ UNCHANGED <<entry, index, reader, stray>>

\* The pipeline of either, or a first part of it on failure.  Redis lists the
\* keys in any order, a tenant's index among them; that of a class goes last.
DeletePipeline(s) ==
  /\ sweep[s] # None
  /\ \E keys \in SUBSET sweep[s].keys, tags \in SUBSET sweep[s].tags :
       /\ tags \cap Classes # {} => keys = sweep[s].keys
       /\ Deleted(keys, tags)
  /\ sweep' = [sweep EXCEPT ![s] = None]
  /\ UNCHANGED reader

\* invalidateONUCache(tenantId, sn): three DELs sent together, each of which
\* may fail unnoticed.  The indexes keep what they list.
DeleteBundle(b) ==
  /\ \E keys \in SUBSET b : Deleted(keys, {})
  /\ UNCHANGED <<reader, sweep>>

-----------------------------------------------------------------------------
(* Redis on its own                                                        *)

\* maxmemory-policy allkeys-lru: any Redis key may be evicted.
Evict ==
  /\ \/ \E k \in Keys : Deleted({k}, {})
     \/ \E t \in Tags : Deleted({}, {t})
  /\ UNCHANGED <<reader, sweep>>

EntryLater(e) ==
  IF e.left <= 1 THEN NoEntry ELSE [left |-> e.left - 1, age |-> e.age + 1]

IndexLater(i) ==
  IF i.left = Forever THEN i
  ELSE IF i.left <= 1 THEN NoIndex
  ELSE [i EXCEPT !.left = @ - 1]

\* Time passes.  Data that is about to be written does not get older than
\* MaxLag: axios and ioredis bound how long they wait.
Tick ==
  /\ \A r \in Readers : reader[r].phase = "store" => reader[r].age < MaxLag
  /\ entry' = [k \in Keys |-> EntryLater(entry[k])]
  /\ index' = [t \in Tags |-> IndexLater(index[t])]
  /\ reader' = [r \in Readers |->
       IF reader[r].phase = "store" THEN [reader[r] EXCEPT !.age = @ + 1]
                                    ELSE reader[r]]
  /\ stray' = {p \in stray : entry'[p[1]].left # 0}
  /\ UNCHANGED sweep

Next ==
  \/ \E r \in Readers :
       \/ \E k \in Keys : Get(r, k)
       \/ Fetch(r) \/ FetchFails(r)
       \/ Store(r) \/ StoreFails(r)
       \/ Index(r) \/ IndexFails(r)
  \/ \E s \in Sweepers :
       \/ \E t \in Classes : SweepClass(s, t)
       \/ \E x \in Tenants : SweepTenant(s, x)
       \/ DeletePipeline(s)
  \/ \E b \in Bundles : DeleteBundle(b)
  \/ Evict
  \/ Tick

Spec == Init /\ [][Next]_cacheVars

-----------------------------------------------------------------------------
(* Properties                                                              *)

\* Types; and a Redis key exists exactly as long as it has a TTL or Forever.
TypeOK ==
  /\ entry \in [Keys -> [left : 0..DateLimit, age : 0..(DateLimit + MaxLag)]]
  /\ index \in [Tags -> [members : SUBSET Keys,
                         left : {Forever} \cup 0..(DateLimit + TagSlack)]]
  /\ \A t \in Tags : index[t].left = 0 <=> index[t].members = {}
  /\ reader \in [Readers -> [phase : ReaderPhase, key : Keys, age : 0..MaxLag]]
  /\ sweep \in [Sweepers -> Swept]
  /\ stray \subseteq Keys \X Tags

\* The TTLs of the entries that share a tag differ by no more than the slack.
TtlsWithinSlack ==
  \A j, k \in Keys :
    Cacheable(j) /\ Cacheable(k) /\ TagsOf(j) \cap TagsOf(k) # {}
      => Ttl[j] <= Ttl[k] + TagSlack

BeingIndexed(k) == \E r \in Readers : reader[r].phase = "index" /\ reader[r].key = k

\* `k`'s entry can be found through tag `t` for as long as it lives.
Listed(k, t) ==
  /\ k \in index[t].members
  /\ index[t].left = Forever \/ entry[k].left <= index[t].left

\* If TTLs are within the slack, an entry is lost to the invalidation of its
\* tags only by a failure, an eviction or a race with an invalidation: never
\* because the index expires first, in whatever order entries of different
\* TTLs are written, expire, are deleted and are written again.
EntriesListed ==
  TtlsWithinSlack =>
    \A k \in Keys : Live(k) /\ ~BeingIndexed(k) =>
      \A t \in TagsOf(k) : <<k, t>> \in stray \/ Listed(k, t)

\* The same without the condition on the TTLs, for the class tags that the
\* DELETE endpoints sweep.  README.md:143 promises that DELETE /onus/cache
\* invalidates the ONU cache.  Tenant data of a longer TTL outlives the index
\* once getUnauthorizedONUs() (TTL 60) has set the EXPIRE of tag 'onus' down.
ClassSweepFindsEntries ==
  \A k \in Keys : Live(k) /\ ~BeingIndexed(k) =>
    <<k, ClassOf[k]>> \in stray \/ k \in index[ClassOf[k]].members

\* No read can be answered with data older than its TTL and the time its
\* writer took to store it, whatever was deleted, lost or rewritten.
ServedFresh ==
  \A k \in Keys : Live(k) => entry[k].age < Ttl[k] + MaxLag
=============================================================================
