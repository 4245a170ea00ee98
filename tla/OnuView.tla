------------------------------ MODULE OnuView ------------------------------
(***************************************************************************)
(* What the reads of one ONU show while the worker changes it: the read    *)
(* handlers of onu.controller.ts go through CacheService.getOrSet(), the   *)
(* jobs change the ONU in SmartOLT (external) past the cache, and          *)
(* DELETE /onus/cache?sn=X, invalidateONUCache() with a serial number,     *)
(* drops what the cache has of the ONU.  CacheService has time and tags;   *)
(* this module has the data, as the number of changes it shows.            *)
(***************************************************************************)
EXTENDS Integers

CONSTANTS
  Keys,        \* the cache keys whose data shows the ONU: of itself, of lists
  Bundle,      \* the three that invalidateONUCache(tenantId, sn) deletes
  Readers,     \* slots for the getOrSet() calls in progress
  MaxChanges   \* bound: operations that SmartOLT carries out on the ONU

ASSUME ViewAssumption == Keys # {} /\ Bundle \subseteq Keys /\ MaxChanges \in Nat

VARIABLES
  version,  \* how often SmartOLT has changed the ONU
  entry,    \* entry[k]: the version in the cache under k, or Nothing
  reader,   \* reader[r]: the getOrSet() call in slot r
  floor,    \* history: floor[k]: the version when k was last invalidated
  raced     \* history: the keys whose last invalidation has failed, or was
            \* overlapped by the read that has stored the entry

viewVars == <<version, entry, reader, floor, raced>>

-----------------------------------------------------------------------------
(* State                                                                   *)

Nothing == -1
Versions == 0..MaxChanges

\* fetch: the upstream is asked.  store: it has answered with version `shows`.
\* late: k was invalidated since the read began.
Reader == [phase : {"idle", "fetch", "store"}, key : Keys, shows : Versions, late : BOOLEAN]

Fetching(k) == [phase |-> "fetch", key |-> k, shows |-> 0, late |-> FALSE]

AtRest == [Fetching(CHOOSE k \in Keys : TRUE) EXCEPT !.phase = "idle"]

Init ==
  /\ version = 0
  /\ entry = [k \in Keys |-> Nothing]
  /\ reader = [r \in Readers |-> AtRest]
  /\ floor = [k \in Keys |-> 0]
  /\ raced = {}

-----------------------------------------------------------------------------
(* Reads                                                                   *)

\* getOrSet() of a key that is not cached, or that Redis fails to return.  A
\* hit answers with the entry and leaves all as it is.
Get(r, k) ==
  /\ reader[r].phase = "idle"
  /\ reader' = [reader EXCEPT ![r] = Fetching(k)]
  /\ UNCHANGED <<version, entry, floor, raced>>

\* Mutant: the answer is read from the cache once more.
FetchFromCache(r) ==
  /\ reader[r].phase = "fetch"
  /\ reader' = [reader EXCEPT ![r].phase = "store", ![r].shows = entry[reader[r].key]]
  /\ UNCHANGED <<version, entry, floor, raced>>

\* The upstream answers.
Fetch(r) ==
  /\ reader[r].phase = "fetch"
  /\ reader' = [reader EXCEPT ![r].phase = "store", ![r].shows = version]
  /\ UNCHANGED <<version, entry, floor, raced>>

\* set().
Store(r) ==
  LET k == reader[r].key IN
  /\ reader[r].phase = "store"
  /\ entry' = [entry EXCEPT ![k] = reader[r].shows]
  /\ raced' = IF reader[r].late THEN raced \cup {k} ELSE raced \ {k}
  /\ reader' = [reader EXCEPT ![r] = AtRest]
  /\ UNCHANGED <<version, floor>>

\* The upstream fails, or set() does.
NotStored(r) ==
  /\ reader[r].phase # "idle"
  /\ reader' = [reader EXCEPT ![r] = AtRest]
  /\ UNCHANGED <<version, entry, floor, raced>>

-----------------------------------------------------------------------------
(* The rest                                                                *)

\* SmartOLT carries out an operation that the worker has posted.  The worker
\* leaves the cache alone.
Change ==
  /\ version < MaxChanges
  /\ version' = version + 1
  /\ UNCHANGED <<entry, reader, floor, raced>>

\* The TTL of k ends, or Redis evicts it.
Expire(k) ==
  /\ entry' = [entry EXCEPT ![k] = Nothing]
  /\ raced' = raced \ {k}
  /\ UNCHANGED <<version, reader, floor>>

\* Mutant: the key of the ONU's signal levels is missing.
DeletedKeysButOne == Bundle \ {CHOOSE k \in Bundle : TRUE}

\* The keys of the three DELs.
DeletedKeys == Bundle

\* invalidateONUCache(tenantId, sn).  Any of the DELs may fail; delete() does not
\* tell, and the answer counts three.
Invalidate ==
  \E lost \in SUBSET DeletedKeys :
    /\ entry' = [k \in Keys |-> IF k \in DeletedKeys \ lost THEN Nothing ELSE entry[k]]
    /\ raced' = (raced \ (DeletedKeys \ lost)) \cup {k \in lost : entry[k] # Nothing}
    /\ floor' = [k \in Keys |-> IF k \in Bundle THEN version ELSE floor[k]]
    /\ reader' = [r \in Readers |->
         IF reader[r].phase # "idle" /\ reader[r].key \in Bundle
         THEN [reader[r] EXCEPT !.late = TRUE] ELSE reader[r]]
    /\ UNCHANGED version

Next ==
  \/ \E r \in Readers : (\E k \in Keys : Get(r, k)) \/ Fetch(r) \/ Store(r) \/ NotStored(r)
  \/ \E k \in Keys : Expire(k)
  \/ Change \/ Invalidate

Spec == Init /\ [][Next]_viewVars

-----------------------------------------------------------------------------
(* Properties                                                              *)

TypeOK ==
  /\ version \in Versions
  /\ entry \in [Keys -> Versions \cup {Nothing}]
  /\ reader \in [Readers -> Reader]
  /\ floor \in [Keys -> Versions]
  /\ raced \subseteq Keys

\* What a read is answered with after an invalidation of its key is not from
\* before it, however reads, changes and invalidations overlap, but for two
\* causes: one of the DELs failed, or the entry was written by a read that was
\* under way during the invalidation.
StaleOnlyByRace ==
  \A k \in Keys : entry[k] # Nothing /\ entry[k] < floor[k] => k \in raced

=============================================================================
