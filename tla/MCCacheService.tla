--------------------------- MODULE MCCacheService ---------------------------
(***************************************************************************)
(* Small instances of CacheService.  A tick is a minute.  The keys stand   *)
(* for the ways an entry is written: the list of ONUs, the list of         *)
(* unauthorized ONUs, whose TTL is fixed to 60 seconds, and two entries    *)
(* for which the cacheRules hold a number that SETEX refuses and a number  *)
(* that makes no date.                                                     *)
(***************************************************************************)
EXTENDS CacheService, TLC

MCTenantOf == [k \in Keys |-> "A"]

MCClassOf == [k \in Keys |-> IF k \in {"A:olts", "A:olt:1"} THEN "olts" ELSE "onus"]

\* With a tenant rule {"onus": 120}.
MCTtl ==
  [k \in Keys |-> CASE k = "A:onus"         -> 2
                    [] k = "A:unauthorized"       -> 1
                    [] k = "A:olts"               -> 0
                    [] k = "A:olt:1"              -> DateLimit + 1]

\* The default TTL of 300 for ONUs.
MCDefaultTtl ==
  [k \in Keys |-> IF k = "A:unauthorized" THEN 1 ELSE 5]

MCBundles == {{"A:onus"}}

MCSymmetry == Permutations(Readers)
=============================================================================
