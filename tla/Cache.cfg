\* Two reads, one invalidation, and a key of each of the four kinds, with two
\* class tags.  The entries of "onus" differ in their TTLs by the slack.
SPECIFICATION Spec
CONSTANTS
  Readers = {r1, r2}
  Sweepers = {s1}
  Keys = {"A:onus", "A:unauthorized", "A:olts", "A:olt:1"}
  Tenants = {"A"}
  Classes = {"onus", "olts"}
  TenantOf <- MCTenantOf
  ClassOf <- MCClassOf
  Ttl <- MCTtl
  Bundles <- MCBundles
  TagSlack = 1
  DateLimit = 2
  MaxLag = 0
SYMMETRY MCSymmetry
INVARIANTS TypeOK EntriesListed ServedFresh
