\* The default TTLs: one minute for unauthorized ONUs, five for the others.
SPECIFICATION Spec
CONSTANTS
  Readers = {r1, r2}
  Sweepers = {s1}
  Keys = {"A:onus", "A:unauthorized"}
  Tenants = {"A"}
  Classes = {"onus", "olts"}
  TenantOf <- MCTenantOf
  ClassOf <- MCClassOf
  Ttl <- MCDefaultTtl
  Bundles <- MCBundles
  TagSlack = 1
  DateLimit = 5
  MaxLag = 0
INVARIANTS ClassSweepFindsEntries
