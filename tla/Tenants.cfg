\* The seeded tenant and two that can be created, with one free subdomain for
\* both.  Two requests at a time: every check is against one other writer.
SPECIFICATION Spec
CONSTANTS
  Ids = {t0, t1, t2}
  Subdomains = {demo, isp}
  Requests = {r1, r2}
  Seeded = t0
SYMMETRY MCSymmetry
INVARIANTS TypeOK StatusMatchesActive SubdomainsUnique BarredGetNothingDone
PROPERTIES DeletedStaysDeleted FailsOnlyIfDisturbed LostTogglesOverlap
PROPERTIES LockoutIsFinal
