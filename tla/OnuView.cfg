\* Two of the three keys that are deleted, and one list that is not.  Two reads
\* of one key, begun before and after an invalidation; two changes.
SPECIFICATION Spec
CONSTANTS
  Keys = {onu, status, list}
  Bundle = {onu, status}
  Readers = {r1, r2}
  MaxChanges = 2
INVARIANTS TypeOK StaleOnlyByRace
