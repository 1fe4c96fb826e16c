\* A blob is uploaded twice, a worker dies and registers; nothing else fails.
SPECIFICATION Spec
CONSTANTS
  Hashes = {h1}
  Workers = {w1, w2}
  Uploads = {u1, u2}
  Fetches = {}
  Removals = {}
  Boots = {r1}
  Replicas = 2
  Chunks = 1
  Faults = FALSE
  BadDisks = {}
INVARIANTS
  SavedCopyIsWhole
