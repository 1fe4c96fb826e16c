\* A blob is uploaded, deleted and uploaded again; nothing fails.
SPECIFICATION Spec
CONSTANTS
  Hashes = {h1}
  Workers = {w1, w2}
  Uploads = {u1, u2}
  Fetches = {}
  Removals = {d1}
  Boots = {}
  Replicas = 2
  Chunks = 2
  Faults = FALSE
  BadDisks = {}
INVARIANTS
  SavedCopyIsWhole
