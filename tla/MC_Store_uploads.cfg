\* Two uploads of a blob; streams, commits, masters and workers fail.
SPECIFICATION Spec
CONSTANTS
  Hashes = {h1}
  Workers = {w1, w2}
  Uploads = {u1, u2}
  Fetches = {}
  Removals = {}
  Boots = {r1, r2}
  Replicas = 2
  Chunks = 2
  Faults = TRUE
  BadDisks = {}
SYMMETRY Symmetry
INVARIANTS
  UndisturbedCopyIsWhole
  AcknowledgedUploadIsStored
  OneUploadPerFile
PROPERTIES
  DurableSpec
