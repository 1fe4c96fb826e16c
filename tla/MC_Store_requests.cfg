\* An upload, a download and a deletion of a blob; streams, files, commits, masters
\* and the disk of one worker fail.
SPECIFICATION Spec
CONSTANTS
  Hashes = {h1}
  Workers = {w1, w2}
  Uploads = {u1}
  Fetches = {g1}
  Removals = {d1}
  Boots = {}
  Replicas = 2
  Chunks = 2
  Faults = TRUE
  BadDisks = {w1}
INVARIANTS
  TypeOK
  UndisturbedFetchIsWhole
PROPERTIES
  AcknowledgedIsFound
  DurableSpec
