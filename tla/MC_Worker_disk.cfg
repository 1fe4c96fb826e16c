\* One writer, on a disk that fails.
SPECIFICATION MC_Spec
CONSTANTS
  Hashes = {h1}
  Saves = {s1}
  Gets = {}
  Deletes = {}
  Chunks = 2
  Faults = TRUE
  Crashes = FALSE
  Named = h1
  Misnaming = {}
INVARIANTS
  AcceptedBlobIsWhole
