\* Calls as they come for one blob, a failing disk, the process dying at will.
SPECIFICATION MC_FairSpec
CONSTANTS
  Hashes = {h1, h2}
  Saves = {s1, s2}
  Gets = {g1}
  Deletes = {d1}
  Chunks = 2
  Faults = TRUE
  Crashes = TRUE
  Named = h1
  Misnaming = {s2}
INVARIANTS
  TypeOK
  OrderlyBlobIsWhole
  SentIsPrefix
PROPERTIES
  EveryCallAnswered
