\* Two users of one blob, one of whom may lose connections; nothing else fails.
SPECIFICATION FairSpec
CONSTANTS
  Hashes = {h1}
  Workers = {w1, w2}
  Clients = {c1, c2}
  Boots = {}
  Replicas = 1
  Chunks = 1
  Pings = 1
  Faults = FALSE
  BadDisks = {}
  HangUps = {c1}
PROPERTIES
  EverySessionEnds
INVARIANTS
  MismatchHasCause
  DeletedBlobIsGone
