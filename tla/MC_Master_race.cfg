\* Two allocations of different blobs in flight together.
SPECIFICATION AccountedSpec
CONSTANTS
  Hashes = {h1, h2}
  Workers = {w1, w2}
  Allocs = {a1, a2}
  Notifies = {}
  Locates = {}
  Registers = {}
  Deletes = {}
  Replicas = 2
  Sizes = {1}
  Spaces = {2}
  Faults = FALSE
INVARIANTS
  SpaceNotOverpromised
