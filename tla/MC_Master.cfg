\* Uploads, notifications, a restart of a worker, a deletion and a lookup of one
\* blob, with faults: every pair of handlers interleaves.
SPECIFICATION AccountedSpec
CONSTANTS
  Hashes = {h1}
  Workers = {w1, w2}
  Allocs = {a1, a2}
  Notifies = {n1}
  Locates = {l1}
  Registers = {r1}
  Deletes = {d1}
  Replicas = 2
  Sizes = {1}
  Spaces = {2}
  Faults = TRUE
SYMMETRY Symmetry
INVARIANTS
  TypeOK
  ExclusivePlacement
  ReportedCopyStaysSaved
  BelievedSpaceNotNegative
  AllocationComplete
  OrderlySpaceNotOverpromised
PROPERTIES
  CatalogSpec
