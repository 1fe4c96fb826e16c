\* Two uploads, which may share a temporary file; writes fall short and reads fail.
SPECIFICATION Spec
CONSTANTS
  Uploads = {u1, u2}
  Names = {n1, n2}
  Bytes = {a, b}
  MaxSize = 3
  MAX_CHUNK_SIZE = 2
  DiskFails = TRUE
SYMMETRY Symmetry
INVARIANTS
  TypeOK
  SentIsBeginning
  FailureHasCause
  LeftoverHasOwner
PROPERTIES
  EveryChunkAdvances
