\* Two workers of one master, beside another: connections break, commits fail and
\* a master dies and may come back.
SPECIFICATION FairSpec
CONSTANTS
  Workers = {0, 2}
  masters_count = 2
  Tries = 2
  Outages = 1
INVARIANTS
  TypeOK
  RegistrationHolds
PROPERTIES
  EveryWorkerComesUp
