\* One worker of one master, whose registration may fail: what it logs of it.
SPECIFICATION Spec
CONSTANTS
  Workers = {0}
  masters_count = 1
  Tries = 2
  Outages = 1
INVARIANT
  OnlyUnregisteredComplain
