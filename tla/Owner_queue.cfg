SPECIFICATION Spec
CONSTANTS
  r1 = r1
  w1 = w1
  w2 = w2
  w3 = w3
  Readers = {r1}
  Writers = {w1, w2, w3}
  Immediates = {}
  Upgraders = {}
  Quitters = {}
  Priorities = {0, 1}
  MaxImmediates = 0
  NoThread = NoThread
INVARIANTS TypeOK ExclusiveAccess DrainReachesReaders
