SPECIFICATION Spec
CONSTANTS
  r1 = r1
  w1 = w1
  i1 = i1
  Readers = {r1}
  Writers = {w1}
  Immediates = {i1}
  Upgraders = {}
  Quitters = {}
  Priorities = {0}
  MaxImmediates = 1
  NoThread = NoThread
INVARIANTS ExclusiveAccess
