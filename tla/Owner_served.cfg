SPECIFICATION FairSpec
CONSTANTS
  r1 = r1
  w1 = w1
  w2 = w2
  i1 = i1
  Readers = {r1}
  Writers = {w1, w2}
  Immediates = {i1}
  Upgraders = {}
  Quitters = {}
  Priorities = {0}
  MaxImmediates = 1
  NoThread = NoThread
INVARIANTS NoLostWakeup
PROPERTIES WriteServed ImmediateServed
