SPECIFICATION Spec
CONSTANTS
  w1 = w1
  w2 = w2
  i1 = i1
  Readers = {}
  Writers = {w1, w2}
  Immediates = {i1}
  Upgraders = {}
  Quitters = {}
  Priorities = {0, 1}
  MaxImmediates = 1
  NoThread = NoThread
PROPERTIES ImplementsLeases
