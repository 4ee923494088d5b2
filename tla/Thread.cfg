SPECIFICATION FairSpec
CONSTANTS
  t1 = t1
  t2 = t2
  t3 = t3
  Workers = {t1, t2, t3}
  Handles = {h1, h2}
  h1 = h1
  h2 = h2
  Main = Main
  None = None
INVARIANTS SoleOwner SurfacedOnce UnloadIsSafe
PROPERTIES Returns
CHECK_DEADLOCK FALSE
