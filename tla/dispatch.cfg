SPECIFICATION FairSpec
CONSTANTS
  None = None
  k1 = k1
  k2 = k2
  k3 = k3
  w1 = w1
  w2 = w2
  Keys = {k1, k2, k3}
  Workers = {w1, w2}
INVARIANTS
  TypeOK
  NeverTwice
  
PROPERTIES
  ImplementsDispatch
  
CHECK_DEADLOCK FALSE
