SPECIFICATION Spec
CONSTANTS
  Keys = {k1, k2}
  MaxIds = 2
  Tags = {t}
  UseSets <- MCUseSets
  None = None
  MaxFaults = 0
INVARIANT ProducersRetained
CHECK_DEADLOCK FALSE
