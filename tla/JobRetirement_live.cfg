SPECIFICATION FairSpec
CONSTANTS
  Keys = {k1}
  MaxIds = 2
  Tags = {t1, t2}
  UseSets <- MCUseSets
  None = None
  MaxFaults = 3
PROPERTIES
  RetentionCompletes
CHECK_DEADLOCK FALSE
