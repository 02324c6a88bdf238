SPECIFICATION Spec
CONSTANTS
  Keys = {k1, k2}
  MaxIds = 2
  Tags = {t}
  UseSets <- MCUseSets
  None = None
  MaxFaults = 1
INVARIANTS
  TypeOK
  OneJobPerKey
  
  CollectedIsRetired
  
  UsedArtifactsRetained

  
CHECK_DEADLOCK FALSE
