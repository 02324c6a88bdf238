SPECIFICATION Spec
CONSTANTS
    j1 = j1
    j2 = j2
    i1 = i1
    a1 = a1
    a2 = a2
    None = None
    Gone = Gone
    Jobs = {j1, j2, i1}
    Ingests = {i1}
    Actors = {a1, a2}
    Estimate <- MCEstimate
    HighWater = 3
    MaxReservations = 2
    Cancelable = {j1, j2}
    Overlap = FALSE
    MaxFaults = 1
SYMMETRY Symmetry
INVARIANTS
    TypeOK
    
    
