------------------------- MODULE MCStorageAdmission -------------------------
(* Instances of StorageAdmission for TLC. *)
EXTENDS StorageAdmission, TLC

CONSTANTS j1, j2, i1, a1, a2

MCEstimate == [j \in Jobs |-> IF j \in Ingests THEN 1 ELSE 2]
Symmetry == Permutations(Actors)
=============================================================================
