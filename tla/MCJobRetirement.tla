--------------------------- MODULE MCJobRetirement ---------------------------
(* Small instances of JobRetirement for TLC. *)
EXTENDS JobRetirement

(* No artifact, or the one of the job submitted first. *)
MCUseSets == {{}, {1}}
=============================================================================
