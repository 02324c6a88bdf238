--------------------------- MODULE MCLeaseJournal ---------------------------
(* Small instances of LeaseJournal for TLC. *)
EXTENDS LeaseJournal

CONSTANTS j1, j2, e1, e2, l1, l2, nobody

MCNoJobs == {}
=============================================================================
