--------------------------- MODULE MCJobLifecycle ---------------------------
(* Instances of JobLifecycle for TLC. *)
EXTENDS JobLifecycle, TLC

CONSTANTS s0, s1, t1, t2, t3, t4

OneJob == {1}
JobTwo == {2}
TwoJobs == {1, 2}
TwoTasks == {t1, t2}
TwoSlots == {s0, s1}
OneSlot == {s1}
FourTasks == {t1, t2, t3, t4}
None == {}
AllMishaps == {"kill", "escape", "release"}

(* Task identities are interchangeable. *)
TaskSymmetry == Permutations(Tasks)
=============================================================================
