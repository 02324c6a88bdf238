--------------------------- MODULE IdempotentJobs ---------------------------
(***************************************************************************)
(* What the queue promises about an idempotency key: the first accepted    *)
(* submission binds the key to one job and one payload for ever, the job   *)
(* is written once, ends once, and only then may be retired.  The wording  *)
(* is that of submit_job ("returning the existing record for a repeated    *)
(* idempotency key") and of the retention tests (a collected key is never  *)
(* executed again).  JobRetirement implements it.                          *)
(***************************************************************************)
CONSTANTS Keys, Ids, Payloads, None

VARIABLES bound, stage

vars == <<bound, stage>>

Init ==
    /\ bound = [k \in Keys |-> None]
    /\ stage = [k \in Keys |-> "free"]

(* A job id serves one key. *)
Accept(k, i, p) ==
    /\ stage[k] = "free"
    /\ \A other \in Keys : bound[other] = None \/ bound[other].job # i
    /\ bound' = [bound EXCEPT ![k] = [job |-> i, payload |-> p]]
    /\ stage' = [stage EXCEPT ![k] = "accepted"]

Move(k, from, to) ==
    /\ stage[k] = from
    /\ stage' = [stage EXCEPT ![k] = to]
    /\ UNCHANGED bound

Write(k)  == Move(k, "accepted", "running")
End(k)    == Move(k, "running", "ended")
Retire(k) == Move(k, "ended", "retired")

Next ==
    \E k \in Keys :
        \/ \E i \in Ids, p \in Payloads : Accept(k, i, p)
        \/ Write(k) \/ End(k) \/ Retire(k)

Spec == Init /\ [][Next]_vars
=============================================================================
