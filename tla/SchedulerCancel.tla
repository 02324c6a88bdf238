--------------------------- MODULE SchedulerCancel ---------------------------
(* The cancellation of the external scheduler jobs of one relay job.         *)
(*                                                                           *)
(* queue_scheduler_cancel_state.py and queue_scheduler_cancel_claims.py keep *)
(* two files for a relay job: a pending record, with one disposition per     *)
(* scheduler job id, and, once every disposition is decided, a completed     *)
(* record.  Worker slots (endpoint_scheduler_cancel_actions.py) scan for     *)
(* pending work, register identities, claim an attempt, call the scheduler,  *)
(* record its answer, and claim and record confirmation polls.  The slots of *)
(* one worker process are threads: they interleave at every call of the      *)
(* queue, each of which is one step under the queue lock, and they die       *)
(* together.  The slot Runner executes the relay job while it is active.     *)
(*                                                                           *)
(* Time is abstracted to two facts of a disposition: whether its next        *)
(* attempt is due and whether the lease of its claim is still running.       *)
EXTENDS Naturals, FiniteSets

CONSTANTS
    Workers,            \* worker slots
    Runner,             \* the slot that executes the relay job
    Ids,                \* scheduler job ids
    None,               \* no record, no claim, no request
    MaxAttempts,        \* scheduler_cancel_max_attempts
    MaxConfirmations,   \* scheduler_cancel_confirmation_max_attempts
    MaxFaults,          \* bound: crashes, and leases that end under a live slot
    MaxRequests         \* bound: cancellation commands of the operator

ASSUME CancelAssumption ==
    /\ Runner \in Workers
    /\ None \notin Workers \cup Ids /\ None # "cancel"
    /\ MaxAttempts \in Nat \ {0} /\ MaxConfirmations \in Nat \ {0}
    /\ MaxFaults \in Nat /\ MaxRequests \in Nat

VARIABLES
    job,        \* relay job: its state and its cancellation_request
    known,      \* task metadata: what is durably known of each scheduler id
    pending,    \* scheduler_cancel_pending record, or None
    done,       \* scheduler_cancel_dispositions record, or None
    ext,        \* the scheduler's own jobs
    slot,       \* where each worker slot is, and what it has read
    tried,      \* scheduler_cancel_attempted of the running execution
    timedOut,   \* the execution exceeded timeout_seconds
    asked,      \* history: a cancellation of the scheduler job was asked for
    calls,      \* history: provider.cancel calls per id
    faults,     \* faults so far
    requests    \* cancellation commands so far

vars == <<job, known, pending, done, ext, slot, tried, timedOut,
          asked, calls, faults, requests>>

Open == {"pending", "retry_wait"}
Decided == {"canceled", "terminal", "not_found", "refused", "exhausted"}
Gone == {"canceled", "ended"}

(* A disposition: its state, the attempts and confirmations recorded, the    *)
(* slots whose claims it carries, whether the claim's lease still runs, and  *)
(* whether next_attempt_at has passed.                                       *)
Disposition ==
    [state : Open \cup Decided \cup {"cancel_requested"},
     attempts : Nat, confirmations : Nat,
     claim : Workers \cup {None}, confirm : Workers \cup {None},
     live : BOOLEAN, due : BOOLEAN]

(* A record: why the cancellation is wanted, whether its identities are      *)
(* resolved, and a disposition for each id registered so far.                *)
SchedulerCancelRecords ==
    [reason : {"operator_request", "scheduler_cancel", "execution_timeout"},
     resolution : {"pending", "resolved", "none", "superseded"},
     disp : UNION {[S -> Disposition] : S \in SUBSET Ids}]

ASSUME NoRecordAssumption == None \notin SchedulerCancelRecords

Fresh(s) ==
    [state |-> s, attempts |-> 0, confirmations |-> 0,
     claim |-> None, confirm |-> None, live |-> FALSE, due |-> TRUE]

NewRecord(reason) ==
    [reason |-> reason, resolution |-> "pending", disp |-> [i \in {} |-> None]]

(* SchedulerCancelPending.complete *)
Complete(r) ==
    \/ r.resolution \in {"none", "superseded"}
    \/ /\ r.resolution = "resolved"
       /\ DOMAIN r.disp # {}
       /\ \A i \in DOMAIN r.disp : r.disp[i].state \in Decided

Observed == {i \in Ids : known[i] # "none"}
Owned == {i \in Ids : known[i] = "owned"}

DispositionIsDue(d) ==
    /\ d.state \in Open \cup {"cancel_requested"}
    /\ ~ d.live
    /\ d.due

RecordIsDue(r) ==
    /\ ~ Complete(r)
    /\ r.resolution # "pending" => \E i \in DOMAIN r.disp : DispositionIsDue(r.disp[i])

Idle ==
    [at |-> "idle", reason |-> None, resolution |-> None, todo |-> {}, owned |-> {},
     confirms |-> {}, attempts |-> {}, id |-> None, answer |-> None, late |-> FALSE]

Goto(w, s) == slot' = [slot EXCEPT ![w] = s]
At(w, l) == slot[w].at = l

Init ==
    /\ job = [state |-> "active", request |-> None]
    /\ known = [i \in Ids |-> "none"]
    /\ pending = None
    /\ done = None
    /\ ext = [i \in Ids |-> "running"]
    /\ slot = [w \in Workers |-> Idle]
    /\ tried = FALSE
    /\ timedOut = FALSE
    /\ asked = FALSE
    /\ calls = [i \in Ids |-> 0]
    /\ faults = 0
    /\ requests = 0

-----------------------------------------------------------------------------
(* Persisting                                                                *)

(* Mutant: the pending file of a decided record is not removed. *)
PersistKeepsPending(r) ==
    pending' = r /\ IF Complete(r) THEN done' = r ELSE UNCHANGED done

(* An undecided record stays pending; a decided one is written to the        *)
(* dispositions and then the pending file is removed.                        *)
Persist(r) ==
    IF Complete(r)
    THEN pending' = None /\ done' = r
    ELSE pending' = r /\ UNCHANGED done

(* The process dies between those two file operations. *)
PersistTorn(r) ==
    /\ Complete(r)
    /\ faults < MaxFaults
    /\ done' = r
    /\ slot' = [v \in Workers |-> Idle]
    /\ tried' = FALSE
    /\ faults' = faults + 1
    /\ UNCHANGED pending

(* Write r and let slot w go on as s, or die halfway. *)
Save(w, r, s) ==
    \/ Persist(r) /\ Goto(w, s) /\ UNCHANGED <<tried, faults>>
    \/ PersistTorn(r)

(* _ensure_scheduler_cancel_pending_unlocked *)
Ensured(reason) ==
    CASE pending # None -> pending
      [] pending = None /\ done # None -> done
      [] OTHER -> NewRecord(reason)

EnsurePending(reason) ==
    pending' = IF pending = None /\ done = None THEN NewRecord(reason) ELSE pending

(* A QueueConflictError that nothing on the way catches: it fails the relay  *)
(* job when the slot is executing it, and is contained by the slot's loop    *)
(* otherwise.                                                                *)
Raise(w) ==
    /\ Goto(w, Idle)
    /\ IF w = Runner /\ job.state = "active"
       THEN job' = [job EXCEPT !.state = "terminal"]
       ELSE UNCHANGED job
    /\ UNCHANGED <<pending, done, tried, faults>>

-----------------------------------------------------------------------------
(* The operator, the relay job and its execution                             *)

(* cancel_job_if_active on an active job: the pending record is written      *)
(* before the job.                                                           *)
Cancel(policy) ==
    /\ job.state = "active"
    /\ requests < MaxRequests
    /\ requests' = requests + 1
    /\ job' = [job EXCEPT !.request = policy]
    /\ IF policy = "cancel"
       THEN /\ EnsurePending("operator_request")
            /\ asked' = TRUE
       ELSE UNCHANGED <<pending, asked>>
    /\ UNCHANGED <<known, done, ext, slot, tried, timedOut, calls, faults>>

(* The command dies after the pending record and before the job. *)
CancelTorn ==
    /\ job.state = "active"
    /\ requests < MaxRequests
    /\ requests' = requests + 1
    /\ EnsurePending("operator_request")
    /\ UNCHANGED <<job, known, done, ext, slot, tried, timedOut, asked, calls, faults>>

(* Runtime metadata names a scheduler id, and later proves it ours. *)
Discover(i) ==
    /\ job.state = "active"
    /\ \/ known[i] = "none" /\ known' = [known EXCEPT ![i] = "observed"]
       \/ known[i] # "owned" /\ known' = [known EXCEPT ![i] = "owned"]
    /\ UNCHANGED <<job, pending, done, ext, slot, tried, timedOut, asked, calls,
                   faults, requests>>

(* The relay job ends: a requested cancellation is acknowledged, or the      *)
(* execution succeeds or fails; the reconciler does not tell these apart.    *)
EndJob ==
    /\ job.state = "active"
    /\ At(Runner, "idle")
    /\ job' = [job EXCEPT !.state = "terminal"]
    /\ UNCHANGED <<known, pending, done, ext, slot, tried, timedOut, asked, calls,
                   faults, requests>>

(* _should_cancel_job finds owned ids and enters _cancel_scheduler_jobs. *)
ShouldCancelJob ==
    /\ job.state = "active" /\ At(Runner, "idle")
    /\ job.request = "cancel"
    /\ ~ tried
    /\ Owned # {}
    /\ tried' = TRUE
    /\ Goto(Runner, [Idle EXCEPT !.at = "ensure", !.todo = Owned])
    /\ UNCHANGED <<job, known, pending, done, ext, timedOut, asked, calls,
                   faults, requests>>

(* _handle_execution_timeout: pending work is ensured, then either the owned *)
(* ids are canceled or the empty scan is closed.                             *)
ExecutionTimeout ==
    /\ job.state = "active" /\ At(Runner, "idle")
    /\ ~ timedOut
    /\ timedOut' = TRUE
    /\ asked' = TRUE
    /\ EnsurePending("execution_timeout")
    /\ IF tried THEN UNCHANGED <<slot, tried>>
       ELSE /\ tried' = TRUE
            /\ Goto(Runner, IF Owned # {}
                            THEN [Idle EXCEPT !.at = "ensure", !.todo = Owned]
                            ELSE [Idle EXCEPT !.at = "close_timeout"])
    /\ UNCHANGED <<job, known, done, ext, calls, faults, requests>>

-----------------------------------------------------------------------------
(* _reconcile_canceled_scheduler_job                                         *)

Free(w) == At(w, "idle") /\ (w = Runner => job.state # "active")

(* Mutant: a pending file beside a completed record is skipped, not removed. *)
ScanSkipsCompleted(w) ==
    /\ Free(w)
    /\ pending # None /\ done = None
    /\ RecordIsDue(pending)
    /\ Goto(w, [Idle EXCEPT !.at = "inspect", !.reason = pending.reason,
                            !.resolution = pending.resolution])
    /\ UNCHANGED <<job, known, pending, done, ext, tried, timedOut, asked, calls, faults,
                   requests>>

(* scan_due_scheduler_cancellations *)
Scan(w) ==
    /\ Free(w)
    /\ pending # None
    /\ \/ done # None /\ pending' = None /\ UNCHANGED slot
       \/ /\ done = None
          /\ RecordIsDue(pending)
          /\ Goto(w, [Idle EXCEPT !.at = "inspect", !.reason = pending.reason,
                                  !.resolution = pending.resolution])
          /\ UNCHANGED pending
    /\ UNCHANGED <<job, known, done, ext, tried, timedOut, asked, calls,
                   faults, requests>>

(* Mutant: the record alone decides; the job's request is not read. *)
InspectRecordOnly(w) ==
    /\ At(w, "inspect")
    /\ Goto(w, IF Observed # {}
               THEN [Idle EXCEPT !.at = "register_seen", !.todo = Observed, !.owned = Owned]
               ELSE IF job.state # "active" THEN [Idle EXCEPT !.at = "close_empty"] ELSE Idle)
    /\ UNCHANGED <<job, known, pending, done, ext, tried, timedOut, asked, calls, faults,
                   requests>>

(* The scanned record is compared with the job and its tasks as they are now. *)
Inspect(w) ==
    /\ At(w, "inspect")
    /\ Goto(w,
         CASE slot[w].reason = "operator_request" /\ job.request # "cancel" ->
                [Idle EXCEPT !.at = "supersede"]
           [] OTHER ->
                IF slot[w].resolution = "pending"
                THEN CASE Observed # {} ->
                            [Idle EXCEPT !.at = "register_seen", !.todo = Observed,
                                         !.owned = Owned]
                       [] Observed = {} /\ job.state # "active" ->
                            [Idle EXCEPT !.at = "close_empty"]
                       [] OTHER -> Idle
                ELSE IF Owned # {}
                     THEN [Idle EXCEPT !.at = "ensure", !.todo = Owned]
                     ELSE Idle)
    /\ UNCHANGED <<job, known, pending, done, ext, tried, timedOut, asked, calls,
                   faults, requests>>

(* A conflict while reconciling is forgiven when a completed record exists. *)
ForgivenConflict(w) ==
    IF done # None
    THEN Goto(w, Idle) /\ UNCHANGED <<job, pending, done, tried, faults>>
    ELSE Raise(w)

(* complete_scheduler_cancel_identity_scan(superseded=True) *)
Supersede(w) ==
    /\ At(w, "supersede")
    /\ IF pending = None THEN ForgivenConflict(w)
       ELSE /\ Save(w,
                 [pending EXCEPT !.resolution = "superseded",
                    !.disp = [i \in DOMAIN @ |->
                               [@[i] EXCEPT !.claim = None, !.confirm = None,
                                            !.live = FALSE]]],
                 Idle)
            /\ UNCHANGED job
    /\ UNCHANGED <<known, ext, timedOut, asked, calls, requests>>

(* complete_scheduler_cancel_identity_scan: nothing to cancel, unless an     *)
(* identity was registered meanwhile.                                        *)
CloseEmpty(w) ==
    /\ At(w, "close_empty") \/ At(w, "close_timeout")
    /\ IF pending = None
       THEN IF At(w, "close_empty") THEN ForgivenConflict(w) ELSE Raise(w)
       ELSE IF DOMAIN pending.disp # {}
            THEN Goto(w, Idle) /\ UNCHANGED <<job, pending, done, tried, faults>>
            ELSE /\ Save(w, [pending EXCEPT !.resolution = "none"], Idle)
                 /\ UNCHANGED job
    /\ UNCHANGED <<known, ext, timedOut, asked, calls, requests>>

(* register_scheduler_cancel_identity_once *)
Registered(r, i, verified) ==
    LET new == Fresh(IF verified THEN "pending" ELSE "refused") IN
    IF i \notin DOMAIN r.disp
    THEN [r EXCEPT !.disp = [k \in DOMAIN @ \cup {i} |-> IF k = i THEN new ELSE @[k]]]
    ELSE IF r.disp[i].state # "refused" \/ ~ verified THEN r
    ELSE [r EXCEPT !.disp[i] = [new EXCEPT !.attempts = r.disp[i].attempts,
                                           !.confirmations = r.disp[i].confirmations]]

(* The reconciler registers what it saw with the ownership it read then. *)
RegisterSeen(w, i) ==
    /\ At(w, "register_seen")
    /\ i \in slot[w].todo
    /\ IF pending = None THEN ForgivenConflict(w)
       ELSE /\ Save(w, Registered(pending, i, i \in slot[w].owned),
                    [slot[w] EXCEPT !.todo = @ \ {i}])
            /\ UNCHANGED job
    /\ UNCHANGED <<known, ext, timedOut, asked, calls, requests>>

(* finalize_scheduler_cancel_identities conflicts without a record or        *)
(* without identities.                                                       *)
NothingToFinalize == pending = None \/ DOMAIN pending.disp = {}

FinalizeSeen(w) ==
    /\ At(w, "register_seen")
    /\ slot[w].todo = {}
    /\ IF NothingToFinalize THEN ForgivenConflict(w)
       ELSE /\ Save(w, [pending EXCEPT !.resolution = "resolved"],
                    IF slot[w].owned # {}
                    THEN [Idle EXCEPT !.at = "ensure", !.todo = slot[w].owned]
                    ELSE Idle)
            /\ UNCHANGED job
    /\ UNCHANGED <<known, ext, timedOut, asked, calls, requests>>

-----------------------------------------------------------------------------
(* _cancel_scheduler_jobs                                                    *)

Ensure(w) ==
    /\ At(w, "ensure")
    /\ EnsurePending("scheduler_cancel")
    /\ Goto(w, IF Complete(Ensured("scheduler_cancel")) THEN Idle
               ELSE [slot[w] EXCEPT !.at = "register"])
    /\ UNCHANGED <<job, known, done, ext, tried, timedOut, asked, calls,
                   faults, requests>>

(* Ownership is verified again from the tasks for each id. *)
Register(w, i) ==
    /\ At(w, "register")
    /\ i \in slot[w].todo
    /\ IF pending = None THEN Raise(w)
       ELSE /\ Save(w, Registered(pending, i, i \in Owned),
                    [slot[w] EXCEPT !.todo = @ \ {i}])
            /\ UNCHANGED job
    /\ UNCHANGED <<known, ext, timedOut, asked, calls, requests>>

(* finalize_scheduler_cancel_identities, and the work found in what it       *)
(* returns: confirmations first, then attempts.                              *)
Finalize(w) ==
    LET r == [pending EXCEPT !.resolution = "resolved"]
        Due(S) == {i \in DOMAIN r.disp : r.disp[i].state \in S /\ r.disp[i].due}
    IN
    /\ At(w, "register")
    /\ slot[w].todo = {}
    /\ IF NothingToFinalize THEN Raise(w)
       ELSE /\ Save(w, r,
                    IF Complete(r) THEN Idle
                    ELSE [Idle EXCEPT !.at = "work", !.confirms = Due({"cancel_requested"}),
                                      !.attempts = Due(Open)])
            /\ UNCHANGED job
    /\ UNCHANGED <<known, ext, timedOut, asked, calls, requests>>

WorkDone(w) ==
    /\ At(w, "work")
    /\ slot[w].confirms = {} /\ slot[w].attempts = {}
    /\ Goto(w, Idle)
    /\ UNCHANGED <<job, known, pending, done, ext, tried, timedOut, asked, calls,
                   faults, requests>>

(* The start of the four claim operations: a completed record ends the       *)
(* matter and removes a pending file left behind; a missing one is a         *)
(* conflict.                                                                 *)
Overtaken(w, s) ==
    /\ done # None
    /\ pending' = None
    /\ Goto(w, s)
    /\ UNCHANGED <<job, done, tried, faults>>

(* Mutant: the completed record is not looked for. *)
NotLookedFor == TRUE

Undecided == done = None

(* Mutant: a running claim of another slot is ignored. *)
MayAttemptAnyway(i) ==
    /\ pending.resolution = "resolved"
    /\ pending.disp[i].state \in Open
    /\ pending.disp[i].due

(* claim_scheduler_cancel_attempt: refused unless the identities are         *)
(* resolved, the disposition is open and due, and no claim on it runs.       *)
MayAttempt(i) ==
    /\ pending.resolution = "resolved"
    /\ pending.disp[i].state \in Open
    /\ pending.disp[i].due
    /\ ~ pending.disp[i].live

ClaimAttempt(w, i) ==
    LET rest == [slot[w] EXCEPT !.attempts = @ \ {i}] IN
    /\ At(w, "work")
    /\ slot[w].confirms = {}
    /\ i \in slot[w].attempts
    /\ \/ Overtaken(w, rest)
       \/ /\ Undecided
          /\ IF pending = None THEN Raise(w)
             ELSE /\ IF MayAttempt(i)
                     THEN /\ pending' = [pending EXCEPT
                                           !.disp[i] = [@ EXCEPT !.claim = w, !.live = TRUE]]
                          /\ Goto(w, [rest EXCEPT !.at = "cancel", !.id = i])
                     ELSE Goto(w, rest) /\ UNCHANGED pending
                  /\ UNCHANGED <<job, done, tried, faults>>
    /\ UNCHANGED <<known, ext, timedOut, asked, calls, requests>>

(* claim_scheduler_cancel_confirmation *)
MayConfirm(i) ==
    /\ pending.resolution = "resolved"
    /\ pending.disp[i].state = "cancel_requested"
    /\ pending.disp[i].due
    /\ ~ pending.disp[i].live

ClaimConfirmation(w, i) ==
    LET rest == [slot[w] EXCEPT !.confirms = @ \ {i}] IN
    /\ At(w, "work")
    /\ i \in slot[w].confirms
    /\ \/ Overtaken(w, rest)
       \/ /\ Undecided
          /\ IF pending = None THEN Raise(w)
             ELSE /\ IF MayConfirm(i)
                     THEN /\ pending' = [pending EXCEPT
                                           !.disp[i] = [@ EXCEPT !.confirm = w, !.live = TRUE]]
                          /\ Goto(w, [rest EXCEPT !.at = "poll", !.id = i])
                     ELSE Goto(w, rest) /\ UNCHANGED pending
                  /\ UNCHANGED <<job, done, tried, faults>>
    /\ UNCHANGED <<known, ext, timedOut, asked, calls, requests>>

(* provider.cancel: a live scheduler job may start to stop whether or not    *)
(* the command reports success; a failed command is an answer as well.       *)
ProviderCancel(w) ==
    LET i == slot[w].id IN
    /\ At(w, "cancel")
    /\ calls' = [calls EXCEPT ![i] = @ + 1]
    /\ \/ ext[i] = "running" /\ ext' = [ext EXCEPT ![i] = "stopping"]
       \/ UNCHANGED ext
    /\ \E a \in {"accepted", "failed"} :
          /\ a = "accepted" => ext'[i] # "running"
          /\ Goto(w, [slot[w] EXCEPT !.at = "answered", !.answer = a])
    /\ UNCHANGED <<job, known, pending, done, tried, timedOut, asked, faults,
                   requests>>

(* Mutant: the limit on attempts is one too high. *)
AttemptedOnceMore(d, answer) ==
    [d EXCEPT
       !.state = CASE answer = "accepted" -> "cancel_requested"
                   [] answer # "accepted" /\ d.attempts >= MaxAttempts -> "exhausted"
                   [] OTHER -> "retry_wait",
       !.attempts = @ + 1, !.due = (answer = "accepted"), !.claim = None, !.live = FALSE]

(* record_scheduler_cancel_attempt *)
Attempted(d, answer) ==
    LET n == d.attempts + 1 IN
    [d EXCEPT
       !.state = CASE answer = "accepted" -> "cancel_requested"
                   [] answer # "accepted" /\ n >= MaxAttempts -> "exhausted"
                   [] OTHER -> "retry_wait",
       !.attempts = n,
       !.due = (answer = "accepted"),
       !.claim = None, !.live = FALSE]

Back(w) == [slot[w] EXCEPT !.at = "work", !.id = None, !.answer = None, !.late = FALSE]

RecordAttempt(w) ==
    LET i == slot[w].id
        confirm == [Back(w) EXCEPT !.confirms =
                      IF slot[w].answer = "accepted" THEN @ \cup {i} ELSE @]
    IN
    /\ At(w, "answered")
    /\ \/ Overtaken(w, Back(w))
       \/ /\ Undecided
          /\ IF pending = None THEN Raise(w)
             ELSE IF pending.disp[i].claim # w
                  THEN Goto(w, Back(w)) /\ UNCHANGED <<job, pending, done, tried, faults>>
                  ELSE /\ Save(w, [pending EXCEPT !.disp[i] = Attempted(@, slot[w].answer)], confirm)
                       /\ UNCHANGED job
    /\ UNCHANGED <<known, ext, timedOut, asked, calls, requests>>

(* provider.poll: the truth about the exact id, or no answer.  A scheduler   *)
(* may have forgotten a job that is gone.                                    *)
PollAnswers(i) ==
    {"unknown"} \cup
    CASE ext[i] = "canceled" -> {"canceled", "not_found"}
      [] ext[i] = "ended" -> {"terminal", "not_found"}
      [] OTHER -> {"running"}

ProviderPoll(w) ==
    /\ At(w, "poll")
    /\ \E a \in PollAnswers(slot[w].id) :
          Goto(w, [slot[w] EXCEPT !.at = "polled", !.answer = a])
    /\ UNCHANGED <<job, known, pending, done, ext, tried, timedOut, asked, calls,
                   faults, requests>>

(* Mutant: a poll without an answer counts as not found. *)
ConfirmedBySilence(d, answer) ==
    [d EXCEPT
       !.state = CASE answer \in {"canceled", "terminal", "not_found"} -> answer
                   [] answer = "unknown" -> "not_found"
                   [] OTHER -> "cancel_requested",
       !.confirmations = @ + 1, !.due = FALSE, !.confirm = None, !.live = FALSE]

(* record_scheduler_cancel_observation *)
Confirmed(d, answer) ==
    LET n == d.confirmations + 1 IN
    [d EXCEPT
       !.state = CASE answer \in {"canceled", "terminal", "not_found"} -> answer
                   [] answer \in {"unknown", "running"} /\ n >= MaxConfirmations -> "exhausted"
                   [] OTHER -> "cancel_requested",
       !.confirmations = n,
       !.due = FALSE,
       !.confirm = None, !.live = FALSE]

RecordObservation(w) ==
    LET i == slot[w].id IN
    /\ At(w, "polled")
    /\ \/ Overtaken(w, Back(w))
       \/ /\ Undecided
          /\ IF pending = None THEN Raise(w)
             ELSE IF pending.disp[i].confirm # w
                  THEN Goto(w, Back(w)) /\ UNCHANGED <<job, pending, done, tried, faults>>
                  ELSE /\ Save(w, [pending EXCEPT !.disp[i] = Confirmed(@, slot[w].answer)], Back(w))
                       /\ UNCHANGED job
    /\ UNCHANGED <<known, ext, timedOut, asked, calls, requests>>

-----------------------------------------------------------------------------
(* Time, the scheduler, and crashes                                          *)

BackoffEnds(i) ==
    /\ pending # None /\ i \in DOMAIN pending.disp
    /\ pending.disp[i].state \in {"retry_wait", "cancel_requested"}
    /\ ~ pending.disp[i].due
    /\ pending' = [pending EXCEPT !.disp[i] = [@ EXCEPT !.due = TRUE]]
    /\ UNCHANGED <<job, known, done, ext, slot, tried, timedOut, asked, calls,
                   faults, requests>>

(* The slot that is still working under the claim of disposition d of i. *)
Claimants(d, i) ==
    {w \in Workers : /\ slot[w].id = i
                     /\ \/ d.claim = w /\ slot[w].at \in {"cancel", "answered"}
                        \/ d.confirm = w /\ slot[w].at \in {"poll", "polled"}}

(* A claim's lease ends.  Under a slot that is still at work it is a fault:  *)
(* the lease is longer than a scheduler command may take.                    *)
LeaseEnds(i) ==
    /\ pending # None /\ i \in DOMAIN pending.disp
    /\ pending.disp[i].live
    /\ pending' = [pending EXCEPT !.disp[i] = [@ EXCEPT !.live = FALSE]]
    /\ LET C == Claimants(pending.disp[i], i) IN
       /\ C # {} => faults < MaxFaults
       /\ faults' = IF C = {} THEN faults ELSE faults + 1
       /\ slot' = [w \in Workers |-> IF w \in C THEN [slot[w] EXCEPT !.late = TRUE]
                                     ELSE slot[w]]
    /\ UNCHANGED <<job, known, done, ext, tried, timedOut, asked, calls, requests>>

SchedulerStops(i) ==
    /\ \/ ext[i] = "stopping" /\ ext' = [ext EXCEPT ![i] = "canceled"]
       \/ ext[i] \in {"running", "stopping"} /\ ext' = [ext EXCEPT ![i] = "ended"]
    /\ UNCHANGED <<job, known, pending, done, slot, tried, timedOut, asked, calls,
                   faults, requests>>

Crash ==
    /\ faults < MaxFaults
    /\ \E w \in Workers : ~ At(w, "idle")
    /\ slot' = [w \in Workers |-> Idle]
    /\ tried' = FALSE
    /\ faults' = faults + 1
    /\ UNCHANGED <<job, known, pending, done, ext, timedOut, asked, calls,
                   requests>>

-----------------------------------------------------------------------------
Step(w) ==
    \/ Scan(w) \/ Inspect(w) \/ Supersede(w) \/ CloseEmpty(w)
    \/ \E i \in Ids : RegisterSeen(w, i) \/ Register(w, i)
    \/ FinalizeSeen(w) \/ Ensure(w) \/ Finalize(w) \/ WorkDone(w)
    \/ \E i \in Ids : ClaimAttempt(w, i) \/ ClaimConfirmation(w, i)
    \/ ProviderCancel(w) \/ RecordAttempt(w)
    \/ ProviderPoll(w) \/ RecordObservation(w)

Next ==
    \/ \E p \in {"cancel", "keep"} : Cancel(p)
    \/ CancelTorn \/ EndJob \/ ShouldCancelJob \/ ExecutionTimeout \/ Crash
    \/ \E w \in Workers : Step(w)
    \/ \E i \in Ids : Discover(i) \/ BackoffEnds(i) \/ LeaseEnds(i) \/ SchedulerStops(i)

Spec == Init /\ [][Next]_vars

(* A slot's loop keeps running, also after a restart; waits and leases end;  *)
(* and the relay job reaches a terminal state (module JobLifecycle).  The    *)
(* scheduler owes nothing.                                                   *)
FairSpec ==
    /\ Spec
    /\ \A w \in Workers : WF_vars(Step(w))
    /\ \A i \in Ids : WF_vars(BackoffEnds(i)) /\ WF_vars(LeaseEnds(i))
    /\ WF_vars(EndJob)
-----------------------------------------------------------------------------
Records == {r \in {pending, done} : r # None}

Slots ==
    [at : {"idle", "inspect", "supersede", "close_empty", "close_timeout",
           "register_seen", "ensure", "register", "work", "cancel", "answered",
           "poll", "polled"},
     reason : {None, "operator_request", "scheduler_cancel", "execution_timeout"},
     resolution : {None, "pending", "resolved"},
     todo : SUBSET Ids, owned : SUBSET Ids,
     confirms : SUBSET Ids, attempts : SUBSET Ids,
     id : Ids \cup {None},
     answer : {None, "accepted", "failed", "unknown", "running", "canceled",
               "terminal", "not_found"},
     late : BOOLEAN]

(* The variables have their types; a pending record is never one that        *)
(* complete would call complete, and a completed one always is.              *)
TypeOK ==
    /\ job \in [state : {"active", "terminal"},
                request : {None, "cancel", "keep"}]
    /\ known \in [Ids -> {"none", "observed", "owned"}]
    /\ \A r \in Records :
          /\ r.reason \in {"operator_request", "scheduler_cancel", "execution_timeout"}
          /\ r.resolution \in {"pending", "resolved", "none", "superseded"}
          /\ DOMAIN r.disp \subseteq Ids
          /\ \A i \in DOMAIN r.disp : r.disp[i] \in Disposition
    /\ pending # None => ~ Complete(pending)
    /\ done # None => Complete(done)
    /\ ext \in [Ids -> {"running", "stopping"} \cup Gone]
    /\ slot \in [Workers -> Slots]
    /\ tried \in BOOLEAN /\ timedOut \in BOOLEAN
    /\ asked \in BOOLEAN
    /\ calls \in [Ids -> Nat]
    /\ faults \in 0..MaxFaults /\ requests \in 0..MaxRequests

(* Recorded evidence agrees with the scheduler: a disposition that says      *)
(* canceled, terminal or not found is about a scheduler job that is gone,    *)
(* however many polls were in flight, late or lost                           *)
(* (record_scheduler_cancel_observation).                                    *)
EvidenceIsTrue ==
    \A r \in Records : \A i \in DOMAIN r.disp :
       /\ r.disp[i].state = "canceled" => ext[i] = "canceled"
       /\ r.disp[i].state = "terminal" => ext[i] = "ended"
       /\ r.disp[i].state = "not_found" => ext[i] \in Gone

(* provider.cancel is called only for a scheduler job whose ownership is     *)
(* durably proven, whichever slot registered it, and from which reading of   *)
(* the tasks, and only after a command with cancel_scheduler or a timeout: a *)
(* command that keeps the scheduler job, or one that died before it wrote    *)
(* the request, cancels nothing.                                             *)
OnlyAskedAndOwned ==
    \A i \in Ids : calls[i] > 0 => known[i] = "owned" /\ asked

(* Two slots are in provider.cancel for one scheduler job only if the lease  *)
(* of one of them ended under it.                                            *)
OneCancelAtATime ==
    \A v, w \in Workers :
       /\ v # w
       /\ At(v, "cancel") /\ At(w, "cancel") /\ slot[v].id = slot[w].id
       => slot[v].late \/ slot[w].late

(* Every call of the scheduler is paid for by a recorded attempt, within     *)
(* scheduler_cancel_max_attempts, or by a crash or a lease that ended.       *)
CallsBudgeted ==
    \A i \in Ids : calls[i] <= MaxAttempts + faults

(* The durable request is the policy: no record is closed as superseded      *)
(* while the job asks for its scheduler job to be canceled                   *)
(* (complete_scheduler_cancel_identity_scan).                                *)
RequestIsHeard ==
    (done # None /\ done.resolution = "superseded") => job.request # "cancel"

(* What a completed record says of a scheduler job is never taken back,      *)
(* although a crash may leave the older pending file beside it.              *)
ProofIsKept ==
    [][\A i \in Ids :
          /\ done # None
          /\ i \in DOMAIN done.disp
          /\ done.disp[i].state \in Decided
          => i \in DOMAIN done'.disp /\ done'.disp[i].state = done.disp[i].state]_vars

(* Pending cancellation work is eventually decided: by proof, by refusal, by *)
(* the attempt and confirmation limits, or because it was superseded.        *)
CancellationDecided ==
    pending # None ~> pending = None
=============================================================================
