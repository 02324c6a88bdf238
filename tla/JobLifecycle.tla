---------------------------- MODULE JobLifecycle ----------------------------
(***************************************************************************)
(* A job from its queue entry to its terminal state, as the worker daemon  *)
(* of one cluster drives it: slots (threads of one process) lease queued   *)
(* jobs, run each as one contained process, and write back the outcome.    *)
(* Operators cancel jobs, leases expire, the daemon crashes and restarts,  *)
(* and slot Reconciler cleans up after attempts that lost their worker.    *)
(*                                                                         *)
(* Every call of the durable queue is one step (the queue lock; module     *)
(* LeaseJournal opens those steps up), and so is every action on a         *)
(* process.  Between two such steps anything else may happen.              *)
(***************************************************************************)
EXTENDS Integers, FiniteSets

CONSTANTS Jobs,         \* submission numbers of the jobs
          Slots,        \* worker threads; after a crash they are new endpoints
          Tasks,        \* identities for execution attempts
          Reconciler,   \* the slot started with reconcile_execution_cleanup
          Slow,         \* slots that may outlast their lease without a heartbeat
          Recoverable,  \* jobs on the JARVIS route, whose lost response is queried
          Scheduled,    \* jobs whose execution reports a scheduler identity
          Mishaps,      \* errors inside error handling this instance admits
          Nobody, Crashed, NoJob, NoTask,
          MaxAttempts,      \* max_attempts of stale recovery
          ForegroundLimit,  \* EXECUTION_CLEANUP_MAX_FOREGROUND_JOBS
          MaxFaults         \* bound on crashes and injected errors

ASSUME LifecycleAssumption ==
    /\ Jobs \subseteq Nat
    /\ Reconciler \in Slots
    /\ Slow \subseteq Slots
    /\ Recoverable \subseteq Jobs
    /\ Scheduled \subseteq Jobs
    /\ Mishaps \subseteq {"kill", "escape", "release"}
    /\ {Nobody, Crashed} \cap Slots = {}
    /\ Nobody # Crashed
    /\ NoJob \notin Jobs
    /\ NoTask \notin Tasks
    /\ MaxAttempts \in Nat \ {0}
    /\ ForegroundLimit \in Nat \ {0}
    /\ MaxFaults \in Nat

VARIABLES state,      \* durable state of every job
          attempts,   \* leases granted to every job
          holder,     \* endpoint of the job's lease: a slot, Crashed or Nobody
          expired,    \* jobs whose lease is past its expiry
          cancel,     \* jobs with a durable cancellation request
          observed,   \* jobs with a scheduler observation
          taskJob, taskState,
          markers,    \* tasks with a pending execution-cleanup marker
          owned,      \* tasks with recorded execution ownership
          recovery,   \* state of the JARVIS recovery intent of every task
          proc,       \* the process tree of every task
          proven,     \* tasks reported stopped by a restart or cancel cleanup
          pc, at, mine, note, seen,   \* of every slot
          batch,      \* markers the reconciliation pass still has to visit
          foreground, \* jobs run by Reconciler since its last pass
          faults

durable == <<state, attempts, holder, expired, cancel, observed>>
taskVars == <<taskJob, taskState, markers, owned, recovery, proven>>
local == <<at, mine, note, seen, batch, foreground>>
vars == <<durable, taskVars, proc, pc, local, faults>>

Held == {"leased", "running"}
Terminal == {"succeeded", "failed", "canceled"}
JobStates == {"queued"} \cup Held \cup Terminal
RunSteps == {"opentask", "register", "spawn", "gate", "running", "resolve",
             "closetask", "closejob", "ackmarker"}
UndoSteps == {"undo", "undotask", "undoack", "acknowledge"}
WorkSteps == {"leased", "begin", "failtasks", "failjob", "release"}
                 \cup RunSteps \cup UndoSteps
PassSteps == {"rstop", "rtask", "rresolve", "rjob", "rack", "rcancel"}
Steps == {"idle", "scan", "pick"} \cup WorkSteps \cup PassSteps
Notes == {"none", "error", "unresolved", "recovered", "refused", "unreleased",
          "plain", "escaped"} \cup Terminal

Alive == {t \in Tasks : proc[t] \in {"gated", "live"}}
TasksOf(j) == {t \in Tasks : taskJob[t] = j}
OpenTasks(j) == {t \in TasksOf(j) : taskState[t] = "running"}
Marked(j) == markers \cap TasksOf(j) # {}

Init ==
    /\ state = [j \in Jobs |-> "queued"]
    /\ attempts = [j \in Jobs |-> 0]
    /\ holder = [j \in Jobs |-> Nobody]
    /\ expired = {} /\ cancel = {} /\ observed = {}
    /\ taskJob = [t \in Tasks |-> NoJob]
    /\ taskState = [t \in Tasks |-> "absent"]
    /\ markers = {} /\ owned = {} /\ proven = {}
    /\ recovery = [t \in Tasks |-> "none"]
    /\ proc = [t \in Tasks |-> "none"]
    /\ pc = [s \in Slots |-> "idle"]
    /\ at = [s \in Slots |-> NoJob]
    /\ mine = [s \in Slots |-> NoTask]
    /\ note = [s \in Slots |-> "none"]
    /\ seen = [s \in Slots |-> "none"]
    /\ batch = {} /\ foreground = 0 /\ faults = 0

-----------------------------------------------------------------------------
(* Mutant: stale recovery overlooks the scheduler observation. *)
ReclaimedDespiteScheduler ==
    {j \in expired : state[j] \in Held => ~Marked(j)}

(* Stale recovery, run by every poll of every slot and inside every        *)
(* acquisition.  The expired lease of a job nobody runs is dropped.  A     *)
(* leased or running job goes back to the queue, or fails at the retry     *)
(* limit, unless a cleanup marker or a scheduler observation protects it.  *)
Reclaimed ==
    {j \in expired : state[j] \in Held => ~Marked(j) /\ j \notin observed}

RecoveredState ==
    [j \in Jobs |->
        IF j \in Reclaimed /\ state[j] \in Held
        THEN IF attempts[j] < MaxAttempts THEN "queued" ELSE "failed"
        ELSE state[j]]

RecoveredHolder ==
    [j \in Jobs |-> IF j \in Reclaimed THEN Nobody ELSE holder[j]]

(* recover_stale_jobs of run_once by any slot, and recover_stale_job of    *)
(* the operator's stale cleanup for one job.                               *)
RecoverStaleJobs ==
    /\ Reclaimed # {}
    /\ state' = RecoveredState
    /\ holder' = RecoveredHolder
    /\ expired' = expired \ Reclaimed
    /\ UNCHANGED <<attempts, cancel, observed, taskVars, proc, pc, local, faults>>

RecoverStaleJob(j) ==
    /\ j \in Reclaimed
    /\ state' = [state EXCEPT ![j] = RecoveredState[j]]
    /\ holder' = [holder EXCEPT ![j] = Nobody]
    /\ expired' = expired \ {j}
    /\ UNCHANGED <<attempts, cancel, observed, taskVars, proc, pc, local, faults>>

(* A queued job with a pending cleanup marker is passed over. *)
Eligible == {j \in Jobs : RecoveredState[j] = "queued" /\ ~Marked(j)}

PassDue(s) == s = Reconciler /\ foreground = ForegroundLimit

(* acquire_next_job: recovery, then the first eligible job in submission   *)
(* order.                                                                  *)
Acquire(s) ==
    /\ pc[s] = "idle"
    /\ ~PassDue(s)
    /\ \E j \in Eligible :
        /\ \A i \in Eligible : j <= i
        /\ state' = [RecoveredState EXCEPT ![j] = "leased"]
        /\ attempts' = [attempts EXCEPT ![j] = @ + 1]
        /\ holder' = [RecoveredHolder EXCEPT ![j] = s]
        /\ at' = [at EXCEPT ![s] = j]
    /\ expired' = expired \ Reclaimed
    /\ pc' = [pc EXCEPT ![s] = "leased"]
    /\ UNCHANGED <<cancel, observed, taskVars, proc, mine, note, seen, batch,
                   foreground, faults>>

(* Time passes: a lease nobody renews expires.  The endpoint of a crashed  *)
(* daemon never renews; a live slot misses its heartbeat only if Slow.     *)
Expire(j) ==
    /\ holder[j] \in {Crashed} \cup Slow
    /\ j \notin expired
    /\ expired' = expired \cup {j}
    /\ UNCHANGED <<state, attempts, holder, cancel, observed, taskVars, proc, pc,
                   local, faults>>

(* cancel_job_if_active: a queued job is canceled at once, a leased or     *)
(* running one only asked to stop.                                         *)
Cancel(j) ==
    /\ state[j] \notin Terminal
    /\ j \notin cancel \/ state[j] = "queued"
    /\ cancel' = cancel \cup {j}
    /\ state' = [state EXCEPT ![j] = IF @ = "queued" THEN "canceled" ELSE @]
    /\ UNCHANGED <<attempts, holder, expired, observed, taskVars, proc, pc, local,
                   faults>>

-----------------------------------------------------------------------------
(* What a step of slot s leaves alone. *)
Goto(s, step) == pc' = [pc EXCEPT ![s] = step]
Stop(t) == proc' = [proc EXCEPT ![t] = "dead"]
Raise(s, step) == note' = [note EXCEPT ![s] = "error"] /\ Goto(s, step)
Fault == faults < MaxFaults /\ faults' = faults + 1
Mishap(kind) == kind \in Mishaps /\ Fault
Escape(s) == Mishap("escape") /\ note' = [note EXCEPT ![s] = "escaped"] /\ Goto(s, "release")
SameLocal == UNCHANGED <<at, mine, seen, batch, foreground>>
SameJobs == UNCHANGED durable
SameTasks == UNCHANGED taskVars

(* Mutant: any state may be written over any other. *)
CanWriteAlways(j, new) == TRUE

(* update_job_state refuses to leave a terminal state. *)
CanWrite(j, new) == state[j] \notin Terminal \/ state[j] = new

(* _run_job_impl: the cancellation check before anything else. *)
CheckCancel(s) ==
    /\ pc[s] = "leased"
    /\ Goto(s, IF at[s] \in cancel THEN "undo" ELSE "begin")
    /\ UNCHANGED <<durable, taskVars, proc, local, faults>>

(* _reconcile_canceled_execution, one task left open by an earlier attempt *)
(* after the other: its recorded process tree is stopped, without recorded *)
(* ownership the cleanup cannot be proven and the job fails instead.       *)
Undo(s) ==
    /\ pc[s] = "undo"
    /\ \/ /\ OpenTasks(at[s]) = {}
          /\ Goto(s, "acknowledge")
          /\ UNCHANGED <<proc, mine, note>>
       \/ \E t \in OpenTasks(at[s]) \cap owned :
          /\ Stop(t)
          /\ mine' = [mine EXCEPT ![s] = t]
          /\ Goto(s, "undotask")
          /\ UNCHANGED note
       \/ /\ OpenTasks(at[s]) \ owned # {}
          /\ Raise(s, "failtasks")
          /\ UNCHANGED <<proc, mine>>
    /\ SameJobs /\ SameTasks
    /\ UNCHANGED <<at, seen, batch, foreground, faults>>

UndoTask(s) ==
    /\ pc[s] = "undotask"
    /\ taskState' = [taskState EXCEPT ![mine[s]] = "canceled"]
    /\ Goto(s, "undoack")
    /\ SameJobs
    /\ UNCHANGED <<taskJob, markers, owned, recovery, proven, proc, local, faults>>

UndoAck(s) ==
    /\ pc[s] = "undoack"
    /\ markers' = markers \ {mine[s]}
    /\ proven' = proven \cup {mine[s]}
    /\ mine' = [mine EXCEPT ![s] = NoTask]
    /\ Goto(s, "undo")
    /\ SameJobs
    /\ UNCHANGED <<taskJob, taskState, owned, recovery, proc, at, note, seen,
                   batch, foreground, faults>>

(* acknowledge_job_cancellation: idempotent on a canceled job, refused on  *)
(* one that ended otherwise.                                               *)
CanAcknowledge(j) == j \in cancel /\ state[j] \notin Terminal \ {"canceled"}

Acknowledge(s) ==
    /\ pc[s] = "acknowledge"
    /\ IF CanAcknowledge(at[s])
       THEN /\ state' = [state EXCEPT ![at[s]] = "canceled"]
            /\ Goto(s, "release")
            /\ UNCHANGED note
       ELSE Raise(s, "failtasks") /\ UNCHANGED state
    /\ UNCHANGED <<attempts, holder, expired, cancel, observed, proc, faults>>
    /\ SameTasks /\ SameLocal

(* update_job_state RUNNING: neither the lease nor the endpoint is checked. *)
Begin(s) ==
    /\ pc[s] = "begin"
    /\ IF CanWrite(at[s], "running")
       THEN /\ state' = [state EXCEPT ![at[s]] = "running"]
            /\ Goto(s, "opentask")
            /\ UNCHANGED note
       ELSE Raise(s, "failtasks") /\ UNCHANGED state
    /\ UNCHANGED <<attempts, holder, expired, cancel, observed, proc, faults>>
    /\ SameTasks /\ SameLocal

(* append_task and its RUNNING state. *)
OpenTask(s) ==
    /\ pc[s] = "opentask"
    /\ \E t \in Tasks :
        /\ taskState[t] = "absent"
        /\ taskState' = [taskState EXCEPT ![t] = "running"]
        /\ taskJob' = [taskJob EXCEPT ![t] = at[s]]
        /\ mine' = [mine EXCEPT ![s] = t]
    /\ Goto(s, "register")
    /\ SameJobs
    /\ UNCHANGED <<markers, owned, recovery, proven, proc, at, note, seen, batch,
                   foreground, faults>>

(* register_execution_cleanup, with the recovery intent of a JARVIS run. *)
Register(s) ==
    /\ pc[s] = "register"
    /\ markers' = markers \cup {mine[s]}
    /\ recovery' = [recovery EXCEPT ![mine[s]] =
                       IF at[s] \in Recoverable THEN "pending" ELSE "none"]
    /\ Goto(s, "spawn")
    /\ SameJobs
    /\ UNCHANGED <<taskJob, taskState, owned, proven, proc, local, faults>>

(* spawn_owned_process starts a gated broker and _append_execution_start   *)
(* records it before anything runs behind the gate.                        *)
Spawn(s) ==
    /\ pc[s] = "spawn"
    /\ proc' = [proc EXCEPT ![mine[s]] = "gated"]
    /\ owned' = owned \cup {mine[s]}
    /\ Goto(s, "gate")
    /\ SameJobs
    /\ UNCHANGED <<taskJob, taskState, markers, recovery, proven, local, faults>>

ReleaseGate(s) ==
    /\ pc[s] = "gate"
    /\ IF proc[mine[s]] = "gated"
       THEN /\ proc' = [proc EXCEPT ![mine[s]] = "live"]
            /\ Goto(s, "running")
            /\ UNCHANGED note
       ELSE Raise(s, "ackmarker") /\ UNCHANGED proc
    /\ SameJobs /\ SameTasks /\ SameLocal /\ UNCHANGED faults

(* An error of any other step: storage, spool, rendering, spawn, the queue *)
(* lock's timeout.  Only an attempt that has registered its marker goes on *)
(* to acknowledge it, and a broker that did not start is stopped.          *)
StepFails(s) ==
    /\ Fault
    /\ \/ /\ pc[s] \in {"leased", "begin", "opentask", "register"} \cup UndoSteps
          /\ Raise(s, "failtasks") /\ UNCHANGED proc
       \/ /\ pc[s] \in {"spawn", "gate"}
          /\ Raise(s, "ackmarker") /\ Stop(mine[s])
       \/ /\ pc[s] \in {"closetask", "closejob"}
          /\ Raise(s, "ackmarker") /\ UNCHANGED proc
    /\ SameJobs /\ SameTasks /\ SameLocal

-----------------------------------------------------------------------------
(* The polling loop of run_command_streaming around the live process. *)

(* A process ends by itself, whether or not a slot still watches it. *)
ProcessExits(t) ==
    /\ proc[t] = "live"
    /\ Stop(t)
    /\ UNCHANGED <<durable, taskVars, pc, local, faults>>

PollExit(s) ==
    /\ pc[s] = "running"
    /\ proc[mine[s]] = "dead"
    /\ Goto(s, "resolve")
    /\ UNCHANGED <<durable, taskVars, proc, local, faults>>

(* Mutant: the loop does not look at the cancellation request. *)
PollCancelNever(s) == FALSE

PollCancel(s) ==
    /\ pc[s] = "running"
    /\ proc[mine[s]] = "live"
    /\ at[s] \in cancel
    /\ Stop(mine[s])
    /\ Goto(s, "resolve")
    /\ UNCHANGED <<durable, taskVars, local, faults>>

(* _renew_lease_if_needed: an expired lease that still exists is renewed,  *)
(* a lost lease ends the execution.  The watch over a deferred JARVIS      *)
(* execution goes on with the heartbeat after the process has ended.       *)
Heartbeat(s) ==
    /\ \/ pc[s] = "running" /\ proc[mine[s]] = "live"
       \/ pc[s] = "resolve" /\ at[s] \in Recoverable
    /\ \/ /\ holder[at[s]] = s
          /\ at[s] \in expired
          /\ expired' = expired \ {at[s]}
          /\ UNCHANGED <<proc, pc, note>>
       \/ /\ holder[at[s]] # s
          /\ Stop(mine[s])
          /\ Raise(s, "ackmarker")
          /\ UNCHANGED expired
    /\ UNCHANGED <<state, attempts, holder, cancel, observed, faults>>
    /\ SameTasks /\ SameLocal

(* The runtime metadata channel reports a scheduler identity. *)
ObserveScheduler(s) ==
    /\ pc[s] = "running"
    /\ at[s] \in Scheduled \ observed
    /\ observed' = observed \cup {at[s]}
    /\ UNCHANGED <<state, attempts, holder, expired, cancel, taskVars, proc, pc,
                   local, faults>>

(* Any other error of the loop stops the process; if that fails too the    *)
(* two errors are reported as one.                                         *)
PollFails(s) ==
    /\ pc[s] = "running"
    /\ \/ Fault /\ Stop(mine[s])
       \/ Mishap("kill") /\ UNCHANGED proc
    /\ Raise(s, "ackmarker")
    /\ SameJobs /\ SameTasks /\ SameLocal

-----------------------------------------------------------------------------
(* After the process: the outcome, the task, the job, the marker, the lease. *)

(* resolve_execution_outcome.  A cancellation request wins unless the real *)
(* outcome of a deferred JARVIS execution was observed.                    *)
Outcomes(j, resolution) ==
    IF j \notin cancel
    THEN IF resolution = "refused" THEN {"failed"} ELSE {"succeeded", "failed"}
    ELSE IF resolution = "resolved" THEN Terminal ELSE {"canceled"}

(* Mutant: the resolution of the dispatch is kept as the outcome. *)
ResolveKeepsResolution(s) ==
    /\ pc[s] = "resolve"
    /\ note' = [note EXCEPT ![s] = recovery[mine[s]]]
    /\ Goto(s, "closetask")
    /\ SameJobs /\ SameTasks /\ SameLocal /\ UNCHANGED <<proc, faults>>

Resolve(s) ==
    /\ pc[s] = "resolve"
    /\ \E r \in IF recovery[mine[s]] = "pending" THEN {"resolved", "refused"}
                ELSE {recovery[mine[s]]} :
        /\ recovery' = [recovery EXCEPT ![mine[s]] = r]
        /\ \E o \in Outcomes(at[s], r) : note' = [note EXCEPT ![s] = o]
    /\ Goto(s, "closetask")
    /\ SameJobs /\ SameLocal
    /\ UNCHANGED <<taskJob, taskState, markers, owned, proven, proc, faults>>

(* SchedulerSubmissionUnresolvedError keeps the marker; any other error    *)
(* acknowledges it.                                                        *)
ResolveFails(s) ==
    /\ pc[s] = "resolve"
    /\ Fault
    /\ \/ note' = [note EXCEPT ![s] = "unresolved"] /\ Goto(s, "failtasks")
       \/ Raise(s, "ackmarker")
    /\ SameJobs /\ SameTasks /\ SameLocal /\ UNCHANGED proc

(* Mutant: the task keeps its running state. *)
CloseTaskForgets(s) ==
    /\ pc[s] = "closetask"
    /\ Goto(s, "closejob")
    /\ UNCHANGED <<durable, taskVars, proc, local, faults>>

CloseTask(s) ==
    /\ pc[s] = "closetask"
    /\ taskState' = [taskState EXCEPT ![mine[s]] = note[s]]
    /\ Goto(s, "closejob")
    /\ SameJobs
    /\ UNCHANGED <<taskJob, markers, owned, recovery, proven, proc, local, faults>>

CloseJob(s) ==
    /\ pc[s] = "closejob"
    /\ IF IF note[s] = "canceled" THEN CanAcknowledge(at[s])
                                  ELSE CanWrite(at[s], note[s])
       THEN /\ state' = [state EXCEPT ![at[s]] = note[s]]
            /\ Goto(s, "ackmarker")
            /\ UNCHANGED note
       ELSE Raise(s, "ackmarker") /\ UNCHANGED state
    /\ UNCHANGED <<attempts, holder, expired, cancel, observed, proc, faults>>
    /\ SameTasks /\ SameLocal

(* _run_job: sidecars are quarantined and the marker acknowledged, on      *)
(* success and on error alike; if that fails the marker stays.             *)
AckMarker(s) ==
    /\ pc[s] = "ackmarker"
    /\ \/ /\ markers' = markers \ {mine[s]}
          /\ Goto(s, IF note[s] = "error" THEN "failtasks" ELSE "release")
          /\ UNCHANGED <<note, faults>>
       \/ Fault /\ Raise(s, "failtasks") /\ UNCHANGED markers
    /\ SameJobs /\ SameLocal
    /\ UNCHANGED <<taskJob, taskState, owned, recovery, proven, proc>>

(* Mutant: an unresolved submission is deferred with nothing to query. *)
DeferredAlways(s) == state[at[s]] = "canceled" \/ note[s] = "unresolved"

(* _record_unhandled_job_failure: nothing for a canceled job, nor while a  *)
(* lost JARVIS response is still to be queried; else every open task of    *)
(* the job fails, then the job.  An error in here escapes run_once: the    *)
(* lease is released all the same and the slot's loop goes on.             *)
Deferred(s) ==
    \/ state[at[s]] = "canceled"
    \/ note[s] = "unresolved" /\ \E t \in TasksOf(at[s]) : recovery[t] = "pending"

FailTasks(s) ==
    /\ pc[s] = "failtasks"
    /\ \E closed \in SUBSET OpenTasks(at[s]) :
        /\ taskState' = [t \in Tasks |-> IF t \in closed THEN "failed" ELSE taskState[t]]
        /\ \/ /\ Deferred(s) /\ closed = {}
              /\ Goto(s, "release") /\ UNCHANGED <<note, faults>>
           \/ /\ ~Deferred(s) /\ closed = OpenTasks(at[s])
              /\ Goto(s, "failjob") /\ UNCHANGED <<note, faults>>
           \/ ~Deferred(s) /\ Escape(s)
    /\ SameJobs /\ SameLocal
    /\ UNCHANGED <<taskJob, markers, owned, recovery, proven, proc>>

FailJob(s) ==
    /\ pc[s] = "failjob"
    /\ \/ /\ CanWrite(at[s], "failed")
          /\ state' = [state EXCEPT ![at[s]] = "failed"]
          /\ Goto(s, "release") /\ UNCHANGED <<note, faults>>
       \/ /\ ~CanWrite(at[s], "failed")
          /\ note' = [note EXCEPT ![s] = "escaped"]
          /\ Goto(s, "release") /\ UNCHANGED <<state, faults>>
       \/ Escape(s) /\ UNCHANGED state
    /\ UNCHANGED <<attempts, holder, expired, cancel, observed, proc>>
    /\ SameTasks /\ SameLocal

(* release_lease in the finally clause of run_once: a lease that is gone   *)
(* already is no error; one that cannot be released is never renewed again. *)
ReleaseLease(s) ==
    /\ pc[s] = "release"
    /\ \/ /\ holder[at[s]] = s
          /\ holder' = [holder EXCEPT ![at[s]] = Nobody]
          /\ expired' = expired \ {at[s]}
          /\ UNCHANGED faults
       \/ holder[at[s]] # s /\ UNCHANGED <<holder, expired, faults>>
       \/ /\ holder[at[s]] = s /\ Mishap("release")
          /\ holder' = [holder EXCEPT ![at[s]] = Crashed]
          /\ UNCHANGED expired
    /\ at' = [at EXCEPT ![s] = NoJob]
    /\ mine' = [mine EXCEPT ![s] = NoTask]
    /\ note' = [note EXCEPT ![s] = "none"]
    /\ foreground' = IF /\ s = Reconciler /\ foreground < ForegroundLimit
                        /\ note[s] # "escaped" /\ faults' = faults
                     THEN foreground + 1 ELSE foreground
    /\ Goto(s, "idle")
    /\ UNCHANGED <<state, attempts, cancel, observed, taskVars, proc, seen, batch>>

-----------------------------------------------------------------------------
(* _reconcile_pending_execution_cleanup: slot Reconciler visits the pending *)
(* markers when it found no job to lease, or after ForegroundLimit jobs.    *)
StartPass(s) ==
    /\ s = Reconciler
    /\ pc[s] = "idle"
    /\ PassDue(s) \/ Eligible = {}
    /\ state' = RecoveredState
    /\ holder' = RecoveredHolder
    /\ expired' = expired \ Reclaimed
    /\ Goto(s, "scan")
    /\ UNCHANGED <<attempts, cancel, observed, taskVars, proc, local, faults>>

ScanMarkers(s) ==
    /\ pc[s] = "scan"
    /\ batch' = markers
    /\ Goto(s, "pick")
    /\ SameJobs /\ SameTasks
    /\ UNCHANGED <<proc, at, mine, note, seen, foreground, faults>>

(* An unexpired lease protects the attempt.  What the job says of its      *)
(* cancellation is read here and used until the end of the visit.          *)
PickMarker(s) ==
    /\ pc[s] = "pick"
    /\ \E t \in batch :
        /\ batch' = batch \ {t}
        /\ LET j == taskJob[t]
           IN  IF holder[j] # Nobody /\ j \notin expired
               THEN UNCHANGED <<pc, at, mine, seen>>
               ELSE /\ at' = [at EXCEPT ![s] = j]
                    /\ mine' = [mine EXCEPT ![s] = t]
                    /\ seen' = [seen EXCEPT ![s] =
                                  IF state[j] = "canceled" THEN "canceled"
                                  ELSE IF j \in cancel THEN "cancel" ELSE "plain"]
                    /\ Goto(s, "rstop")
    /\ SameJobs /\ SameTasks
    /\ UNCHANGED <<proc, note, foreground, faults>>

EndPass(s) ==
    /\ pc[s] = "pick"
    /\ batch = {}
    /\ foreground' = 0
    /\ Goto(s, "idle")
    /\ SameJobs /\ SameTasks
    /\ UNCHANGED <<proc, at, mine, note, seen, batch, faults>>

Leave(s) ==
    /\ at' = [at EXCEPT ![s] = NoJob]
    /\ mine' = [mine EXCEPT ![s] = NoTask]
    /\ note' = [note EXCEPT ![s] = "none"]
    /\ seen' = [seen EXCEPT ![s] = "none"]
    /\ Goto(s, "pick")
    /\ UNCHANGED <<batch, foreground>>

(* An exception keeps the marker for the next pass.  Recovery that is not  *)
(* due yet, a process tree that does not stop, a JARVIS query without an   *)
(* answer and sidecars that cannot be removed all end here; after the      *)
(* marker is gone (rcancel) there is nothing left for a next pass.         *)
VisitFails(s) ==
    /\ pc[s] \in PassSteps
    /\ Fault
    /\ Leave(s)
    /\ SameJobs /\ SameTasks /\ UNCHANGED proc

(* Mutant: the recorded process tree is not stopped. *)
StopRecordedSkips(s) ==
    /\ pc[s] = "rstop"
    /\ Goto(s, "rresolve")
    /\ UNCHANGED <<durable, taskVars, proc, local, faults>>

(* Mutant: the cleanup is reported when it begins, not when it has ended. *)
StopRecordedReports(s) ==
    /\ pc[s] = "rstop"
    /\ proven' = proven \cup {mine[s]}
    /\ Goto(s, "rresolve")
    /\ UNCHANGED <<durable, taskJob, taskState, markers, owned, recovery, proc,
                   local, faults>>

(* _terminate_recorded_execution: without recorded ownership the launch    *)
(* counts as never released.                                               *)
StopRecorded(s) ==
    /\ pc[s] = "rstop"
    /\ IF mine[s] \in owned THEN Stop(mine[s]) ELSE UNCHANGED proc
    /\ Goto(s, "rresolve")
    /\ UNCHANGED <<durable, taskVars, local, faults>>

(* What became of the dispatch, and whether the task is still open.  The   *)
(* scheduler may only now give up the identity of the submitted job.       *)
ResolveRecorded(s) ==
    /\ pc[s] = "rresolve"
    /\ LET t == mine[s] IN
       \/ /\ recovery[t] = "none"
          /\ note' = [note EXCEPT ![s] = "plain"]
          /\ \/ UNCHANGED observed
             \/ t \in owned /\ observed' = observed \cup ({at[s]} \cap Scheduled)
          /\ UNCHANGED recovery
       \/ /\ recovery[t] = "pending" /\ t \notin owned
          /\ note' = [note EXCEPT ![s] = "unreleased"]
          /\ UNCHANGED <<recovery, observed>>
       \/ \E r \in {"resolved", "refused"} :
          /\ recovery[t] = r \/ (recovery[t] = "pending" /\ t \in owned)
          /\ recovery' = [recovery EXCEPT ![t] = r]
          /\ note' = [note EXCEPT ![s] =
                        IF r = "resolved" THEN "recovered" ELSE "refused"]
          /\ UNCHANGED observed
    /\ Goto(s, IF taskState[mine[s]] \in Terminal THEN "rjob" ELSE "rtask")
    /\ SameLocal
    /\ UNCHANGED <<state, attempts, holder, expired, cancel, taskJob,
                   taskState, markers, owned, proven, proc, faults>>

CloseRecorded(s) ==
    /\ pc[s] = "rtask"
    /\ taskState' = [taskState EXCEPT ![mine[s]] =
                        IF seen[s] # "plain" THEN "canceled"
                        ELSE IF note[s] = "recovered" THEN "succeeded" ELSE "failed"]
    /\ Goto(s, "rjob")
    /\ SameJobs
    /\ UNCHANGED <<taskJob, markers, owned, recovery, proven, proc, local, faults>>

(* A recovered dispatch ends the job, a plain attempt leaves it to stale   *)
(* recovery.  If the job has ended otherwise the write is refused and the  *)
(* marker stays.                                                           *)
EndRecorded(s) ==
    /\ pc[s] = "rjob"
    /\ LET now == state[at[s]]
           new == IF note[s] = "recovered" THEN "succeeded" ELSE "failed"
           skip == \/ seen[s] # "plain"
                   \/ note[s] = "plain"
                   \/ now = new
                   \/ new = "failed" /\ now = "canceled"
       IN  \/ skip /\ Goto(s, "rack") /\ UNCHANGED <<state, local>>
           \/ /\ ~skip /\ now \notin Terminal
              /\ state' = [state EXCEPT ![at[s]] = new]
              /\ Goto(s, "rack")
              /\ UNCHANGED local
           \/ ~skip /\ now \in Terminal /\ Leave(s) /\ UNCHANGED state
    /\ UNCHANGED <<attempts, holder, expired, cancel, observed, proc, faults>>
    /\ SameTasks

AckRecorded(s) ==
    /\ pc[s] = "rack"
    /\ markers' = markers \ {mine[s]}
    /\ proven' = proven \cup {mine[s]}
    /\ IF seen[s] = "cancel" THEN Goto(s, "rcancel") /\ UNCHANGED local ELSE Leave(s)
    /\ SameJobs
    /\ UNCHANGED <<taskJob, taskState, owned, recovery, proc, faults>>

CancelRecorded(s) ==
    /\ pc[s] = "rcancel"
    /\ state' = [state EXCEPT ![at[s]] =
                    IF CanAcknowledge(at[s]) THEN "canceled" ELSE @]
    /\ Leave(s)
    /\ UNCHANGED <<attempts, holder, expired, cancel, observed, proc, faults>>
    /\ SameTasks

(* The daemon dies.  Gated brokers see their pipe close and exit, released *)
(* processes live on; the leases stay until they expire.  The slots of the *)
(* next daemon are new endpoints.                                          *)
Crash ==
    /\ Fault
    /\ holder' = [j \in Jobs |-> IF holder[j] \in Slots THEN Crashed ELSE holder[j]]
    /\ proc' = [t \in Tasks |-> IF proc[t] = "gated" THEN "dead" ELSE proc[t]]
    /\ pc' = [s \in Slots |-> "idle"]
    /\ at' = [s \in Slots |-> NoJob]
    /\ mine' = [s \in Slots |-> NoTask]
    /\ note' = [s \in Slots |-> "none"]
    /\ seen' = [s \in Slots |-> "none"]
    /\ batch' = {} /\ foreground' = 0
    /\ UNCHANGED <<state, attempts, expired, cancel, observed, taskVars>>

-----------------------------------------------------------------------------
Attempt(s) ==
    \/ Acquire(s) \/ CheckCancel(s) \/ Undo(s) \/ UndoTask(s) \/ UndoAck(s)
    \/ Acknowledge(s) \/ Begin(s) \/ OpenTask(s) \/ Register(s) \/ Spawn(s)
    \/ ReleaseGate(s) \/ StepFails(s) \/ PollExit(s) \/ PollCancel(s)
    \/ Heartbeat(s) \/ ObserveScheduler(s) \/ PollFails(s) \/ Resolve(s)
    \/ ResolveFails(s) \/ CloseTask(s) \/ CloseJob(s) \/ AckMarker(s)
    \/ FailTasks(s) \/ FailJob(s) \/ ReleaseLease(s)

Pass(s) ==
    \/ StartPass(s) \/ ScanMarkers(s) \/ PickMarker(s) \/ EndPass(s)
    \/ VisitFails(s) \/ StopRecorded(s) \/ ResolveRecorded(s) \/ CloseRecorded(s)
    \/ EndRecorded(s) \/ AckRecorded(s) \/ CancelRecorded(s)

Next ==
    \/ RecoverStaleJobs
    \/ \E j \in Jobs : RecoverStaleJob(j) \/ Expire(j) \/ Cancel(j)
    \/ \E t \in Tasks : ProcessExits(t)
    \/ \E s \in Slots : Attempt(s) \/ Pass(s)
    \/ Crash

Spec == Init /\ [][Next]_vars

(* The scheduling the daemon provides: its threads run, its polling loop   *)
(* comes round, time passes over a dead endpoint's lease, every poll       *)
(* recovers stale jobs.  No process has to end by itself.                  *)
Progress(s) ==
    \/ Acquire(s) \/ CheckCancel(s) \/ Undo(s) \/ UndoTask(s) \/ UndoAck(s)
    \/ Acknowledge(s) \/ Begin(s) \/ OpenTask(s) \/ Register(s) \/ Spawn(s)
    \/ ReleaseGate(s) \/ Resolve(s) \/ CloseTask(s) \/ CloseJob(s) \/ AckMarker(s)
    \/ FailTasks(s) \/ FailJob(s) \/ ReleaseLease(s) \/ PollExit(s) \/ PollCancel(s)

FairSpec ==
    /\ Spec
    /\ WF_vars(RecoverStaleJobs)
    /\ \A j \in Jobs : WF_vars(holder[j] = Crashed /\ Expire(j))
    /\ \A s \in Slots : WF_vars(Progress(s)) /\ WF_vars(Pass(s))

-----------------------------------------------------------------------------
JobTypes ==
    /\ state \in [Jobs -> JobStates]
    /\ attempts \in [Jobs -> Nat]
    /\ holder \in [Jobs -> Slots \cup {Nobody, Crashed}]
    /\ expired \subseteq Jobs /\ cancel \subseteq Jobs /\ observed \subseteq Jobs
    /\ faults \in 0..MaxFaults

TaskTypes ==
    /\ taskJob \in [Tasks -> Jobs \cup {NoJob}]
    /\ taskState \in [Tasks -> {"absent", "running"} \cup Terminal]
    /\ markers \subseteq Tasks /\ owned \subseteq Tasks /\ proven \subseteq Tasks
    /\ recovery \in [Tasks -> {"none", "pending", "resolved", "refused"}]
    /\ proc \in [Tasks -> {"none", "gated", "live", "dead"}]

SlotTypes ==
    /\ pc \in [Slots -> Steps]
    /\ at \in [Slots -> Jobs \cup {NoJob}]
    /\ mine \in [Slots -> Tasks \cup {NoTask}]
    /\ note \in [Slots -> Notes]
    /\ seen \in [Slots -> {"none", "plain", "cancel", "canceled"}]
    /\ batch \subseteq Tasks
    /\ foreground \in 0..ForegroundLimit

(* Types of the durable records, the process table and the slots. *)
TypeOK == JobTypes /\ TaskTypes /\ SlotTypes

(* No job is executed twice at the same time, whatever crashed, expired or *)
(* was requeued in between.                                                *)
OneExecution ==
    \A t, u \in Alive : taskJob[t] = taskJob[u] => t = u

(* A job that waits in the queue, or has ended, has no process left: a     *)
(* requeue and a terminal state come after the process tree has stopped.   *)
IdleJobIsStopped ==
    \A t \in Alive : state[taskJob[t]] = "running"

(* The executions of a job follow one another: one process at a time, and  *)
(* none once the job has been given back to the queue or has ended.        *)
ExclusiveExecution == OneExecution /\ IdleJobIsStopped

(* The event "Prior worker execution ... proven cleaned" stays true: a     *)
(* task whose restart cleanup was acknowledged never has a process again.  *)
ProvenStaysStopped ==
    proven \cap Alive = {}

(* A leased or running job is never forgotten: a lease, whose expiry will  *)
(* bring the job back, or a marker, which the reconciler will visit, leads *)
(* to it, or the reconciler is about to acknowledge its cancellation.      *)
NeverAbandoned ==
    \A j \in Jobs : state[j] \in Held =>
        \/ holder[j] # Nobody
        \/ Marked(j)
        \/ \E s \in Slots : pc[s] = "rcancel" /\ at[s] = j

(* A job that has succeeded has a task that has, unless the outcome of an  *)
(* earlier execution may have come from JARVIS.                            *)
SuccessHasTask ==
    \A j \in Jobs \ Recoverable : state[j] = "succeeded" =>
        \E t \in TasksOf(j) : taskState[t] = "succeeded"

(* A terminal state is final: late writers, stale plans and repeated       *)
(* cleanups never overwrite it.                                            *)
TerminalIsFinal ==
    [][\A j \in Jobs : state[j] \in Terminal => state'[j] = state[j]]_vars

(* docs/operations.md: lease recovery never submits duplicate scheduler    *)
(* work; no process is started for a job with a scheduler observation.     *)
ObservedNeverRelaunched ==
    [][\A t \in Tasks : proc[t] = "none" /\ proc'[t] = "gated"
            => taskJob[t] \notin observed]_vars

(* What NeverAbandoned excludes: after an error in the recording of a      *)
(* failure the lease is gone and nothing else leads to the job.            *)
Forgotten(j) ==
    /\ state[j] \in Held /\ holder[j] = Nobody /\ ~Marked(j)
    /\ ~\E s \in Slots : pc[s] = "rcancel" /\ at[s] = j

(* Every cancellation request is answered: the job reaches a terminal      *)
(* state, canceled or, if that came first, another one.  Two kinds of job  *)
(* may wait for ever: one with a scheduler observation whose worker is     *)
(* lost, which recovery leaves to an operator, and a forgotten one.        *)
CancelAnswered ==
    \A j \in Jobs :
        j \in cancel ~> state[j] \in Terminal \/ j \in observed \/ Forgotten(j)
=============================================================================
