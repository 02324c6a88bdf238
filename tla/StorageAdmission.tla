-------------------------- MODULE StorageAdmission --------------------------
(***************************************************************************)
(* Storage reservations around the queue: StorageManagedQueue reserves     *)
(* bytes for a job before it admits it, gives them back after the job has  *)
(* ended, restores them when a failed input ingest is tried again, and     *)
(* rebuilds the ledger from the active jobs whenever a process starts.     *)
(*                                                                         *)
(* Three locks of different reach are involved.  The ledger lock and the   *)
(* queue lock are each held for one action of this module; the admission   *)
(* lock is held across several and is the variable `admission'.  Ending a  *)
(* job, canceling it, recovering it and starting a process do not take it. *)
(*                                                                         *)
(* Sizes are reduced to one estimate per job.  How full the trees and the  *)
(* volumes are is the environment's choice: it may refuse any reservation. *)
(***************************************************************************)
EXTENDS Integers, FiniteSets, Functions

CONSTANTS
    Jobs,               \* the jobs, one for each idempotency key
    Ingests,            \* those of kind INPUT_INGEST, run by an HTTP request
    Actors,             \* processes: API servers, workers and commands
    Estimate,           \* bytes to reserve for each job
    HighWater,          \* total_high_water_bytes
    MaxReservations,    \* limits.max_reservations
    Cancelable,         \* the jobs that operators cancel
    Overlap,            \* whether a process starts while another admits a job
    MaxFaults,          \* bound on crashes and input/output errors
    None, Gone

ASSUME IngestAssumption == IsFiniteSet(Jobs) /\ Ingests \subseteq Jobs /\ Cancelable \subseteq Jobs
ASSUME ActorAssumption == None \notin Actors /\ Gone \notin Actors /\ None # Gone
ASSUME LimitAssumption ==
    /\ HighWater \in Nat /\ MaxReservations \in Nat /\ MaxFaults \in Nat
    /\ Estimate \in [Jobs -> Nat]

VARIABLES
    job,        \* the canonical state of each job, "absent" before submission
    intents,    \* jobs that an interrupted stale recovery is about to fail
    attempt,    \* the request that claimed an ingest last; Gone once it ended
    artifact,   \* ingests whose artifact is indexed
    ledger,     \* the jobs with a reservation
    intake,     \* startup_reconciliation of each process
    admission,  \* the holder of the admission lock
    at,         \* what each process is doing
    faults

vars == <<job, intents, attempt, artifact, ledger, intake, admission, at, faults>>

Active == {"queued", "running"}
Terminal == {"succeeded", "failed", "canceled"}
States == {"absent"} \cup Active \cup Terminal

(* A process is off, idle or at a step of one operation, on `job'; `todo'   *)
(* are reservations it still has to give back, `then' where it goes next,  *)
(* and `seen' the active jobs that its start has read.                     *)
Steps == {"off", "idle", "reconcile", "acquire", "submit", "admit", "release", "verify",
          "ingest", "begin", "retry", "claim", "start", "write", "complete", "fail"}

Off == [pc |-> "off", job |-> None, todo |-> {}, then |-> "idle", seen |-> {}]
Idle == [Off EXCEPT !.pc = "idle"]
On(pc, j) == [Idle EXCEPT !.pc = pc, !.job = j]
Releasing(j, todo, then) ==
    [pc |-> "release", job |-> j, todo |-> todo, then |-> then, seen |-> {}]

Init ==
    /\ job = [j \in Jobs |-> "absent"]
    /\ intents = {}
    /\ attempt = [j \in Ingests |-> None]
    /\ artifact = {}
    /\ ledger = {}
    /\ intake = [a \in Actors |-> "closed"]
    /\ admission = None
    /\ at = [a \in Actors |-> Off]
    /\ faults = 0

Goto(a, r) == at' = [at EXCEPT ![a] = r]
Lock(a) == admission = None /\ admission' = a
(* Mutant: the admission lock is not given up when an operation ends. *)
UnlockNever(a) == UNCHANGED admission

Unlock(a) == admission' = IF admission = a THEN None ELSE admission
Fault == faults < MaxFaults /\ faults' = faults + 1

(* A request that ends lets its attempt identity go: no later request      *)
(* carries it.                                                             *)
LetGo(a, att) == [j \in Ingests |-> IF att[j] = a THEN Gone ELSE att[j]]

(* Every operation of the queue first replays what a crash left.           *)
Replayed == [j \in Jobs |-> IF j \in intents THEN "failed" ELSE job[j]]

(***************************************************************************)
(* The reservation ledger                                                  *)
(***************************************************************************)
Reserved(L) == SumFunctionOnSet(Estimate, L)

(* Mutant: the pressure is measured without the new reservation. *)
FitsBefore(j) ==
    /\ j \notin ledger => Cardinality(ledger) < MaxReservations
    /\ Reserved(ledger) <= HighWater

(* reserve: the proposed ledger has room, in records and in bytes.         *)
Fits(j) ==
    /\ j \notin ledger => Cardinality(ledger) < MaxReservations
    /\ Reserved(ledger \cup {j}) <= HighWater

(* release of one job; when it was the last one the operation goes on, and *)
(* an operation that ends here gives up the admission lock.                *)
Release(a) ==
    /\ at[a].pc = "release"
    /\ \E j \in at[a].todo :
        LET left == at[a].todo \ {j} IN
        /\ \/ ledger' = ledger \ {j} /\ UNCHANGED <<intake, faults>>
           \/ /\ Fault
              /\ ledger' \in {ledger, ledger \ {j}}
              /\ intake' = [intake EXCEPT ![a] = "denied"]
        /\ IF left # {}
           THEN Goto(a, [at[a] EXCEPT !.todo = left]) /\ UNCHANGED <<admission, attempt>>
           ELSE /\ Unlock(a)
                /\ IF at[a].then = "idle"
                   THEN Goto(a, Idle) /\ attempt' = LetGo(a, attempt)
                   ELSE Goto(a, On(at[a].then, at[a].job)) /\ UNCHANGED attempt
    /\ UNCHANGED <<job, intents, artifact>>

(***************************************************************************)
(* Start of a process                                                      *)
(***************************************************************************)
Nobody(steps) == \A b \in Actors : at[b].pc \notin steps

(* reconcile_startup reads the active jobs under the queue lock ...        *)
Start(a) ==
    /\ at[a].pc = "off"
    /\ Overlap \/ Nobody({"admit", "claim"})
    /\ job' = Replayed /\ intents' = {}
    /\ LET active == {j \in Jobs : Replayed[j] \in Active} IN
        IF Cardinality(active) > MaxReservations
        THEN /\ intake' = [intake EXCEPT ![a] = "denied"]
             /\ Goto(a, Idle)
        ELSE /\ Goto(a, [Idle EXCEPT !.pc = "reconcile", !.seen = active])
             /\ UNCHANGED intake
    /\ UNCHANGED <<attempt, artifact, ledger, admission, faults>>

(* ... and reconcile_reservations later makes the ledger equal to them,    *)
(* whether or not they fit.                                                *)
Reconcile(a) ==
    /\ at[a].pc = "reconcile"
    /\ \/ /\ ledger' = at[a].seen
          /\ \/ Reserved(at[a].seen) <= HighWater /\ intake' = [intake EXCEPT ![a] = "open"]
             \/ intake' = [intake EXCEPT ![a] = "denied"]
          /\ UNCHANGED faults
       \/ /\ Fault
          /\ ledger' \in {ledger, at[a].seen}
          /\ intake' = [intake EXCEPT ![a] = "denied"]
    /\ Goto(a, Idle)
    /\ UNCHANGED <<job, intents, attempt, artifact, admission>>

(***************************************************************************)
(* submit_job                                                              *)
(***************************************************************************)
After(j) == IF j \in Ingests THEN "ingest" ELSE "idle"
Then(pc, j) == IF pc = "idle" THEN Idle ELSE On(pc, j)

(* The key already has a job: the queue returns it, and its reservation is *)
(* checked, or given back if the job has ended.                            *)
Existing(a, j) ==
    /\ job[j] # "absent"
    /\ Lock(a)
    /\ job' = Replayed /\ intents' = {}
    /\ Goto(a, IF Replayed[j] \in Terminal
               THEN Releasing(j, {j}, After(j))
               ELSE [On("verify", j) EXCEPT !.then = After(j)])
    /\ UNCHANGED <<attempt, artifact, ledger, intake, faults>>

Submit(a, j) ==
    /\ at[a].pc = "idle"
    /\ \/ Existing(a, j)
       \/ /\ job[j] = "absent" /\ admission = None
          /\ Goto(a, On("submit", j))
          /\ UNCHANGED <<job, intents, attempt, artifact, ledger, intake, admission, faults>>

(* After the scan of the trees, which holds no lock, the key is resolved   *)
(* again, the intake is checked and the bytes are reserved.                *)
Reserve(a, next) ==
    \/ /\ intake[a] = "open" /\ Fits(at[a].job)
       /\ Overlap \/ Nobody({"reconcile"})
       /\ ledger' = ledger \cup {at[a].job}
       /\ Lock(a)
       /\ Goto(a, On(next, at[a].job))
       /\ UNCHANGED faults
    \/ /\ admission = None
       /\ Goto(a, Idle)
       /\ UNCHANGED <<ledger, admission, faults>>
    \/ /\ intake[a] = "open" /\ Fits(at[a].job) /\ admission = None
       /\ Overlap \/ Nobody({"reconcile"})
       /\ Fault
       /\ ledger' = ledger \cup {at[a].job}
       /\ Goto(a, Idle)
       /\ UNCHANGED admission

Readmit(a) ==
    /\ at[a].pc = "submit"
    /\ \/ Existing(a, at[a].job)
       \/ /\ job[at[a].job] = "absent"
          /\ Reserve(a, "admit")
          /\ UNCHANGED <<job, intents, attempt, artifact, intake>>

(* The queue accepts the job, or refuses it (its own limits, a closed      *)
(* session), or fails after it has written it: _release_failed_admission   *)
(* gives back the reservation of a job that does not exist.                *)
Admit(a) ==
    /\ at[a].pc = "admit"
    /\ intents' = {}
    /\ LET j == at[a].job IN
        \/ /\ job' = [Replayed EXCEPT ![j] = "queued"]
           /\ Goto(a, Then(After(j), j))
           /\ Unlock(a)
           /\ UNCHANGED faults
        \/ /\ job' = Replayed
           /\ Goto(a, Releasing(j, {j}, "idle"))
           /\ UNCHANGED <<admission, faults>>
        \/ /\ Fault
           /\ job' = [Replayed EXCEPT ![j] = "queued"]
           /\ Goto(a, Idle)
           /\ Unlock(a)
    /\ UNCHANGED <<attempt, artifact, ledger, intake>>

(* _verify_existing_reservation of a job that was active when it was read: *)
(* a missing reservation closes the intake of this process.                *)
Verify(a) ==
    /\ at[a].pc = "verify"
    /\ IF at[a].job \in ledger
       THEN /\ Goto(a, Then(at[a].then, at[a].job))
            /\ admission' = IF at[a].then = "start" THEN a ELSE None
            /\ UNCHANGED intake
       ELSE /\ intake' = [intake EXCEPT ![a] = "denied"]
            /\ Goto(a, Idle)
            /\ Unlock(a)
    /\ UNCHANGED <<job, intents, attempt, artifact, ledger, faults>>

(***************************************************************************)
(* Operations that end jobs; none of them takes the admission lock         *)
(***************************************************************************)
(* The queue commits, and the reservations of the jobs in `ended' are      *)
(* given back afterwards.                                                  *)
Settle(a, after, ended) ==
    /\ job' = after /\ intents' = {}
    /\ Goto(a, IF ended = {} THEN Idle ELSE Releasing(None, ended, "idle"))
    /\ UNCHANGED <<attempt, artifact, ledger, intake, admission, faults>>

Workloads == Jobs \ Ingests

(* recover_stale_jobs: running jobs whose lease has expired are queued     *)
(* again or failed.  Every acquisition begins with it.                     *)
RecoverStaleJobs(a) ==
    /\ at[a].pc = "idle"
    /\ job' \in {after \in [Jobs -> States] :
                 \A j \in Jobs :
                    \/ after[j] = Replayed[j]
                    \/ /\ j \in Workloads /\ Replayed[j] = "running"
                       /\ after[j] \in {"queued", "failed"}}
    /\ intents' = {}
    /\ LET failed == {j \in Jobs : Replayed[j] = "running" /\ job'[j] = "failed"} IN
        Goto(a, IF failed = {} THEN On("acquire", None)
                ELSE Releasing(None, failed, "acquire"))
    /\ UNCHANGED <<attempt, artifact, ledger, intake, admission, faults>>

(* acquire_next_job and acquire_job lease a queued workload or nothing;    *)
(* jobs that their own replay has failed give their reservations back.     *)
Acquire(a) ==
    /\ at[a].pc = "acquire"
    /\ \E after \in {Replayed} \cup {[Replayed EXCEPT ![j] = "running"] :
                       j \in {k \in Workloads : Replayed[k] = "queued"}} :
        Settle(a, after, intents)

(* update_job_state and acknowledge_job_cancellation with a final state.   *)
End(a, j) ==
    /\ at[a].pc = "idle"
    /\ Replayed[j] = "running"
    /\ \E s \in Terminal : Settle(a, [Replayed EXCEPT ![j] = s], {j})

(* cancel_job_if_active: a queued job is canceled, a running one is marked *)
(* for its worker, and one that has ended is returned as it is; in the     *)
(* first and the last case the reservation is given back.                  *)
Cancel(a, j) ==
    /\ at[a].pc = "idle"
    /\ \/ /\ Replayed[j] = "queued"
          /\ Settle(a, [Replayed EXCEPT ![j] = "canceled"], {j})
       \/ /\ Replayed[j] \in Terminal
          /\ Settle(a, Replayed, {j})

(***************************************************************************)
(* Input ingest: ingest_input_artifact, after submit_job                   *)
(***************************************************************************)
(* Mutant: the recovered ingests are released outside the admission lock. *)
RecoverAbandonedUnlocked(a) ==
    /\ at[a].pc = "ingest"
    /\ intents' = {}
    /\ \E lost \in SUBSET {j \in Ingests : Replayed[j] \in Active} :
        /\ job' = [j \in Jobs |-> IF j \in lost THEN "failed" ELSE Replayed[j]]
        /\ Goto(a, IF lost = {} THEN On("begin", at[a].job)
                   ELSE Releasing(at[a].job, lost, "begin"))
    /\ UNCHANGED <<attempt, artifact, ledger, intake, admission, faults>>

(* recover_abandoned_input_ingests fails ingests that have been active for *)
(* too long, whether or not their request is still alive.                  *)
RecoverAbandoned(a) ==
    /\ at[a].pc = "ingest"
    /\ intents' = {}
    /\ \E lost \in SUBSET {j \in Ingests : Replayed[j] \in Active} :
        /\ job' = [j \in Jobs |-> IF j \in lost THEN "failed" ELSE Replayed[j]]
        /\ IF lost = {}
           THEN /\ admission = None /\ UNCHANGED admission
                /\ Goto(a, On("begin", at[a].job))
           ELSE /\ Lock(a)
                /\ Goto(a, Releasing(at[a].job, lost, "begin"))
    /\ UNCHANGED <<attempt, artifact, ledger, intake, faults>>

(* begin_input_ingest reads the job under the admission lock.  A failed    *)
(* one needs its storage back, and the trees are scanned without the lock. *)
ReadIngest(a) ==
    /\ job[at[a].job] # "failed"
    /\ Lock(a)
    /\ Goto(a, IF job[at[a].job] \in Active
               THEN [On("verify", at[a].job) EXCEPT !.then = "start"]
               ELSE On("start", at[a].job))
    /\ UNCHANGED <<job, intents, attempt, artifact, ledger, intake, faults>>

Begin(a) ==
    /\ at[a].pc = "begin"
    /\ \/ ReadIngest(a)
       \/ /\ job[at[a].job] = "failed" /\ admission = None
          /\ Goto(a, On("retry", at[a].job))
          /\ UNCHANGED <<job, intents, attempt, artifact, ledger, intake, admission, faults>>

Retry(a) ==
    /\ at[a].pc = "retry"
    /\ \/ ReadIngest(a)
       \/ /\ job[at[a].job] = "failed"
          /\ Reserve(a, "claim")
          /\ UNCHANGED <<job, intents, attempt, artifact, intake>>

(* The queue's part: the attempt is claimed, unless the job is running     *)
(* under another attempt, has ended, or its quota is used up.              *)
Claimed(a, j) ==
    /\ Replayed[j] \in {"queued", "failed"}
    /\ job' = [Replayed EXCEPT ![j] = "running"]
    /\ attempt' = [attempt EXCEPT ![j] = a]

StartIngest(a) ==
    /\ at[a].pc = "start"
    /\ intents' = {}
    /\ \/ /\ Claimed(a, at[a].job)
          /\ Goto(a, On("write", at[a].job))
       \/ /\ job' = Replayed
          /\ Goto(a, Idle)
          /\ UNCHANGED attempt
    /\ Unlock(a)
    /\ UNCHANGED <<artifact, ledger, intake, faults>>

(* The same after a reservation; any error gives the reservation back,     *)
(* also one that came after the queue had written the job.                 *)
Claim(a) ==
    /\ at[a].pc = "claim"
    /\ intents' = {}
    /\ LET j == at[a].job IN
        \/ /\ Claimed(a, j)
           /\ Goto(a, On("write", j))
           /\ Unlock(a)
           /\ UNCHANGED faults
        \/ /\ job' = Replayed
           /\ Goto(a, Releasing(j, {j}, "idle"))
           /\ UNCHANGED <<attempt, admission, faults>>
        \/ /\ Fault
           /\ Replayed[j] \in {"queued", "failed"}
           /\ job' = [Replayed EXCEPT ![j] = "running"]
           /\ attempt' = [attempt EXCEPT ![j] = Gone]
           /\ Goto(a, Releasing(j, {j}, "idle"))
           /\ UNCHANGED admission
    /\ UNCHANGED <<artifact, ledger, intake>>

Owns(a, j) == Replayed[j] = "running" /\ attempt[j] = a

(* The payload is written to the spool and reconcile_input_artifact        *)
(* indexes it for the attempt that still owns the job.                     *)
Write(a) ==
    /\ at[a].pc = "write"
    /\ job' = Replayed /\ intents' = {}
    /\ \/ /\ Owns(a, at[a].job)
          /\ artifact' = artifact \cup {at[a].job}
          /\ Goto(a, On("complete", at[a].job))
       \/ /\ Goto(a, On("fail", at[a].job))
          /\ UNCHANGED artifact
    /\ UNCHANGED <<attempt, ledger, intake, admission, faults>>

(* complete_input_ingest *)
Complete(a) ==
    /\ at[a].pc = "complete"
    /\ LET j == at[a].job IN
        \/ /\ Owns(a, j)
           /\ Lock(a)
           /\ job' = [Replayed EXCEPT ![j] = "succeeded"]
           /\ Goto(a, Releasing(j, {j}, "idle"))
        \/ /\ ~Owns(a, j)
           /\ admission = None /\ UNCHANGED admission
           /\ job' = Replayed
           /\ Goto(a, On("fail", j))
    /\ intents' = {}
    /\ UNCHANGED <<attempt, artifact, ledger, intake, faults>>

(* fail_input_ingest of the attempt that owns the job; one that was failed *)
(* for it already, or has succeeded, is returned as it is, and the         *)
(* reservation given back; anything else is a conflict.                    *)
Fail(a) ==
    /\ at[a].pc = "fail"
    /\ LET j == at[a].job
           returned == \/ Replayed[j] = "succeeded"
                       \/ Replayed[j] = "failed" /\ attempt[j] = a IN
        \/ /\ Owns(a, j) \/ returned
           /\ Lock(a)
           /\ job' = IF returned THEN Replayed ELSE [Replayed EXCEPT ![j] = "failed"]
           /\ Goto(a, Releasing(j, {j}, "idle"))
           /\ UNCHANGED attempt
        \/ /\ ~Owns(a, j) /\ ~returned /\ admission = None
           /\ job' = Replayed
           /\ Goto(a, Idle)
           /\ attempt' = LetGo(a, attempt)
           /\ UNCHANGED admission
    /\ intents' = {}
    /\ UNCHANGED <<artifact, ledger, intake, faults>>

(* The admission lock is not free in time: the request ends where it is,   *)
(* and a job that it has claimed stays running.                            *)
GiveUp(a) ==
    /\ at[a].pc \in {"submit", "ingest", "begin", "retry", "complete", "fail"}
    /\ admission # None
    /\ Goto(a, Idle)
    /\ attempt' = LetGo(a, attempt)
    /\ UNCHANGED <<job, intents, artifact, ledger, intake, admission, faults>>

(***************************************************************************)
(* Faults and the specification                                            *)
(***************************************************************************)
(* A process dies; the admission lock falls with it.  Inside a stale       *)
(* recovery it may leave the intent to fail a job.                         *)
Crash(a) ==
    /\ at[a].pc # "off"
    /\ Fault
    /\ Goto(a, Off)
    /\ Unlock(a)
    /\ attempt' = LetGo(a, attempt)
    /\ intake' = [intake EXCEPT ![a] = "closed"]
    /\ \/ UNCHANGED <<job, intents>>
       \/ /\ at[a].pc = "idle"
          /\ job' = Replayed
          /\ \E j \in Workloads : Replayed[j] = "running" /\ intents' = {j}
    /\ UNCHANGED <<artifact, ledger>>

(* A process that has nothing to do ends. *)
Stop(a) ==
    /\ at[a].pc = "idle"
    /\ Goto(a, Off)
    /\ intake' = [intake EXCEPT ![a] = "closed"]
    /\ UNCHANGED <<job, intents, attempt, artifact, ledger, admission, faults>>

Next ==
    \E a \in Actors :
        \/ Start(a) \/ Reconcile(a) \/ Release(a) \/ Readmit(a) \/ Admit(a) \/ Verify(a)
        \/ RecoverStaleJobs(a) \/ Acquire(a)
        \/ RecoverAbandoned(a) \/ Begin(a) \/ Retry(a) \/ StartIngest(a) \/ Claim(a)
        \/ Write(a) \/ Complete(a) \/ Fail(a) \/ GiveUp(a) \/ Crash(a) \/ Stop(a)
        \/ \E j \in Jobs : Submit(a, j)
        \/ \E j \in Workloads : End(a, j)
        \/ \E j \in Cancelable : Cancel(a, j)

Spec == Init /\ [][Next]_vars

(***************************************************************************)
(* Properties                                                              *)
(***************************************************************************)
(* The variables have their types, and the admission lock is held exactly  *)
(* by an operation that is at a step inside it.                            *)
TypeOK ==
    /\ job \in [Jobs -> States]
    /\ intents \subseteq Jobs \ Ingests
    /\ attempt \in [Ingests -> Actors \cup {None, Gone}]
    /\ artifact \subseteq Ingests
    /\ ledger \subseteq Jobs
    /\ intake \in [Actors -> {"closed", "open", "denied"}]
    /\ admission \in Actors \cup {None}
    /\ \A a \in Actors :
        /\ at[a].pc \in Steps
        /\ at[a].job \in Jobs \cup {None}
        /\ at[a].todo \subseteq Jobs
        /\ at[a].then \in Steps
        /\ at[a].seen \subseteq Jobs
        /\ at[a].pc \in {"admit", "claim", "start", "verify"} => admission = a
        /\ admission = a => at[a].pc \in {"admit", "claim", "start", "verify", "release"}
    /\ faults \in 0 .. MaxFaults

(* A job at work: queued or running, unless it is an ingest whose request  *)
(* is gone; nothing writes for that one until it is claimed again.         *)
AtWork(j) == job[j] \in Active /\ (j \in Ingests => attempt[j] # Gone)

(* Every job at work has its reservation in the ledger: whatever is given  *)
(* back outside the admission lock, and whatever a start makes of the      *)
(* ledger, no job that has been admitted, queued again or retried loses    *)
(* the storage that its worker's guard asks for.                           *)
ActiveIsReserved == \A j \in Jobs : AtWork(j) => j \in ledger

(* The jobs at work together never need more than total_high_water_bytes,  *)
(* however many processes admit, retry and end jobs at the same time.      *)
NeverOvercommitted == Reserved({j \in Jobs : AtWork(j)}) <= HighWater
=============================================================================
