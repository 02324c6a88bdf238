---------------------------- MODULE LeaseJournal ----------------------------
(***************************************************************************)
(* The transition journal of the file-backed queue, one file write at a    *)
(* time: how job and lease records, their indexes and the lease-capacity   *)
(* pair change through intent files, and how an interrupted change is      *)
(* replayed (queue_transitions.py and the lease and job owners it calls).  *)
(*                                                                         *)
(* The state is the directory tree itself: `disk' maps the path of every   *)
(* existing file to its contents.  Each write replaces a file atomically   *)
(* and each unlink removes one (queue_store_write.py), so both are single  *)
(* steps.  An operation holds the store lock (module FairLock) from its    *)
(* first read to its last write, so its writes are decided at its start    *)
(* and `todo' lists those not yet done.  A crash drops them.               *)
(***************************************************************************)
EXTENDS Integers, Sequences, FiniteSets, SequencesExt

CONSTANTS
    Jobs, Endpoints,
    LeaseIds,       \* lease ids; an id is reused once no file names it
    Nobody,         \* leased_by is None
    MaxAttempts,    \* max_attempts of acquire and stale recovery
    MaxGeneration,  \* bound: capacity generations of one epoch
    MaxEvents,      \* bound: events of one job
    MaxCrashes,     \* bound: crashes in a behaviour
    Appenders,      \* jobs whose events other processes append meanwhile
    Observed        \* jobs stale recovery keeps, having scheduler observations

ASSUME JournalAssumption ==
    /\ MaxAttempts \in Nat \ {0}
    /\ MaxGeneration \in Nat /\ MaxEvents \in Nat /\ MaxCrashes \in Nat
    /\ Appenders \subseteq Jobs /\ Observed \subseteq Jobs
    /\ Nobody \notin Endpoints

VARIABLES
    disk,       \* path -> contents, for the files that exist
    todo,       \* the writes the running operation has still to do
    replaying,  \* the running operation is replaying interrupted intents
    due,        \* the lease ids whose expires_at has passed
    crashes,    \* crashes so far
    handoffs    \* history: acquisitions of each job that were completed

vars == <<disk, todo, replaying, due, crashes, handoffs>>

Terminal == {"SUCCEEDED", "FAILED", "CANCELED"}
States == {"QUEUED", "LEASED", "RUNNING"} \cup Terminal

-----------------------------------------------------------------------------
(* Paths *)

JobPath(j)       == <<"jobs", j>>
ActivePath(j)    == <<"jobs_active", j>>
QueuedPath(j)    == <<"jobs_queued", j>>
LeasePath(l)     == <<"leases", l>>
ByJobPath(l)     == <<"leases_by_job", l>>
ManifestPath(l)  == <<"lease_indexes", l>>
RefKinds         == {"identity", "endpoint", "guard", "cluster_kind", "expiry"}
RefPath(k, lease) == <<"refs", k, lease>>
AggregatePath    == <<"aggregate">>
CheckpointPath   == <<"checkpoint">>
EventPath(j, n)  == <<"events", j, n>>
HeadPath(j)      == <<"latest_event_seq", j>>
IntentPath(kind, id) == <<"intents", kind, id>>

Put(path, value) == [path |-> path, write |-> <<value>>]
Del(path)        == [path |-> path, write |-> <<>>]

Exists(path) == path \in DOMAIN disk
Apply(d, w) ==
    IF w.write = <<>>
    THEN [p \in DOMAIN d \ {w.path} |-> d[p]]
    ELSE [p \in DOMAIN d \cup {w.path} |-> IF p = w.path THEN w.write[1] ELSE d[p]]

Leases == {disk[p] : p \in {LeasePath(l) : l \in LeaseIds} \cap DOMAIN disk}
Intents == {p \in DOMAIN disk : p[1] = "intents"}

(* The kinds are replayed in this order, whatever the file names. *)
ReplayOrder(kind) ==
    CASE kind = "lease_index_repair"   -> 0
      [] kind = "lease_acquire"        -> 1
      [] kind = "lease_sync"           -> 2
      [] kind = "lease_delete"         -> 3
      [] kind = "stale_lease_recovery" -> 4
      [] kind = "job_sync"             -> 5

FirstIntents ==
    {p \in Intents : \A q \in Intents : ReplayOrder(p[2]) <= ReplayOrder(q[2])}

-----------------------------------------------------------------------------
(* Write sequences of the record owners *)

(* Mutant: a finished job keeps its queued copy. *)
SyncJobDerivedKeepsQueued(job) ==
    IF job.state \in Terminal
    THEN <<Del(ActivePath(job.id))>>
    ELSE <<Put(ActivePath(job.id), job),
           IF job.state = "QUEUED" THEN Put(QueuedPath(job.id), job)
                                   ELSE Del(QueuedPath(job.id))>>

(* _sync_job_derived_unlocked: the active and queued copies of a job. *)
SyncJobDerived(job) ==
    IF job.state \in Terminal
    THEN <<Del(ActivePath(job.id)), Del(QueuedPath(job.id))>>
    ELSE <<Put(ActivePath(job.id), job),
           IF job.state = "QUEUED" THEN Put(QueuedPath(job.id), job)
                                   ELSE Del(QueuedPath(job.id))>>

(* Mutant: the job and its copies are written without an intent. *)
WriteJobNoIntent(job) == <<Put(JobPath(job.id), job)>> \o SyncJobDerived(job)

(* write_job *)
WriteJob(job) ==
    <<Put(IntentPath("job_sync", job.id), job.id), Put(JobPath(job.id), job)>>
        \o SyncJobDerived(job)
        \o <<Del(IntentPath("job_sync", job.id))>>

(* The five empty reference files of a lease, in the order the code lists  *)
(* them when it writes them and when it removes them.                      *)
WriteRefs(lease) ==
    [i \in 1..5 |-> Put(RefPath(<<"identity", "endpoint", "guard", "cluster_kind",
                                  "expiry">>[i], lease), "")]
DeleteRefs(lease) ==
    [i \in 1..5 |-> Del(RefPath(<<"endpoint", "guard", "cluster_kind", "expiry",
                                  "identity">>[i], lease))]

(* Mutant: a renewal leaves the references of the old expiry behind. *)
SyncIndexesKeepsOld(lease, previous) ==
    <<Put(ManifestPath(lease.id), lease)>> \o WriteRefs(lease)

(* sync_operational_indexes; previous is <<>> or the renewed lease. *)
SyncIndexes(lease, previous) ==
    (IF previous = <<>> THEN <<>> ELSE DeleteRefs(previous[1]))
        \o <<Put(ManifestPath(lease.id), lease)>>
        \o WriteRefs(lease)

(* _delete_lease_operational_indexes_unlocked: another lease's manifest is *)
(* left alone.                                                             *)
DeleteIndexes(lease) ==
    DeleteRefs(lease) \o
    (IF Exists(ManifestPath(lease.id)) /\ disk[ManifestPath(lease.id)] = lease
     THEN <<Del(ManifestPath(lease.id))>> ELSE <<>>)

(* _write_lease_capacity_pair_unlocked: the aggregate, then its checkpoint *)
WriteCapacity(pair) == <<Put(AggregatePath, pair), Put(CheckpointPath, pair)>>

(* _prepare_lease_capacity_transition_unlocked *)
Capacity == disk[AggregatePath]

(* Mutant: a removed lease is subtracted twice. *)
CapacityAfterTwice(delta) ==
    [Capacity EXCEPT !.generation = @ + 1, !.count = @ + (IF delta < 0 THEN 2 ELSE 1) * delta]

CapacityAfter(delta) ==
    [Capacity EXCEPT !.generation = @ + 1, !.count = @ + delta]
Transition(delta) == [before |-> Capacity, after |-> CapacityAfter(delta)]

(* Mutant: an undone acquisition stays counted. *)
AcquireTransitionNoRollback ==
    [before |-> Capacity, after |-> CapacityAfter(1), rollback |-> CapacityAfter(1)]

(* Only an acquisition can be undone: it also fixes the pair to go back to, *)
(* under a generation of its own.                                          *)
AcquireTransition ==
    [before |-> Capacity, after |-> CapacityAfter(1),
     rollback |-> [Capacity EXCEPT !.generation = @ + 2]]

(* Mutant: a pair torn between its two files is refused. *)
AuthorizedUntorn(t) ==
    /\ disk[AggregatePath] = disk[CheckpointPath]
    /\ disk[AggregatePath] \in {t[k] : k \in DOMAIN t}

(* _apply_lease_capacity_transition_unlocked refuses components that the   *)
(* transition does not authorize.                                          *)
Authorized(t) ==
    {disk[AggregatePath], disk[CheckpointPath]} \subseteq {t[k] : k \in DOMAIN t}

(* Mutant: the number after the indexed head, whatever files exist. *)
NextSeqFromHead(j) == disk[HeadPath(j)] + 1

(* Mutant: a number is skipped. *)
NextSeqSkips(j) == disk[HeadPath(j)] + 2

(* _next_event_seq, and _append_event_unlocked: the event file, then the   *)
(* index that names the latest one.                                        *)
NextSeq(j) ==
    CHOOSE n \in (disk[HeadPath(j)] + 1)..(MaxEvents + 1) :
        /\ ~Exists(EventPath(j, n))
        /\ \A m \in (disk[HeadPath(j)] + 1)..(n - 1) : Exists(EventPath(j, m))
AppendEvent(j, event) ==
    <<Put(EventPath(j, NextSeq(j)), event), Put(HeadPath(j), NextSeq(j))>>
RoomForEvent(j) == NextSeq(j) <= MaxEvents

(* _repair_active_job_index_unlocked: refresh or drop the copies of every  *)
(* indexed active job.                                                     *)
RepairActive ==
    LET indexed == SetToSeq({j \in Jobs : Exists(ActivePath(j))}) IN
    FlattenSeq([i \in DOMAIN indexed |-> SyncJobDerived(disk[JobPath(indexed[i])])])

-----------------------------------------------------------------------------
(* Operations.  One that changes records begins with the replay of every   *)
(* pending intent, so it starts its own writes only when there is none.    *)

Init ==
    /\ disk = [p \in {AggregatePath, CheckpointPath} |->
                  [epoch |-> 0, generation |-> 1, count |-> 0]]
    /\ todo = <<>>
    /\ replaying = FALSE
    /\ due = {}
    /\ crashes = 0
    /\ handoffs = [j \in Jobs |-> 0]

Idle == todo = <<>> /\ Intents = {}

Begin(writes) ==
    /\ todo' = writes
    /\ replaying' = FALSE
    /\ UNCHANGED <<disk, due, crashes, handoffs>>

(* submit_job, for a key used once: the capacity check repairs the active  *)
(* index, then the job and its first event are written.                    *)
Submit(j) ==
    /\ Idle
    /\ ~Exists(JobPath(j))
    /\ LET job == [id |-> j, state |-> "QUEUED", owner |-> Nobody, attempts |-> 0] IN
       Begin(RepairActive
             \o <<Put(HeadPath(j), 0)>>
             \o WriteJob(job)
             \o <<Put(EventPath(j, 1), <<"plain">>), Put(HeadPath(j), 1)>>)

MayChangeState(j, state) ==
    /\ Exists(JobPath(j)) /\ Exists(HeadPath(j))
    /\ disk[JobPath(j)].state \in Terminal => state = disk[JobPath(j)].state

(* update_job_state, cancel_job_if_active and acknowledge_job_cancellation *)
(* all write the job and append an event; a terminal job may only be       *)
(* written with the state it has.                                          *)
WriteState(j, state) ==
    /\ Idle
    /\ MayChangeState(j, state)
    /\ RoomForEvent(j)
    /\ Begin(WriteJob([disk[JobPath(j)] EXCEPT
                          !.state = state,
                          !.owner = IF state = "CANCELED" THEN Nobody ELSE @])
             \o AppendEvent(j, <<"plain">>))

(* append_event takes the lock but replays nothing first. *)
AppendOnly(j) ==
    /\ todo = <<>>
    /\ replaying => Intents = {}
    /\ j \in Appenders
    /\ Exists(JobPath(j)) /\ Exists(HeadPath(j))
    /\ RoomForEvent(j)
    /\ Begin(AppendEvent(j, <<"plain">>))

ExpiredOf(j) == {lease \in Leases : lease.job = j /\ lease.id \in due}

Unused(l) == \A p \in DOMAIN disk : l # p[Len(p)] /\ (p[1] = "refs" => p[3].id # l)

(* Admission recovers every expired lease first (RecoverStale, Release).   *)
StaleJobsRecovered ==
    \A lease \in Leases : lease.id \in due => lease.job \in Observed

(* _active_lease_for_endpoint finds none: only an expired lease may be     *)
(* left to the endpoint.                                                   *)
EndpointFree(e) == \A lease \in Leases : lease.ep = e => lease.id \in due

Leasable(job) == job.state = "QUEUED"

(* _lease_job_unlocked, for the copy of a queued job found at `path'. *)
Acquire(path, e, l) ==
    /\ Idle
    /\ Exists(path)
    /\ StaleJobsRecovered
    /\ EndpointFree(e)
    /\ Unused(l)
    /\ Capacity.generation + 2 <= MaxGeneration
    /\ LET job    == disk[path]
           leased == [job EXCEPT !.state = "LEASED", !.owner = e, !.attempts = @ + 1]
           lease  == [id |-> l, job |-> job.id, ep |-> e, exp |-> 0]
           intent == IntentPath("lease_acquire", l)
           t      == AcquireTransition
       IN
       /\ Leasable(job)
       /\ RoomForEvent(job.id)
       /\ Begin(<<Put(intent, [lease |-> lease, original |-> job, target |-> leased,
                               transition |-> t])>>
                \o WriteJob(leased)
                \o <<Put(LeasePath(l), lease), Put(ByJobPath(l), lease)>>
                \o SyncIndexes(lease, <<>>)
                \o WriteCapacity(t.after)
                \o <<Del(intent)>>
                \o AppendEvent(job.id, <<"plain">>))

(* acquire_next_job leases the copy in jobs_queued as it finds it, while   *)
(* acquire_job reads the canonical record.                                 *)
AcquireNext(j, e, l) == Acquire(QueuedPath(j), e, l)
AcquireExact(j, e, l) == Acquire(JobPath(j), e, l)

(* The writes of renew_lease after its intent, also those of its replay. *)
RenewWrites(intent, x) ==
    <<Put(LeasePath(x.lease.id), x.lease), Put(ByJobPath(x.lease.id), x.lease)>>
        \o SyncIndexes(x.lease, <<x.previous>>)
        \o WriteCapacity(x.transition.after)
        \o <<Del(intent)>>

(* renew_lease: neither the expiry of the lease nor the job is looked at.  *)
(* The expiry stamp alternates: a renewal only has to differ from the one  *)
(* it replaces.                                                            *)
Renew(lease) ==
    /\ Idle
    /\ Capacity.generation < MaxGeneration
    /\ LET intent == IntentPath("lease_sync", lease.id)
           x == [lease |-> [lease EXCEPT !.exp = 1 - @], previous |-> lease,
                 transition |-> Transition(0)]
       IN  /\ todo' = <<Put(intent, x)>> \o RenewWrites(intent, x)
           /\ due' = due \ {lease.id}
           /\ replaying' = FALSE
           /\ UNCHANGED <<disk, crashes, handoffs>>

(* The removal of a lease and its indexes: _delete_lease_unlocked. *)
DeleteWrites(lease) ==
    <<Del(LeasePath(lease.id)), Del(ByJobPath(lease.id))>> \o DeleteIndexes(lease)

EndDelete(intent, x) ==
    DeleteWrites(x.lease) \o WriteCapacity(x.transition.after) \o <<Del(intent)>>

(* release_lease, and the removal of expired leases of jobs that are not   *)
(* with a worker any more.                                                 *)
Release(lease) ==
    /\ Idle
    /\ Capacity.generation < MaxGeneration
    /\ LET intent == IntentPath("lease_delete", lease.id)
           x == [lease |-> lease, transition |-> Transition(-1)]
       IN  Begin(<<Put(intent, x)>> \o EndDelete(intent, x))

(* The number of the recovery event now belongs to another event. *)
EventTaken(x) ==
    /\ Exists(EventPath(x.target.id, x.seq))
    /\ disk[EventPath(x.target.id, x.seq)] # x.event

(* _apply_stale_lease_recovery_intent_unlocked after its checks.  It finds *)
(* out that the event's number is taken only once the job is written.      *)
RecoverWrites(intent, x) ==
    LET leases == SetToSeq(x.leases) IN
    WriteJob(x.target) \o
    IF EventTaken(x) THEN <<>>
    ELSE (IF Exists(EventPath(x.target.id, x.seq)) THEN <<>>
          ELSE <<Put(EventPath(x.target.id, x.seq), x.event)>>)
        \o (IF disk[HeadPath(x.target.id)] < x.seq
            THEN <<Put(HeadPath(x.target.id), x.seq)>> ELSE <<>>)
        \o FlattenSeq([i \in DOMAIN leases |-> DeleteWrites(leases[i])])
        \o WriteCapacity(x.transition.after)
        \o <<Del(intent)>>

AfterExpiry(job) ==
    [job EXCEPT !.owner = Nobody,
                !.state = IF job.attempts >= MaxAttempts THEN "FAILED" ELSE "QUEUED"]

(* _recover_expired_leases_unlocked: requeue the job, or fail it when its  *)
(* attempts are used up, and drop its expired leases.                      *)
RecoverStale(j) ==
    /\ Idle
    /\ ExpiredOf(j) # {} /\ j \notin Observed
    /\ disk[JobPath(j)].state \in {"LEASED", "RUNNING"}
    /\ RoomForEvent(j)
    /\ Capacity.generation < MaxGeneration
    /\ LET job == disk[JobPath(j)]
           intent == IntentPath("stale_lease_recovery", j)
           x == [original |-> job,
                 target |-> AfterExpiry(job),
                 leases |-> ExpiredOf(j),
                 seq |-> NextSeq(j),
                 event |-> <<"recovery", job.attempts>>,
                 transition |-> Transition(-Cardinality(ExpiredOf(j)))]
       IN  Begin(<<Put(intent, x)>> \o RecoverWrites(intent, x))

(* _clear_lease_operational_indexes_unlocked: every index file, family by  *)
(* family.                                                                 *)
ClearIndexes ==
    LET families == <<"manifest", "identity", "endpoint", "guard", "cluster_kind", "expiry">>
        files(f) == SetToSeq({p \in DOMAIN disk :
                       \/ f = "manifest" /\ p[1] = "lease_indexes"
                       \/ p[1] = "refs" /\ p[2] = f})
    IN  FlattenSeq([i \in 1..6 |-> [k \in DOMAIN files(families[i]) |->
                                        Del(files(families[i])[k])]])

(* _apply_lease_index_repair_intent_unlocked: clear the lease indexes, and *)
(* rebuild them and the capacity pair from the canonical leases.           *)
RepairWrites(intent, pair) ==
    LET leases == SetToSeq(Leases) IN
    ClearIndexes
        \o FlattenSeq([i \in DOMAIN leases |-> SyncIndexes(leases[i], <<>>)])
        \o WriteCapacity(pair)
        \o <<Del(intent)>>

(* repair_lease_operational_indexes: the pair starts a new epoch. *)
RepairLeaseIndexes ==
    /\ Idle
    /\ LET intent == IntentPath("lease_index_repair", "operator")
           pair == [epoch |-> 1 - Capacity.epoch, generation |-> 1,
                    count |-> Cardinality(Leases)]
       IN  Begin(<<Put(intent, pair)>> \o RepairWrites(intent, pair))

-----------------------------------------------------------------------------
(* Replay of an interrupted operation *)

(* The replay of intent p would raise QueueConflictError (EventTaken is    *)
(* the other reason).                                                      *)
Conflict(p) ==
    LET x == disk[p] IN
    CASE p[2] = "lease_index_repair" -> x.count # Cardinality(Leases)
      [] p[2] = "lease_acquire" -> ~Authorized(x.transition)
      [] p[2] = "lease_sync" -> ~Authorized(x.transition)
      [] p[2] = "lease_delete" ->
            \/ ~Authorized(x.transition)
            \/ /\ Exists(ManifestPath(x.lease.id))
               /\ disk[ManifestPath(x.lease.id)] # x.lease
      [] p[2] = "stale_lease_recovery" ->
            \/ ~Authorized(x.transition)
            \/ disk[JobPath(x.target.id)] \notin {x.original, x.target}
            \/ \E lease \in x.leases :
                  \/ /\ Exists(LeasePath(lease.id))
                     /\ disk[LeasePath(lease.id)] # lease
                  \/ /\ ~Exists(LeasePath(lease.id))
                     /\ disk[JobPath(x.target.id)] = x.original
                  \/ /\ Exists(ManifestPath(lease.id))
                     /\ disk[ManifestPath(lease.id)] # lease
                  \/ /\ ~Exists(ManifestPath(lease.id))
                     /\ Exists(LeasePath(lease.id))
      [] p[2] = "job_sync" -> FALSE

(* Mutant: the undone acquisition is still charged as an attempt. *)
UndoneCharged(x) == [x.original EXCEPT !.attempts = x.target.attempts]

Undone(x) == x.original

(* _reconcile_lease_acquire_intent_unlocked: an interrupted acquisition is *)
(* undone, unless the endpoint has the job from a later one.               *)
ReplayAcquire(intent, x) ==
    LET current == disk[JobPath(x.lease.job)]
        undo    == current = x.target
        keep    == /\ ~undo
                   /\ current.state \in {"LEASED", "RUNNING"}
                   /\ current.owner = x.lease.ep
    IN  (IF undo
         THEN <<Put(JobPath(x.original.id), Undone(x))>> \o SyncJobDerived(Undone(x))
         ELSE <<>>)
        \o (IF keep
            THEN <<Put(LeasePath(x.lease.id), x.lease), Put(ByJobPath(x.lease.id), x.lease)>>
                 \o SyncIndexes(x.lease, <<>>)
            ELSE DeleteWrites(x.lease))
        \o WriteCapacity(IF keep THEN x.transition.after ELSE x.transition.rollback)
        \o <<Del(intent)>>

ReplayWrites(p) ==
    CASE p[2] = "lease_index_repair"   -> RepairWrites(p, disk[p])
      [] p[2] = "lease_acquire"        -> ReplayAcquire(p, disk[p])
      [] p[2] = "lease_sync"           -> RenewWrites(p, disk[p])
      [] p[2] = "lease_delete"         -> EndDelete(p, disk[p])
      [] p[2] = "stale_lease_recovery" -> RecoverWrites(p, disk[p])
      [] p[2] = "job_sync"             ->
            (IF Exists(JobPath(p[3])) THEN SyncJobDerived(disk[JobPath(p[3])]) ELSE <<>>)
                \o <<Del(p)>>

(* _reconcile_transition_intents_unlocked, one intent; a conflict raises   *)
(* and leaves the intent for the next operation to meet.                   *)
Replay ==
    /\ todo = <<>>
    /\ \E p \in FirstIntents :
          /\ ~Conflict(p)
          /\ todo' = ReplayWrites(p)
    /\ replaying' = TRUE
    /\ UNCHANGED <<disk, due, crashes, handoffs>>

(* The next write of the running operation reaches the disk. *)
Step ==
    /\ todo # <<>>
    /\ disk' = Apply(disk, Head(todo))
    /\ todo' = Tail(todo)
    /\ handoffs' =
          LET w == Head(todo) IN
          IF ~replaying /\ w.write = <<>> /\ w.path \in Intents
                /\ w.path[2] = "lease_acquire"
          THEN [handoffs EXCEPT ![disk[w.path].lease.job] = @ + 1]
          ELSE handoffs
    /\ UNCHANGED <<replaying, due, crashes>>

Expire(l) ==
    /\ todo = <<>>
    /\ Exists(LeasePath(l)) /\ l \notin due
    /\ due' = due \cup {l}
    /\ UNCHANGED <<disk, todo, replaying, crashes, handoffs>>

(* The process that runs the operation dies; the lock is freed. *)
Crash ==
    /\ todo # <<>> \/ replaying
    /\ crashes < MaxCrashes
    /\ crashes' = crashes + 1
    /\ todo' = <<>>
    /\ replaying' = FALSE
    /\ UNCHANGED <<disk, due, handoffs>>

Next ==
    \/ \E j \in Jobs : Submit(j) \/ AppendOnly(j) \/ RecoverStale(j)
    \/ \E j \in Jobs, state \in {"RUNNING"} \cup Terminal : WriteState(j, state)
    \/ \E j \in Jobs, e \in Endpoints, l \in LeaseIds :
          AcquireNext(j, e, l) \/ AcquireExact(j, e, l)
    \/ \E lease \in Leases : Renew(lease) \/ Release(lease)
    \/ RepairLeaseIndexes
    \/ Replay
    \/ Step
    \/ \E l \in LeaseIds : Expire(l)
    \/ Crash

Spec == Init /\ [][Next]_vars

-----------------------------------------------------------------------------
(* Properties *)

TypeOK ==
    /\ \A j \in Jobs : Exists(JobPath(j)) =>
          disk[JobPath(j)] \in [id : {j}, state : States,
                                owner : Endpoints \cup {Nobody}, attempts : Nat]
    /\ Leases \subseteq [id : LeaseIds, job : Jobs, ep : Endpoints, exp : 0..1]
    /\ \A p \in {AggregatePath, CheckpointPath} :
          disk[p] \in [epoch : 0..1, generation : 1..MaxGeneration,
                       count : 0..Cardinality(LeaseIds)]
    /\ due \subseteq LeaseIds
    /\ crashes \in 0..MaxCrashes

(* Between operations, with nothing left to replay, both halves of the     *)
(* lease-capacity pair count exactly the canonical leases, and the per-job *)
(* copy, the manifest and the five reference files exist for those leases  *)
(* and for nothing else: admission neither over-counts nor raises on an    *)
(* orphan or a missing index.                                              *)
LeaseRecordsExact ==
    Idle =>
        /\ disk[AggregatePath] = disk[CheckpointPath]
        /\ Capacity.count = Cardinality(Leases)
        /\ {p \in DOMAIN disk : p[1] = "refs"}
              = {RefPath(k, lease) : k \in RefKinds, lease \in Leases}
        /\ \A path \in {"leases_by_job", "lease_indexes"} :
              {disk[p] : p \in {q \in DOMAIN disk : q[1] = path}} = Leases

(* Between operations a job in jobs_queued is the canonical, queued job:   *)
(* acquire_next_job leases the indexed copy without reading the original.  *)
QueuedCopiesAreCurrent ==
    Idle => \A j \in Jobs : Exists(QueuedPath(j)) =>
                /\ disk[QueuedPath(j)] = disk[JobPath(j)]
                /\ disk[JobPath(j)].state = "QUEUED"

(* Between operations a job has at most one lease, none while queued, and  *)
(* `attempts' counts its completed acquisitions: no crash hands one job to *)
(* two workers, and an acquisition that a crash undid is not charged       *)
(* against max_attempts.                                                   *)
HandoffsExact ==
    Idle =>
        /\ \A l1, l2 \in Leases :
              /\ l1.job = l2.job => l1 = l2
              /\ disk[JobPath(l1.job)].state # "QUEUED"
        /\ \A j \in Jobs : Exists(JobPath(j)) => disk[JobPath(j)].attempts = handoffs[j]

(* A replay never meets records that its intent does not expect: it would  *)
(* raise at the start of every later operation of every process.           *)
ReplayNeverConflicts ==
    todo = <<>> => \A p \in FirstIntents :
        ~Conflict(p) /\ (p[2] = "stale_lease_recovery" => ~EventTaken(disk[p]))

(* The events of a job are numbered without a gap, so that a reader that   *)
(* stops at the first missing number misses nothing, and the indexed head  *)
(* is never ahead of them.                                                 *)
EventsContiguous ==
    \A j \in Jobs : Exists(HeadPath(j)) =>
        \E n \in 0..MaxEvents :
            /\ {m \in 1..(MaxEvents + 1) : Exists(EventPath(j, m))} = 1..n
            /\ disk[HeadPath(j)] <= n

(* History is kept by every write, replays included: a terminal job record *)
(* never changes again, and no event is changed or lost, although a crash  *)
(* can separate an event from the head that names it, and recovery numbers *)
(* its event in advance.                                                   *)
HistoryIsKept ==
    [][\A p \in DOMAIN disk :
          p[1] = "events" \/ (p[1] = "jobs" /\ disk[p].state \in Terminal)
          => p \in DOMAIN disk' /\ disk'[p] = disk[p]]_vars

(* Between operations every queued job is in jobs_queued, where the        *)
(* workers look for work, and every unfinished one in jobs_active.         *)
JobIndexesComplete ==
    Idle => \A j \in Jobs : Exists(JobPath(j)) =>
                /\ disk[JobPath(j)].state = "QUEUED" => Exists(QueuedPath(j))
                /\ disk[JobPath(j)].state \notin Terminal <=> Exists(ActivePath(j))
=============================================================================
