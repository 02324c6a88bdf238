---------------------------- MODULE JobRetirement ----------------------------
(***************************************************************************)
(* The life of a submission's durable records from the first reservation   *)
(* of its idempotency key to the purge of its spool: submit_job and its    *)
(* replays (queue_jobs.py, queue_idempotency.py), the artifact-use edges   *)
(* between jobs (queue_artifact_lineage.py), the phased collection of a    *)
(* terminal job (queue_job_gc.py and its protections) and the coordinator  *)
(* that quarantines the spool around it (retention.py).                    *)
(*                                                                         *)
(* Every durable write is a step.  A submission, and the core part of a    *)
(* collection, hold the store lock (module FairLock) from their first read *)
(* to their return; a crash of their process drops them and frees it.  The *)
(* plans of the coordinator are read without the lock.                     *)
(***************************************************************************)
EXTENDS Integers

CONSTANTS
    Keys,        \* idempotency keys
    MaxIds,      \* bound: job ids; the artifact of a job goes by its id
    Tags,        \* what distinguishes two payloads besides their artifacts
    UseSets,     \* the sets of artifacts a payload may use
    None,
    MaxFaults    \* bound: crashes, metadata updates and late events, together

Ids == 1..MaxIds

ASSUME RetirementAssumption ==
    /\ MaxIds \in Nat /\ None \notin Ids
    /\ UseSets \subseteq SUBSET Ids
    /\ MaxFaults \in Nat

VARIABLES
    idem,      \* idempotency/<key>
    job,       \* jobs/<id>: the canonical record
    dirs,      \* the per-job directories in the store
    trash,     \* the per-job paths moved below gc_trash/<id>
    artifact,  \* artifacts/<id>: the job has an indexed artifact
    edge,      \* edge[c][a]: the records of consumer c's use of artifact a
    guard,     \* a lease, active task or other indexed protection exists
    tomb,      \* job_tombstones/<id>
    receipt,   \* .retention/receipts/<id>
    spool,     \* where the spool directory of the job is
    op,        \* the submission that holds the store lock
    coll,      \* the collection in progress (.retention/.lock)
    answered,  \* history: the job ids returned for a key
    created,   \* history: the job ids ever written for a key
    faults     \* crashes and disturbances so far

records == <<idem, job, dirs, trash, artifact, edge, guard, tomb>>
outer   == <<receipt, spool>>
history == <<answered, created>>
vars == <<records, outer, op, coll, history, faults>>

Payloads == [tag : Tags, uses : UseSets]

(* What collection moves: the event log, the other per-job directories     *)
(* together, the canonical job record; and its order. *)
Roots     == {"events", "index", "job"}
MoveOrder == [events |-> 1, index |-> 2, job |-> 3]

(* The records of one artifact use, the order in which they are written,   *)
(* and the order in which collection removes them. *)
EdgeRecords == {"mapping", "forward", "reverse", "entry"}
EdgeOrder   == [mapping |-> 1, forward |-> 2, reverse |-> 3, entry |-> 4]
UnlinkOrder == [reverse |-> 1, entry |-> 2, mapping |-> 3, forward |-> 4]

(* x comes first in S. *)
First(x, S, order) == x \in S /\ \A y \in S : order[x] <= order[y]

Phases == {"prepared", "retired", "records_trashed", "references_trashed", "purging", "complete"}
ReceiptPhases == {"prepared", "quarantined", "collecting", "core_complete", "purging", "complete"}

(* The records: idempotency, job, tombstone and receipt; and the           *)
(* submission and the collection in progress. *)
Bindings == [state : {"reserved", "committed", "retired"}, job : Ids, payload : Payloads]
Jobs == [key : Keys, payload : Payloads, done : BOOLEAN, hold : BOOLEAN, updated : Nat]
Tombstones == [phase : Phases, started : BOOLEAN, updated : Nat, done : BOOLEAN,
               key : Keys, payload : Payloads]
Receipts == [phase : ReceiptPhases, updated : Nat, existed : BOOLEAN]
Submissions == [key : Keys, id : Ids, payload : Payloads, new : BOOLEAN,
                pc : {"index", "uses", "commit", "event"}]
Collections == [job : Ids, yields : BOOLEAN,
                pc : {"quarantine", "quarantined", "plan", "core", "locked",
                      "record", "purging", "purge"}]

ASSUME NoRecordAssumption ==
    /\ None \notin Bindings /\ None \notin Jobs /\ None \notin Tombstones
    /\ None \notin Receipts /\ None \notin Submissions /\ None \notin Collections

-----------------------------------------------------------------------------
(* Reads *)

LockFree == op = None /\ (coll # None => coll.pc # "locked")

Fresh == {i \in Ids : /\ job[i] = None /\ tomb[i] = None
                      /\ \A k \in Keys : idem[k] = None \/ idem[k].job # i}

(* Ids are random, so which unused one a submission draws is immaterial. *)
Drawn(i) == i \in Fresh /\ \A other \in Fresh : i <= other

(* An artifact can be used while it is indexed and its producer retained. *)
UsesRetained(p) == \A a \in p.uses : artifact[a] /\ job[a] # None

Committed(i) ==
    LET k == job[i].key
    IN  idem[k] # None /\ idem[k].state = "committed" /\ idem[k].job = i

Consumed(a) == artifact[a] /\ \E c \in Ids : edge[c][a] \ {"forward"} # {}

(* Mutant: a job need not have ended. *)
ProtectedUnlessHeld(i) == job[i].hold \/ guard[i] \/ Consumed(i)

(* The protections that do not concern the idempotency record. *)
Protected(i) ==
    \/ ~job[i].done
    \/ job[i].hold
    \/ guard[i]
    \/ Consumed(i)

(* One of the bounded disturbances happens. *)
Fault == faults < MaxFaults /\ faults' = faults + 1

-----------------------------------------------------------------------------
Init ==
    /\ idem = [k \in Keys |-> None]
    /\ job = [i \in Ids |-> None]
    /\ dirs = [i \in Ids |-> {}]
    /\ trash = [i \in Ids |-> {}]
    /\ artifact = [i \in Ids |-> FALSE]
    /\ edge = [c \in Ids |-> [a \in Ids |-> {}]]
    /\ guard = [i \in Ids |-> FALSE]
    /\ tomb = [i \in Ids |-> None]
    /\ receipt = [i \in Ids |-> None]
    /\ spool = [i \in Ids |-> "absent"]
    /\ op = None /\ coll = None
    /\ answered = [k \in Keys |-> {}]
    /\ created = [k \in Keys |-> {}]
    /\ faults = 0

-----------------------------------------------------------------------------
(* Submission.  A retry carries a new random id, which the id of an        *)
(* existing reservation replaces. *)

Submission(k, i, p, new) == [key |-> k, id |-> i, payload |-> p, new |-> new, pc |-> "index"]

SubmitNew(k, p, i) ==
    /\ LockFree
    /\ idem[k] = None
    /\ Drawn(i)
    /\ UsesRetained(p)
    /\ idem' = [idem EXCEPT ![k] = [state |-> "reserved", job |-> i, payload |-> p]]
    /\ op' = Submission(k, i, p, TRUE)
    /\ UNCHANGED <<job, dirs, trash, artifact, edge, guard, tomb, outer, coll, history, faults>>

(* A repeated key with the same digest: the record it points to is         *)
(* repaired if it exists, and written now if the reservation was all that  *)
(* survived.  A committed key without its job is a conflict. *)
Resumable(k) == job[idem[k].job] = None /\ idem[k].state = "reserved"

(* Mutant: a retry keeps the id it was submitted with. *)
SubmitKnownNewId(k, p) ==
    /\ LockFree
    /\ idem[k] # None
    /\ idem[k].payload = p
    /\ idem[k].state # "retired"
    /\ job[idem[k].job] # None
    /\ \E i \in Ids : Drawn(i) /\ op' = Submission(k, i, p, FALSE)
    /\ UNCHANGED <<records, outer, coll, history, faults>>

SubmitKnown(k, p) ==
    /\ LockFree
    /\ idem[k] # None
    /\ idem[k].payload = p
    /\ idem[k].state # "retired"
    /\ job[idem[k].job] # None \/ Resumable(k)
    /\ op' = Submission(k, idem[k].job, p, job[idem[k].job] = None)
    /\ UNCHANGED <<records, outer, coll, history, faults>>

(* A retired key is answered from the tombstone. *)
SubmitRetired(k, p) ==
    /\ LockFree
    /\ idem[k] # None
    /\ idem[k].payload = p
    /\ idem[k].state = "retired"
    /\ LET t == tomb[idem[k].job]
       IN  t # None /\ t.payload = p /\ t.key = k
    /\ answered' = [answered EXCEPT ![k] = @ \cup {idem[k].job}]
    /\ UNCHANGED <<records, outer, op, coll, created, faults>>

SubmitIndex ==
    /\ op # None /\ op.pc = "index"
    /\ dirs' = [dirs EXCEPT ![op.id] = @ \cup {"index"}]
    /\ op' = [op EXCEPT !.pc = "uses"]
    /\ UNCHANGED <<idem, job, trash, artifact, edge, guard, tomb, outer, coll, history, faults>>

(* The uses are validated before the first of their records is written; a  *)
(* producer that is gone refuses the submission, and a replay of it. *)
SubmitRefused ==
    /\ op # None /\ op.pc = "uses"
    /\ ~UsesRetained(op.payload)
    /\ op' = None
    /\ UNCHANGED <<records, outer, coll, history, faults>>

SubmitUse(a) ==
    /\ op # None /\ op.pc = "uses"
    /\ UsesRetained(op.payload)
    /\ a \in op.payload.uses
    /\ \E r \in EdgeRecords :
          /\ First(r, EdgeRecords \ edge[op.id][a], EdgeOrder)
          /\ edge' = [edge EXCEPT ![op.id][a] = @ \cup {r}]
    /\ UNCHANGED <<idem, job, dirs, trash, artifact, guard, tomb, outer, op, coll, history, faults>>

SubmitJob ==
    /\ op # None /\ op.pc = "uses"
    /\ UsesRetained(op.payload)
    /\ \A a \in op.payload.uses : edge[op.id][a] = EdgeRecords
    /\ IF op.new
       THEN /\ job' = [job EXCEPT ![op.id] = [key |-> op.key, payload |-> op.payload,
                                              done |-> FALSE, hold |-> FALSE, updated |-> 0]]
            /\ created' = [created EXCEPT ![op.key] = @ \cup {op.id}]
       ELSE UNCHANGED <<job, created>>
    /\ op' = [op EXCEPT !.pc = IF op.new THEN "commit" ELSE "event"]
    /\ UNCHANGED <<idem, dirs, trash, artifact, edge, guard, tomb, outer, coll, answered, faults>>

Answer == answered' = [answered EXCEPT ![op.key] = @ \cup {op.id}]

(* A new job is committed before its first event is appended, a repaired   *)
(* one after, and only if it was still reserved. *)
SubmitCommit ==
    /\ op # None /\ op.pc = "commit"
    /\ idem' = [idem EXCEPT ![op.key] =
                  IF @.state = "reserved" THEN [@ EXCEPT !.state = "committed"] ELSE @]
    /\ IF op.new
       THEN op' = [op EXCEPT !.pc = "event"] /\ UNCHANGED answered
       ELSE op' = None /\ Answer
    /\ UNCHANGED <<job, dirs, trash, artifact, edge, guard, tomb, outer, coll, created, faults>>

SubmitEvent ==
    /\ op # None /\ op.pc = "event"
    /\ dirs' = [dirs EXCEPT ![op.id] = @ \cup {"events"}]
    /\ IF op.new
       THEN op' = None /\ Answer
       ELSE op' = [op EXCEPT !.pc = "commit"] /\ UNCHANGED answered
    /\ UNCHANGED <<idem, job, trash, artifact, edge, guard, tomb, outer, coll, created, faults>>

CrashSubmit ==
    /\ op # None
    /\ Fault
    /\ op' = None
    /\ UNCHANGED <<records, outer, coll, history>>

Submitting ==
    \/ SubmitIndex \/ SubmitRefused \/ (\E a \in Ids : SubmitUse(a))
    \/ SubmitJob \/ SubmitCommit \/ SubmitEvent

-----------------------------------------------------------------------------
(* What workers and operators do to a job, each under the store lock *)

Exists(i) == LockFree /\ job[i] # None

Start(i) ==
    /\ Exists(i)
    /\ ~job[i].done /\ ~guard[i]
    /\ guard' = [guard EXCEPT ![i] = TRUE]
    /\ spool' = [spool EXCEPT ![i] = "live"]
    /\ UNCHANGED <<idem, job, dirs, trash, artifact, edge, tomb, receipt, op, coll, history, faults>>

AppendArtifact(i) ==
    /\ Exists(i)
    /\ guard[i] /\ ~artifact[i]
    /\ artifact' = [artifact EXCEPT ![i] = TRUE]
    /\ dirs' = [dirs EXCEPT ![i] = @ \cup {"index", "events"}]
    /\ UNCHANGED <<idem, job, trash, edge, guard, tomb, outer, op, coll, history, faults>>

(* The job ends, run or canceled while it was queued. *)
Finish(i) ==
    /\ Exists(i)
    /\ ~job[i].done
    /\ job' = [job EXCEPT ![i].done = TRUE, ![i].updated = @ + 1]
    /\ dirs' = [dirs EXCEPT ![i] = @ \cup {"events"}]
    /\ UNCHANGED <<idem, trash, artifact, edge, guard, tomb, outer, op, coll, history, faults>>

(* The lease is released or expires; an unfinished job may start again. *)
Release(i) ==
    /\ LockFree
    /\ guard[i]
    /\ guard' = [guard EXCEPT ![i] = FALSE]
    /\ UNCHANGED <<idem, job, dirs, trash, artifact, edge, tomb, outer, op, coll, history, faults>>

UpdateMetadata(i, hold) ==
    /\ Exists(i)
    /\ Fault
    /\ job' = [job EXCEPT ![i].hold = hold, ![i].updated = @ + 1]
    /\ UNCHANGED <<idem, dirs, trash, artifact, edge, guard, tomb, outer, op, coll, history>>

(* append_event does not look for the job, so a late event makes a new     *)
(* directory; for a job that is not being collected the directory exists. *)
AppendEvent(i) ==
    /\ LockFree
    /\ tomb[i] # None
    /\ Fault
    /\ dirs' = [dirs EXCEPT ![i] = @ \cup {"events"}]
    /\ UNCHANGED <<idem, job, trash, artifact, edge, guard, tomb, outer, op, coll, history>>

-----------------------------------------------------------------------------
(* The coordinator: receipt, quarantine, core collection, purge *)

(* The snapshot a plan is about. *)
Snapshot(i) == IF tomb[i] # None THEN tomb[i].updated ELSE job[i].updated

CoreEligible(i) == tomb[i] # None \/ (job[i] # None /\ ~Protected(i) /\ Committed(i))

Eligible(i) ==
    /\ CoreEligible(i)
    /\ tomb[i] # None => receipt[i] # None
    /\ receipt[i] # None => receipt[i].updated = Snapshot(i)

Goto(pc) == coll' = [coll EXCEPT !.pc = pc]
At(pc) == coll # None /\ coll.pc = pc

(* Mutant: the phase of the receipt is taken for the step to resume at. *)
ResumeAtPhase(phase) == phase

ResumeAt(phase) ==
    CASE phase = "prepared" -> "quarantine"
      [] phase \in {"quarantined", "collecting"} -> "plan"
      [] phase = "core_complete" -> "purging"
      [] phase = "purging" -> "purge"

CollectBegin(i) ==
    /\ coll = None
    /\ Eligible(i)
    /\ IF receipt[i] = None
       THEN /\ receipt' = [receipt EXCEPT ![i] = [phase |-> "prepared", updated |-> Snapshot(i),
                                                  existed |-> spool[i] = "live"]]
            /\ coll' = [job |-> i, pc |-> "quarantine", yields |-> FALSE]
       ELSE /\ receipt[i].phase # "complete"
            /\ coll' = [job |-> i, pc |-> ResumeAt(receipt[i].phase), yields |-> FALSE]
            /\ UNCHANGED receipt
    /\ UNCHANGED <<records, spool, op, history, faults>>

(* The rename, and then the receipt that says it was done: a crash between *)
(* the two finds the directory already in quarantine. *)
Quarantine ==
    /\ At("quarantine")
    /\ LET i == coll.job IN
        IF receipt[i].existed /\ spool[i] \in {"live", "quarantined"}
        THEN spool' = [spool EXCEPT ![i] = "quarantined"] /\ Goto("quarantined")
        ELSE /\ IF ~receipt[i].existed /\ spool[i] = "absent"
                THEN Goto("quarantined") ELSE coll' = None
             /\ UNCHANGED spool
    /\ UNCHANGED <<records, receipt, op, history, faults>>

MarkReceipt(i, phase) == receipt' = [receipt EXCEPT ![i].phase = phase]

MarkQuarantined ==
    /\ At("quarantined")
    /\ MarkReceipt(coll.job, "quarantined")
    /\ Goto("plan")
    /\ UNCHANGED <<records, spool, op, history, faults>>

(* collect_terminal_job plans again, before it takes the store lock. *)
PlanCore ==
    /\ At("plan")
    /\ LET i == coll.job IN
        IF /\ spool[i] # "live"
           /\ CoreEligible(i)
           /\ Snapshot(i) = receipt[i].updated
        THEN Goto("core")
        ELSE coll' = None
    /\ UNCHANGED <<records, outer, op, history, faults>>

EnterCore ==
    /\ At("core")
    /\ LockFree
    /\ coll' = [coll EXCEPT !.pc = "locked", !.yields = FALSE]
    /\ UNCHANGED <<records, outer, op, history, faults>>

-----------------------------------------------------------------------------
(* The core phases.  A call ends after any of the writes counted against   *)
(* its batch size; between the others only a crash can end it.  A conflict *)
(* or a protection ends it too. *)

InPhase(i, phase) ==
    /\ At("locked") /\ coll.job = i
    /\ tomb[i] # None /\ tomb[i].phase = phase

Counted  == coll' = [coll EXCEPT !.yields = TRUE]
Between  == coll' = [coll EXCEPT !.yields = FALSE]
GiveUp   == coll' = None
Advance(i, phase) == tomb' = [tomb EXCEPT ![i].phase = phase]

StillEligible(i) == job[i] # None /\ ~Protected(i) /\ Committed(i) /\ job[i].updated = receipt[i].updated

(* Mutant: the tombstone does not take over the final state. *)
GcPrepareNoState(i) ==
    /\ At("locked") /\ coll.job = i /\ tomb[i] = None
    /\ IF StillEligible(i)
       THEN /\ tomb' = [tomb EXCEPT ![i] = [phase |-> "prepared", started |-> FALSE,
                                            updated |-> job[i].updated, done |-> FALSE,
                                            key |-> job[i].key, payload |-> job[i].payload]]
            /\ Counted
       ELSE GiveUp /\ UNCHANGED tomb
    /\ UNCHANGED <<idem, job, dirs, trash, artifact, edge, guard, outer, op, history, faults>>

GcPrepare(i) ==
    /\ At("locked") /\ coll.job = i /\ tomb[i] = None
    /\ IF StillEligible(i)
       THEN /\ tomb' = [tomb EXCEPT ![i] = [phase |-> "prepared", started |-> FALSE,
                                            updated |-> job[i].updated, done |-> job[i].done,
                                            key |-> job[i].key, payload |-> job[i].payload]]
            /\ Counted
       ELSE GiveUp /\ UNCHANGED tomb
    /\ UNCHANGED <<idem, job, dirs, trash, artifact, edge, guard, outer, op, history, faults>>

Matches(k, i) == idem[k] # None /\ idem[k].job = i /\ idem[k].payload = tomb[i].payload

(* The key is retired before any record of the job is moved. *)
GcRetireKey(i) ==
    /\ InPhase(i, "prepared")
    /\ LET k == tomb[i].key IN
        /\ ~(Matches(k, i) /\ idem[k].state = "retired")
        /\ IF Matches(k, i) /\ idem[k].state = "committed"
           THEN idem' = [idem EXCEPT ![k].state = "retired"] /\ Between
           ELSE GiveUp /\ UNCHANGED idem
    /\ UNCHANGED <<job, dirs, trash, artifact, edge, guard, tomb, outer, op, history, faults>>

GcKeyRetired(i) ==
    /\ InPhase(i, "prepared")
    /\ LET k == tomb[i].key IN Matches(k, i) /\ idem[k].state = "retired"
    /\ Advance(i, "retired")
    /\ Counted
    /\ UNCHANGED <<idem, job, dirs, trash, artifact, edge, guard, outer, op, history, faults>>

(* The protections are read again, until the first record is moved. *)
GcStartTrash(i) ==
    /\ InPhase(i, "retired") /\ ~tomb[i].started
    /\ IF job[i] # None => ~Protected(i) /\ job[i].updated = tomb[i].updated
       THEN tomb' = [tomb EXCEPT ![i].started = TRUE] /\ Counted
       ELSE GiveUp /\ UNCHANGED tomb
    /\ UNCHANGED <<idem, job, dirs, trash, artifact, edge, guard, outer, op, history, faults>>

Present(i, root) == IF root = "job" THEN job[i] # None ELSE root \in dirs[i]
Left(i) == {root \in Roots : Present(i, root)}

(* Mutant: a trash directory left by an interrupted call is refused. *)
MovableIntoEmpty(i, root) == trash[i] = {}

(* move_gc_path: a source and a destination that both exist are a conflict. *)
Movable(i, root) == root \notin trash[i]

(* Mutant: records are moved before the key is retired. *)
GcMoveRootEarly(i) ==
    /\ InPhase(i, "prepared")
    /\ job' = [job EXCEPT ![i] = None]
    /\ Counted
    /\ UNCHANGED <<idem, dirs, trash, artifact, edge, guard, tomb, outer, op, history, faults>>

GcMoveRoot(i) ==
    /\ InPhase(i, "retired") /\ tomb[i].started
    /\ \E root \in Roots :
        /\ First(root, Left(i), MoveOrder)
        /\ IF Movable(i, root)
           THEN /\ trash' = [trash EXCEPT ![i] = @ \cup {root}]
                /\ IF root = "job"
                   THEN job' = [job EXCEPT ![i] = None] /\ UNCHANGED dirs
                   ELSE dirs' = [dirs EXCEPT ![i] = @ \ {root}] /\ UNCHANGED job
                /\ coll' = [coll EXCEPT !.yields = Left(i) # {root}]
           ELSE GiveUp /\ UNCHANGED <<job, dirs, trash>>
    /\ UNCHANGED <<idem, artifact, edge, guard, tomb, outer, op, history, faults>>

GcRootsMoved(i) ==
    /\ InPhase(i, "retired") /\ tomb[i].started
    /\ Left(i) = {}
    /\ Advance(i, "records_trashed")
    /\ Counted
    /\ UNCHANGED <<idem, job, dirs, trash, artifact, edge, guard, outer, op, history, faults>>

(* Mutant: the artifact goes whoever uses it. *)
GcTrashArtifactUsed(i) ==
    /\ InPhase(i, "records_trashed")
    /\ artifact[i]
    /\ artifact' = [artifact EXCEPT ![i] = FALSE]
    /\ Counted
    /\ UNCHANGED <<idem, job, dirs, trash, edge, guard, tomb, outer, op, history, faults>>

(* An artifact with consumers left refuses to go, and the collection with  *)
(* it. *)
GcTrashArtifact(i) ==
    /\ InPhase(i, "records_trashed")
    /\ artifact[i]
    /\ IF Consumed(i)
       THEN GiveUp /\ UNCHANGED artifact
       ELSE artifact' = [artifact EXCEPT ![i] = FALSE] /\ Counted
    /\ UNCHANGED <<idem, job, dirs, trash, edge, guard, tomb, outer, op, history, faults>>

(* The forward record names the use until its other records are unlinked. *)
GcTrashUse(i, a) ==
    /\ InPhase(i, "records_trashed")
    /\ ~artifact[i]
    /\ "forward" \in edge[i][a]
    /\ \E r \in EdgeRecords :
        /\ First(r, edge[i][a], UnlinkOrder)
        /\ edge' = [edge EXCEPT ![i][a] = @ \ {r}]
        /\ IF r = "forward" THEN Counted ELSE Between
    /\ UNCHANGED <<idem, job, dirs, trash, artifact, guard, tomb, outer, op, history, faults>>

GcReferencesTrashed(i) ==
    /\ InPhase(i, "records_trashed")
    /\ ~artifact[i] /\ \A a \in Ids : "forward" \notin edge[i][a]
    /\ Advance(i, "references_trashed")
    /\ Counted
    /\ UNCHANGED <<idem, job, dirs, trash, artifact, edge, guard, outer, op, history, faults>>

(* The call that begins to purge may return with a part of the trash left. *)
GcPurging(i) ==
    /\ InPhase(i, "references_trashed")
    /\ Advance(i, "purging")
    /\ Counted
    /\ UNCHANGED <<idem, job, dirs, trash, artifact, edge, guard, outer, op, history, faults>>

GcPurge(i) ==
    /\ InPhase(i, "purging")
    /\ IF trash[i] # {}
       THEN trash' = [trash EXCEPT ![i] = {}] /\ UNCHANGED tomb
       ELSE Advance(i, "complete") /\ UNCHANGED trash
    /\ Between
    /\ UNCHANGED <<idem, job, dirs, artifact, edge, guard, outer, op, history, faults>>

(* The call returns, its batch used up or the collection complete, and the *)
(* receipt records how far the core got. *)
CoreReturn ==
    /\ At("locked")
    /\ coll.yields \/ InPhase(coll.job, "complete")
    /\ Goto("record")
    /\ UNCHANGED <<records, outer, op, history, faults>>

(* Mutant: a batch that used its budget counts as a complete collection. *)
RecordCoreEarly ==
    /\ At("record")
    /\ MarkReceipt(coll.job, "core_complete")
    /\ Goto("purging")
    /\ UNCHANGED <<records, spool, op, history, faults>>

RecordCore ==
    /\ At("record")
    /\ IF tomb[coll.job].phase = "complete"
       THEN /\ MarkReceipt(coll.job, "core_complete")
            /\ Goto("purging") \/ coll' = None
       ELSE /\ MarkReceipt(coll.job, "collecting")
            /\ coll' = None
    /\ UNCHANGED <<records, spool, op, history, faults>>

MarkPurging ==
    /\ At("purging")
    /\ MarkReceipt(coll.job, "purging")
    /\ Goto("purge")
    /\ UNCHANGED <<records, spool, op, history, faults>>

(* The quarantined tree is removed, and the receipt completed once it is   *)
(* gone; a crash in between leaves it in its purging phase. *)
PurgeSpool ==
    /\ At("purge")
    /\ IF spool[coll.job] = "quarantined"
       THEN /\ spool' = [spool EXCEPT ![coll.job] = "purged"]
            /\ UNCHANGED <<receipt, coll>>
       ELSE /\ MarkReceipt(coll.job, "complete")
            /\ coll' = None
            /\ UNCHANGED spool
    /\ UNCHANGED <<records, op, history, faults>>

CrashCollect ==
    /\ coll # None
    /\ Fault
    /\ coll' = None
    /\ UNCHANGED <<records, outer, op, history>>

Core(i) ==
    \/ GcPrepare(i) \/ GcRetireKey(i) \/ GcKeyRetired(i) \/ GcStartTrash(i)
    \/ GcMoveRoot(i) \/ GcRootsMoved(i) \/ GcTrashArtifact(i)
    \/ (\E a \in Ids : GcTrashUse(i, a))
    \/ GcReferencesTrashed(i) \/ GcPurging(i) \/ GcPurge(i)

Collecting ==
    \/ Quarantine \/ MarkQuarantined \/ PlanCore \/ EnterCore
    \/ (\E i \in Ids : Core(i))
    \/ CoreReturn \/ RecordCore \/ MarkPurging \/ PurgeSpool

Next ==
    \/ \E k \in Keys, p \in Payloads :
        \/ \E i \in Ids : SubmitNew(k, p, i)
        \/ SubmitKnown(k, p) \/ SubmitRetired(k, p)
    \/ Submitting \/ CrashSubmit
    \/ \E i \in Ids :
        \/ Start(i) \/ AppendArtifact(i) \/ Finish(i) \/ Release(i)
        \/ (\E hold \in BOOLEAN : UpdateMetadata(i, hold))
        \/ AppendEvent(i)
        \/ CollectBegin(i)
    \/ Collecting \/ CrashCollect

Spec == Init /\ [][Next]_vars

(* A process that holds the lock runs on unless it crashes, and an         *)
(* operator repeats the collection of a job until it is complete. *)
Fairness ==
    /\ WF_vars(Submitting)
    /\ WF_vars(Collecting)
    /\ \A i \in Ids : SF_vars(CollectBegin(i))
    /\ SF_vars(EnterCore)

FairSpec == Spec /\ Fairness
-----------------------------------------------------------------------------
(* What a submitted key was promised *)

(* Types of every record and program counter. *)
TypeOK ==
    /\ idem \in [Keys -> {None} \cup Bindings]
    /\ job \in [Ids -> {None} \cup Jobs]
    /\ dirs \in [Ids -> SUBSET {"events", "index"}]
    /\ trash \in [Ids -> SUBSET Roots]
    /\ artifact \in [Ids -> BOOLEAN] /\ guard \in [Ids -> BOOLEAN]
    /\ edge \in [Ids -> [Ids -> SUBSET EdgeRecords]]
    /\ tomb \in [Ids -> {None} \cup Tombstones]
    /\ receipt \in [Ids -> {None} \cup Receipts]
    /\ spool \in [Ids -> {"absent", "live", "quarantined", "purged"}]
    /\ op \in {None} \cup Submissions
    /\ coll \in {None} \cup Collections
    /\ answered \in [Keys -> SUBSET Ids] /\ created \in [Keys -> SUBSET Ids]
    /\ faults \in Nat

(* However often a key is submitted, interrupted, repaired, collected and  *)
(* replayed, submit_job writes and returns one job for it. *)
OneJobPerKey ==
    \A k \in Keys : /\ answered[k] \subseteq created[k]
                    /\ \A i, j \in created[k] : i = j

(* A key that submit_job has answered can always be answered again: it     *)
(* never points to a job that is missing, nor to a missing tombstone. *)
AnswerIsKept ==
    \A k \in Keys : answered[k] # {} =>
        LET i == idem[k].job IN
        /\ idem[k] # None
        /\ idem[k].state = "retired" => tomb[i] # None /\ tomb[i].key = k
        /\ idem[k].state # "retired" => job[i] # None

(* A job record that collection has taken away had ended, and its key was  *)
(* retired first (collect_terminal_job orders the two). *)
CollectedIsRetired ==
    \A k \in Keys, i \in Ids : i \in created[k] /\ job[i] = None =>
        /\ tomb[i] # None /\ tomb[i].done
        /\ idem[k].state = "retired"

(* The spool of a job leaves its quarantine only when the core collection  *)
(* of the job is complete (TerminalRetentionCoordinator.collect). *)
SpoolPurgedLast ==
    \A i \in Ids : spool[i] = "purged" =>
        /\ tomb[i] # None /\ tomb[i].phase = "complete"
        /\ job[i] = None /\ ~artifact[i]

(* The artifacts a submitted and retained job uses are still indexed. *)
UsedArtifactsRetained ==
    \A c \in Ids : job[c] # None => \A a \in job[c].payload.uses : artifact[a]

(* The producers of the artifacts a retained job uses are retained.        *)
ProducersRetained ==
    \A c \in Ids : job[c] # None => \A a \in job[c].payload.uses : job[a] # None

(* A collection that wrote its tombstone runs to the end through crashes   *)
(* and batches, unless the job is changed or held meanwhile, an event      *)
(* brings back a directory already moved, or a job uses its artifact. *)
Disturbed(i) ==
    \/ tomb[i] # None /\ job[i] # None /\ (job[i].updated # tomb[i].updated \/ guard[i])
    \/ dirs[i] \cap trash[i] # {}
    \/ Consumed(i)

Retained(i) == receipt[i] # None /\ receipt[i].phase = "complete"

RetentionCompletes ==
    \A i \in Ids : (tomb[i] # None) ~> (Disturbed(i) \/ Retained(i))

(* The promise, free of files, phases and crashes. *)
Bound(k) == IF idem[k] = None THEN None ELSE [job |-> idem[k].job, payload |-> idem[k].payload]
Stage(k) ==
    IF idem[k] = None THEN "free"
    ELSE IF idem[k].state = "retired" THEN "retired"
    ELSE IF job[idem[k].job] = None THEN "accepted"
    ELSE IF job[idem[k].job].done THEN "ended" ELSE "running"

Promise == INSTANCE IdempotentJobs
    WITH bound <- [k \in Keys |-> Bound(k)], stage <- [k \in Keys |-> Stage(k)]

(* Submission and retirement implement the idempotent-job contract. *)
ImplementsPromise == Promise!Spec
=============================================================================
