------------------------ MODULE JobRetirementProofs ------------------------
(***************************************************************************)
(* Safety of JobRetirement for every set of keys, ids, payloads and number *)
(* of faults, and that it implements IdempotentJobs.  One inductive        *)
(* invariant, IInv, carries all of it.                                     *)
(***************************************************************************)
EXTENDS JobRetirement, TLAPS

(* A record is not None. *)
LEMMA RecordIsNotNone ==
    /\ \A x \in Bindings : x # None
    /\ \A x \in Jobs : x # None
    /\ \A x \in Tombstones : x # None
    /\ \A x \in Receipts : x # None
    /\ \A x \in Submissions : x # None
    /\ \A x \in Collections : x # None
  BY Zenon, NoRecordAssumption

-----------------------------------------------------------------------------
(* The core collection of the job is complete. *)
Gone(i) == tomb[i] # None /\ tomb[i].phase = "complete"

(* A key is bound to one job, which is the only one created and returned   *)
(* for it. *)
KeyInv ==
    /\ \A k \in Keys : idem[k] = None => created[k] = {}
    /\ \A k \in Keys : idem[k] # None =>
          /\ created[k] \subseteq {idem[k].job}
          /\ idem[k].state # "reserved" => idem[k].job \in created[k]
          /\ idem[k].state = "retired" => tomb[idem[k].job] # None
          /\ idem[k].state = "reserved" => tomb[idem[k].job] = None
    /\ \A k, other \in Keys :
          idem[k] # None /\ idem[other] # None /\ idem[k].job = idem[other].job => k = other
    /\ \A k \in Keys : answered[k] \subseteq created[k]

(* A job stands behind its key; a job that was written and is gone left a  *)
(* tombstone and a retired key. *)
JobInv ==
    /\ \A i \in Ids : job[i] # None =>
          LET b == idem[job[i].key] IN
          /\ b # None /\ b.job = i /\ b.payload = job[i].payload
          /\ i \in created[job[i].key]
    /\ \A k \in Keys, i \in Ids : i \in created[k] /\ job[i] = None =>
          tomb[i] # None /\ idem[k].state = "retired"

(* A tombstone speaks for the job its key is bound to, which had ended; the *)
(* key is retired before a record moves, and each phase begins when what it *)
(* follows is gone. *)
TombInv ==
    \A i \in Ids : tomb[i] # None =>
       LET b == idem[tomb[i].key] IN
       /\ b # None /\ b.job = i /\ b.payload = tomb[i].payload
       /\ tomb[i].phase # "prepared" => b.state = "retired"
       /\ tomb[i].done
       /\ job[i] # None => job[i].done /\ tomb[i].phase \in {"prepared", "retired"}
       /\ artifact[i] => tomb[i].phase \in {"prepared", "retired", "records_trashed"}

(* A submission works on the binding of its key, has yet to write the job  *)
(* exactly when it is new, and excludes the core of a collection. *)
OpInv ==
    op # None =>
       /\ idem[op.key] # None /\ idem[op.key].job = op.id
       /\ idem[op.key].payload = op.payload /\ idem[op.key].state # "retired"
       /\ job[op.id] = None <=> op.new /\ op.pc \in {"index", "uses"}
       /\ coll # None => coll.pc # "locked"

(* A collection has its receipt, returns from the core with a tombstone,   *)
(* and comes to the spool when the core is complete. *)
CollInv ==
    /\ coll # None =>
          /\ receipt[coll.job] # None
          /\ coll.pc = "record" \/ (coll.pc = "locked" /\ coll.yields) => tomb[coll.job] # None
          /\ coll.pc \in {"purging", "purge"} => Gone(coll.job)
    /\ \A i \in Ids :
          /\ receipt[i] # None /\ receipt[i].phase \in {"core_complete", "purging", "complete"}
                => Gone(i)
          /\ spool[i] = "purged" => Gone(i)

(* The artifacts a job uses are indexed and its uses fully recorded. *)
UseInv ==
    \A c \in Ids : job[c] # None =>
       \A a \in job[c].payload.uses : artifact[a] /\ edge[c][a] = EdgeRecords

IInv == TypeOK /\ KeyInv /\ JobInv /\ TombInv /\ OpInv /\ CollInv /\ UseInv

-----------------------------------------------------------------------------
(* The updates in place: a record stays a record, one field is new.        *)

(* The state of a key is rewritten. *)
LEMMA BindingMoves ==
    ASSUME idem \in [Keys -> {None} \cup Bindings], NEW k \in Keys, idem[k] # None,
           NEW s \in {"reserved", "committed", "retired"},
           idem' = [idem EXCEPT ![k].state = s]
    PROVE  /\ idem' \in [Keys -> {None} \cup Bindings]
           /\ idem'[k] \in Bindings /\ idem'[k] # None /\ idem'[k].state = s
           /\ idem'[k].job = idem[k].job /\ idem'[k].payload = idem[k].payload
           /\ \A other \in Keys : other # k => idem'[other] = idem[other]
<1>1. idem[k] \in Bindings
  BY Zenon
<1> DEFINE r == [idem[k] EXCEPT !.state = s]
<1>2. /\ r \in Bindings /\ r.state = s /\ r.job = idem[k].job /\ r.payload = idem[k].payload
  BY Zenon, <1>1 DEF Bindings
<1>3. idem' = [idem EXCEPT ![k] = r]
  BY Zenon
<1>4. r # None
  BY Zenon, <1>2, RecordIsNotNone
<1> HIDE DEF r
<1> QED
  BY Zenon, <1>2, <1>3, <1>4

(* A tombstone enters a phase. *)
LEMMA PhaseAdvances ==
    ASSUME tomb \in [Ids -> {None} \cup Tombstones], NEW i \in Ids, tomb[i] # None,
           NEW p \in Phases, Advance(i, p)
    PROVE  /\ tomb' \in [Ids -> {None} \cup Tombstones]
           /\ tomb'[i] \in Tombstones /\ tomb'[i] # None /\ tomb'[i].phase = p
           /\ tomb'[i].started = tomb[i].started /\ tomb'[i].done = tomb[i].done
           /\ tomb'[i].key = tomb[i].key /\ tomb'[i].payload = tomb[i].payload
           /\ \A other \in Ids : other # i => tomb'[other] = tomb[other]
<1>1. tomb[i] \in Tombstones
  BY Zenon
<1> DEFINE r == [tomb[i] EXCEPT !.phase = p]
<1>2. /\ r \in Tombstones /\ r.phase = p /\ r.started = tomb[i].started
      /\ r.done = tomb[i].done /\ r.key = tomb[i].key /\ r.payload = tomb[i].payload
  BY Zenon, <1>1 DEF Tombstones
<1>3. tomb' = [tomb EXCEPT ![i] = r]
  BY Zenon DEF Advance
<1>4. r # None
  BY Zenon, <1>2, RecordIsNotNone
<1> HIDE DEF r
<1> QED
  BY Zenon, <1>2, <1>3, <1>4

(* A tombstone records that the first record is about to be moved. *)
LEMMA TrashStarts ==
    ASSUME tomb \in [Ids -> {None} \cup Tombstones], NEW i \in Ids, tomb[i] # None,
           tomb' = [tomb EXCEPT ![i].started = TRUE]
    PROVE  /\ tomb' \in [Ids -> {None} \cup Tombstones]
           /\ tomb'[i] \in Tombstones /\ tomb'[i] # None
           /\ tomb'[i].phase = tomb[i].phase /\ tomb'[i].done = tomb[i].done
           /\ tomb'[i].key = tomb[i].key /\ tomb'[i].payload = tomb[i].payload
           /\ \A other \in Ids : other # i => tomb'[other] = tomb[other]
<1>1. tomb[i] \in Tombstones
  BY Zenon
<1> DEFINE r == [tomb[i] EXCEPT !.started = TRUE]
<1>2. /\ r \in Tombstones /\ r.phase = tomb[i].phase /\ r.done = tomb[i].done
      /\ r.key = tomb[i].key /\ r.payload = tomb[i].payload
  BY Zenon, <1>1 DEF Tombstones
<1>3. tomb' = [tomb EXCEPT ![i] = r]
  BY Zenon
<1>4. r # None
  BY Zenon, <1>2, RecordIsNotNone
<1> HIDE DEF r
<1> QED
  BY Zenon, <1>2, <1>3, <1>4

(* A receipt enters a phase. *)
LEMMA ReceiptAdvances ==
    ASSUME receipt \in [Ids -> {None} \cup Receipts], NEW i \in Ids, receipt[i] # None,
           NEW p \in ReceiptPhases, MarkReceipt(i, p)
    PROVE  /\ receipt' \in [Ids -> {None} \cup Receipts]
           /\ receipt'[i] \in Receipts /\ receipt'[i] # None /\ receipt'[i].phase = p
           /\ \A other \in Ids : other # i => receipt'[other] = receipt[other]
<1>1. receipt[i] \in Receipts
  BY Zenon
<1> DEFINE r == [receipt[i] EXCEPT !.phase = p]
<1>2. /\ r \in Receipts /\ r.phase = p
  BY Zenon, <1>1 DEF Receipts
<1>3. receipt' = [receipt EXCEPT ![i] = r]
  BY Zenon DEF MarkReceipt
<1>4. r # None
  BY Zenon, <1>2, RecordIsNotNone
<1> HIDE DEF r
<1> QED
  BY Zenon, <1>2, <1>3, <1>4

(* A job ends. *)
LEMMA JobEnds ==
    ASSUME job \in [Ids -> {None} \cup Jobs], NEW i \in Ids, job[i] # None,
           job' = [job EXCEPT ![i].done = TRUE, ![i].updated = @ + 1]
    PROVE  /\ job' \in [Ids -> {None} \cup Jobs]
           /\ job'[i] \in Jobs /\ job'[i] # None /\ job'[i].done
           /\ job'[i].key = job[i].key /\ job'[i].payload = job[i].payload
           /\ \A other \in Ids : other # i => job'[other] = job[other]
<1>1. job[i] \in Jobs
  BY Zenon
<1> DEFINE r == [job[i] EXCEPT !.done = TRUE, !.updated = @ + 1]
<1>2. /\ r \in Jobs /\ r.done /\ r.key = job[i].key /\ r.payload = job[i].payload
  BY <1>1 DEF Jobs
<1>3. job' = [job EXCEPT ![i] = r]
  BY Zenon, <1>1 DEF Jobs
<1>4. r # None
  BY Zenon, <1>2, RecordIsNotNone
<1> HIDE DEF r
<1> QED
  BY Zenon, <1>2, <1>3, <1>4

(* The hold of a job changes. *)
LEMMA JobIsUpdated ==
    ASSUME job \in [Ids -> {None} \cup Jobs], NEW i \in Ids, job[i] # None,
           NEW hold \in BOOLEAN,
           job' = [job EXCEPT ![i].hold = hold, ![i].updated = @ + 1]
    PROVE  /\ job' \in [Ids -> {None} \cup Jobs]
           /\ job'[i] \in Jobs /\ job'[i] # None
           /\ job'[i].key = job[i].key /\ job'[i].payload = job[i].payload
           /\ job'[i].done = job[i].done
           /\ \A other \in Ids : other # i => job'[other] = job[other]
<1>1. job[i] \in Jobs
  BY Zenon
<1> DEFINE r == [job[i] EXCEPT !.hold = hold, !.updated = @ + 1]
<1>2. /\ r \in Jobs /\ r.key = job[i].key /\ r.payload = job[i].payload /\ r.done = job[i].done
  BY <1>1 DEF Jobs
<1>3. job' = [job EXCEPT ![i] = r]
  BY Zenon, <1>1 DEF Jobs
<1>4. r # None
  BY Zenon, <1>2, RecordIsNotNone
<1> HIDE DEF r
<1> QED
  BY Zenon, <1>2, <1>3, <1>4

(* The submission goes on to another step. *)
LEMMA SubmissionGoes ==
    ASSUME op \in Submissions, NEW p \in {"index", "uses", "commit", "event"},
           op' = [op EXCEPT !.pc = p]
    PROVE  /\ op' \in Submissions /\ op' # None /\ op'.pc = p /\ op'.key = op.key
           /\ op'.id = op.id /\ op'.payload = op.payload /\ op'.new = op.new
<1>1. /\ op' \in Submissions /\ op'.pc = p /\ op'.key = op.key
      /\ op'.id = op.id /\ op'.payload = op.payload /\ op'.new = op.new
  BY Zenon DEF Submissions
<1> QED
  BY Zenon, <1>1, RecordIsNotNone

(* The collection goes on to another step. *)
LEMMA CollectionGoes ==
    ASSUME coll \in Collections,
           NEW p \in {"quarantine", "quarantined", "plan", "core", "locked",
                      "record", "purging", "purge"},
           Goto(p)
    PROVE  coll' \in Collections /\ coll' # None /\ coll'.job = coll.job /\ coll'.pc = p
<1>1. coll' \in Collections /\ coll'.job = coll.job /\ coll'.pc = p
  BY Zenon DEF Collections, Goto
<1> QED
  BY Zenon, <1>1, RecordIsNotNone

(* The collection goes on within the core, whether the batch may end or not. *)
LEMMA BatchGoes ==
    ASSUME coll \in Collections, NEW b \in BOOLEAN, coll' = [coll EXCEPT !.yields = b]
    PROVE  /\ coll' \in Collections /\ coll' # None /\ coll'.job = coll.job
           /\ coll'.pc = coll.pc /\ coll'.yields = b
<1>1. /\ coll' \in Collections /\ coll'.job = coll.job
      /\ coll'.pc = coll.pc /\ coll'.yields = b
  BY Zenon DEF Collections
<1> QED
  BY Zenon, <1>1, RecordIsNotNone

(* So it does with or without an end of its batch. *)
LEMMA BatchCounts ==
    ASSUME coll \in Collections, Counted \/ Between
    PROVE  /\ coll' \in Collections /\ coll' # None /\ coll'.job = coll.job
           /\ coll'.pc = coll.pc
  BY Zenon, BatchGoes DEF Counted, Between

(* A collection at some step has its receipt, and inside the core the store *)
(* lock to itself. *)
LEMMA CollectionRuns ==
    ASSUME IInv, NEW pc, At(pc)
    PROVE  /\ coll \in Collections /\ coll # None /\ coll.pc = pc /\ coll.job \in Ids
           /\ coll.yields \in BOOLEAN
           /\ receipt[coll.job] \in Receipts /\ receipt[coll.job] # None
           /\ pc = "locked" => op = None
<1>1. coll \in {None} \cup Collections /\ receipt \in [Ids -> {None} \cup Receipts]
  BY Zenon DEF IInv, TypeOK
<1>2. coll # None /\ coll.pc = pc
  BY Zenon DEF At
<1>3. coll.job \in Ids /\ coll.yields \in BOOLEAN
  BY Zenon, <1>1, <1>2 DEF Collections
<1>4. receipt[coll.job] # None
  BY Zenon, <1>2 DEF IInv, CollInv
<1>5. pc = "locked" => op = None
  BY Zenon, <1>2 DEF IInv, OpInv
<1> QED
  BY Zenon, <1>1, <1>2, <1>3, <1>4, <1>5

(* The core works on a tombstone in the phase of its step. *)
LEMMA PhaseIsOpen ==
    ASSUME IInv, NEW i \in Ids, NEW p, InPhase(i, p)
    PROVE  /\ At("locked") /\ coll.job = i
           /\ tomb[i] \in Tombstones /\ tomb[i] # None /\ tomb[i].phase = p
           /\ tomb[i].key \in Keys /\ tomb[i].payload \in Payloads
<1>1. tomb \in [Ids -> {None} \cup Tombstones]
  BY Zenon DEF IInv, TypeOK
<1>2. At("locked") /\ coll.job = i /\ tomb[i] # None /\ tomb[i].phase = p
  BY Zenon DEF InPhase
<1>3. tomb[i] \in Tombstones
  BY Zenon, <1>1, <1>2
<1> QED
  BY Zenon, <1>2, <1>3 DEF Tombstones

(* The fields of the records that lead to other records. *)
LEMMA FieldsAreTyped ==
    ASSUME IInv
    PROVE  /\ \A k \in Keys : idem[k] # None =>
                 /\ idem[k].job \in Ids
                 /\ idem[k].state \in {"reserved", "committed", "retired"}
           /\ \A i \in Ids : job[i] # None =>
                 job[i].key \in Keys /\ job[i].payload.uses \subseteq Ids
           /\ \A i \in Ids : tomb[i] # None =>
                 tomb[i].key \in Keys /\ tomb[i].phase \in Phases
<1>1. /\ idem \in [Keys -> {None} \cup Bindings] /\ job \in [Ids -> {None} \cup Jobs]
      /\ tomb \in [Ids -> {None} \cup Tombstones]
  BY Zenon DEF IInv, TypeOK
<1>2. \A k \in Keys : idem[k] # None =>
        /\ idem[k].job \in Ids
        /\ idem[k].state \in {"reserved", "committed", "retired"}
  BY Zenon, <1>1 DEF Bindings
<1>3. \A i \in Ids : job[i] # None =>
        job[i].key \in Keys /\ job[i].payload.uses \subseteq Ids
  BY Zenon, <1>1, RetirementAssumption DEF Jobs, Payloads
<1>4. \A i \in Ids : tomb[i] # None => tomb[i].key \in Keys /\ tomb[i].phase \in Phases
  BY Zenon, <1>1 DEF Tombstones
<1> QED
  BY Zenon, <1>2, <1>3, <1>4

(* What a step leaves alone it need not be shown to preserve. *)
LEMMA RetirementFrame ==
    ASSUME IInv
    PROVE  /\ UNCHANGED <<idem, created, answered, tomb>> => KeyInv'
           /\ UNCHANGED <<idem, created, job, tomb>> => JobInv'
           /\ UNCHANGED <<idem, job, tomb, artifact>> => TombInv'
           /\ UNCHANGED <<op, idem, job, coll>> => OpInv'
           /\ op' = None => OpInv'
           /\ UNCHANGED <<op, idem, job>> /\ coll'.pc # "locked" => OpInv'
           /\ UNCHANGED <<coll, receipt, tomb, spool>> => CollInv'
           /\ coll' = None /\ UNCHANGED <<receipt, tomb, spool>> => CollInv'
           /\ UNCHANGED <<job, artifact, edge>> => UseInv'
<1>1. KeyInv /\ JobInv /\ TombInv /\ OpInv /\ CollInv /\ UseInv
  BY Zenon DEF IInv
<1>2. UNCHANGED <<idem, created, answered, tomb>> => KeyInv'
  BY <1>1 DEF KeyInv
<1>3. UNCHANGED <<idem, created, job, tomb>> => JobInv'
  BY Zenon, <1>1 DEF JobInv
<1>4. UNCHANGED <<idem, job, tomb, artifact>> => TombInv'
  BY <1>1 DEF TombInv
<1>5. UNCHANGED <<op, idem, job, coll>> => OpInv'
  BY Zenon, <1>1 DEF OpInv
<1>6. op' = None => OpInv'
  BY Zenon DEF OpInv
<1>7. UNCHANGED <<op, idem, job>> /\ coll'.pc # "locked" => OpInv'
  BY Zenon, <1>1 DEF OpInv
<1>8. UNCHANGED <<coll, receipt, tomb, spool>> => CollInv'
  BY Zenon, <1>1 DEF CollInv, Gone
<1>9. coll' = None /\ UNCHANGED <<receipt, tomb, spool>> => CollInv'
  BY Zenon, <1>1 DEF CollInv, Gone
<1>10. UNCHANGED <<job, artifact, edge>> => UseInv'
  BY Zenon, <1>1 DEF UseInv
<1> QED
  BY Zenon, <1>2, <1>3, <1>4, <1>5, <1>6, <1>7, <1>8, <1>9, <1>10

(* As long as tombstones come and go for nobody, keys keep theirs. *)
LEMMA KeysKeepTombstones ==
    ASSUME IInv, UNCHANGED <<idem, created, answered>>,
           \A j \in Ids : tomb'[j] = None <=> tomb[j] = None
    PROVE  KeyInv'
<1>1. KeyInv /\ \A k \in Keys : idem[k] # None => idem[k].job \in Ids
  BY Zenon, FieldsAreTyped DEF IInv
<1>2. \A k \in Keys : idem[k] # None => (tomb'[idem[k].job] = None <=> tomb[idem[k].job] = None)
  BY Zenon, <1>1
<1> QED
  BY Zenon, <1>1, <1>2 DEF KeyInv

(* Within the core the collection keeps its job and the store lock, and     *)
(* what is complete stays so.                                               *)
LEMMA CoreFrame ==
    ASSUME IInv, At("locked"), UNCHANGED <<receipt, spool, op>>,
           \/ coll' = None
           \/ /\ coll'.job = coll.job /\ coll'.pc = coll.pc
              /\ tomb'[coll.job] # None,
           \A j \in Ids : Gone(j) => Gone(j)'
    PROVE  CollInv' /\ OpInv'
<1>1. coll # None /\ coll.pc = "locked" /\ op = None /\ coll.job \in Ids
  BY Zenon, CollectionRuns
<1>2. OpInv'
  BY Zenon, <1>1 DEF OpInv
<1>3. CollInv
  BY Zenon DEF IInv
<1> HIDE DEF Gone
<1>4. CollInv'
  BY Zenon, <1>1, <1>3 DEF CollInv
<1> QED
  BY Zenon, <1>2, <1>4

(* The tombstone of a job enters a phase the rest of its records allow. *)
LEMMA PhaseStep ==
    ASSUME IInv, NEW i \in Ids, NEW q, InPhase(i, q), q # "complete",
           NEW p \in Phases, Advance(i, p),
           p # "prepared" => idem[tomb[i].key].state = "retired",
           job[i] # None => p \in {"prepared", "retired"},
           artifact[i] => p \in {"prepared", "retired", "records_trashed"},
           Counted \/ Between,
           UNCHANGED <<idem, job, artifact, created, answered, receipt, spool, op>>
    PROVE  /\ KeyInv' /\ JobInv' /\ TombInv' /\ CollInv' /\ OpInv'
           /\ tomb' \in [Ids -> {None} \cup Tombstones] /\ coll' \in Collections
<1>1. /\ KeyInv /\ JobInv /\ TombInv /\ tomb \in [Ids -> {None} \cup Tombstones]
  BY Zenon DEF IInv, TypeOK
<1>2. At("locked") /\ coll.job = i /\ tomb[i] # None /\ tomb[i].phase = q
  BY Zenon, PhaseIsOpen
<1>3. /\ tomb' \in [Ids -> {None} \cup Tombstones]
      /\ tomb'[i] # None /\ tomb'[i].phase = p /\ tomb'[i].done = tomb[i].done
      /\ tomb'[i].key = tomb[i].key /\ tomb'[i].payload = tomb[i].payload
      /\ \A other \in Ids : other # i => tomb'[other] = tomb[other]
  BY Zenon, <1>1, <1>2, PhaseAdvances
<1>4. coll \in Collections
  BY Zenon, <1>2, CollectionRuns
<1>5. coll' \in Collections /\ coll'.job = coll.job /\ coll'.pc = coll.pc
  BY Zenon, <1>4, BatchCounts
<1>6. KeyInv'
  <2>1. \A j \in Ids : tomb'[j] = None <=> tomb[j] = None
    BY Zenon, <1>2, <1>3
  <2> QED
    BY Zenon, <2>1, KeysKeepTombstones
<1>7. JobInv'
  BY <1>1, <1>2, <1>3 DEF JobInv
<1>8. TombInv'
  BY <1>1, <1>2, <1>3 DEF TombInv
<1>9. \A j \in Ids : Gone(j) => Gone(j)'
  BY Zenon, <1>2, <1>3 DEF Gone
<1>10. CollInv' /\ OpInv'
  BY Zenon, <1>2, <1>3, <1>5, <1>9, CoreFrame
<1> QED
  BY Zenon, <1>3, <1>5, <1>6, <1>7, <1>8, <1>10

-----------------------------------------------------------------------------
(* A new key is bound to an id nobody uses. *)
LEMMA SubmitNewStep ==
    ASSUME IInv, NEW k \in Keys, NEW p \in Payloads, NEW i \in Ids, SubmitNew(k, p, i)
    PROVE  IInv'
<1>1. /\ idem \in [Keys -> {None} \cup Bindings]
      /\ idem[k] = None /\ i \in Fresh
      /\ idem' = [idem EXCEPT ![k] = [state |-> "reserved", job |-> i, payload |-> p]]
      /\ op' = Submission(k, i, p, TRUE) /\ (coll # None => coll.pc # "locked")
      /\ UNCHANGED <<job, tomb, artifact, coll, created, answered>>
  BY Zenon DEF IInv, TypeOK, SubmitNew, Drawn, LockFree, history
<1>2. /\ idem' \in [Keys -> {None} \cup Bindings] /\ idem'[k] \in Bindings
      /\ idem'[k].state = "reserved" /\ idem'[k].job = i /\ idem'[k].payload = p
      /\ \A other \in Keys : other # k => idem'[other] = idem[other]
  BY Zenon, <1>1 DEF Bindings
<1>3. /\ op' \in Submissions /\ op'.key = k /\ op'.id = i /\ op'.payload = p
      /\ op'.new /\ op'.pc = "index"
  BY Zenon, <1>1 DEF Submission, Submissions
<1>4. /\ job[i] = None /\ tomb[i] = None
      /\ \A other \in Keys : idem[other] = None \/ idem[other].job # i
  BY Zenon, <1>1 DEF Fresh
<1>5. idem'[k] # None
  BY Zenon, <1>2, RecordIsNotNone
<1>6. KeyInv'
  <2>1. KeyInv
    BY Zenon DEF IInv
  <2> QED
    BY <2>1, <1>1, <1>2, <1>4, <1>5 DEF KeyInv
<1>7. JobInv'
  <2>1. JobInv /\ KeyInv
    BY Zenon DEF IInv
  <2> QED
    BY <2>1, <1>1, <1>2, <1>4, <1>5 DEF JobInv, KeyInv
<1>8. TombInv'
  <2>1. TombInv
    BY Zenon DEF IInv
  <2> QED
    BY <2>1, <1>1, <1>2, <1>4, <1>5 DEF TombInv
<1>9. OpInv'
  BY Zenon, <1>1, <1>2, <1>3, <1>4, <1>5 DEF OpInv
<1>10. TypeOK'
  BY Zenon, <1>2, <1>3 DEF IInv, TypeOK, SubmitNew, records, outer, history
<1> QED
  BY Zenon, <1>6, <1>7, <1>8, <1>9, <1>10, RetirementFrame DEF IInv, SubmitNew, records, outer, history

(* A known key is submitted again. *)
LEMMA SubmitKnownStep ==
    ASSUME IInv, NEW k \in Keys, NEW p \in Payloads, SubmitKnown(k, p)
    PROVE  IInv'
<1>1. /\ idem \in [Keys -> {None} \cup Bindings]
      /\ idem[k] # None /\ idem[k].payload = p /\ idem[k].state # "retired"
      /\ op' = Submission(k, idem[k].job, p, job[idem[k].job] = None)
      /\ (coll # None => coll.pc # "locked")
      /\ UNCHANGED <<idem, job, coll>>
  BY Zenon DEF IInv, TypeOK, SubmitKnown, LockFree, records
<1>2. idem[k].job \in Ids
  BY Zenon, <1>1 DEF Bindings
<1>3. /\ op' \in Submissions /\ op'.key = k /\ op'.id = idem[k].job /\ op'.payload = p
      /\ op'.new = (job[idem[k].job] = None) /\ op'.pc = "index"
  BY Zenon, <1>1, <1>2 DEF Submission, Submissions
<1>4. OpInv'
  BY Zenon, <1>1, <1>3 DEF OpInv
<1>5. TypeOK'
  BY Zenon, <1>3 DEF IInv, TypeOK, SubmitKnown, records, outer, history
<1> QED
  BY Zenon, <1>4, <1>5, RetirementFrame DEF IInv, SubmitKnown, records, outer, history

(* A retired key is answered from the tombstone. *)
LEMMA SubmitRetiredStep ==
    ASSUME IInv, NEW k \in Keys, NEW p \in Payloads, SubmitRetired(k, p)
    PROVE  IInv'
<1>1. /\ idem \in [Keys -> {None} \cup Bindings] /\ answered \in [Keys -> SUBSET Ids]
      /\ idem[k] # None /\ idem[k].state = "retired"
      /\ answered' = [answered EXCEPT ![k] = @ \cup {idem[k].job}]
      /\ UNCHANGED <<idem, tomb, created>>
  BY Zenon DEF IInv, TypeOK, SubmitRetired, records
<1>2. idem[k].job \in Ids
  BY Zenon, <1>1 DEF Bindings
<1>3. answered' \in [Keys -> SUBSET Ids]
  BY Zenon, <1>1, <1>2
<1>4. KeyInv'
  <2>1. KeyInv
    BY Zenon DEF IInv
  <2> QED
    BY <2>1, <1>1 DEF KeyInv
<1>5. TypeOK'
  BY Zenon, <1>3 DEF IInv, TypeOK, SubmitRetired, records, outer, history
<1> QED
  BY Zenon, <1>4, <1>5, RetirementFrame DEF IInv, SubmitRetired, records, outer, history

(* The directories of the submitted job are made. *)
LEMMA SubmitIndexStep ==
    ASSUME IInv, SubmitIndex
    PROVE  IInv'
<1>1. /\ op \in Submissions /\ op.id \in Ids /\ op.key \in Keys /\ op.payload \in Payloads
      /\ op.new \in BOOLEAN
  <2>1. op \in {None} \cup Submissions /\ op # None
    BY Zenon DEF IInv, TypeOK, SubmitIndex
  <2> QED
    BY Zenon, <2>1 DEF Submissions
<1>2. /\ dirs \in [Ids -> SUBSET {"events", "index"}] /\ OpInv /\ op # None /\ op.pc = "index"
      /\ dirs' = [dirs EXCEPT ![op.id] = @ \cup {"index"}]
      /\ op' = [op EXCEPT !.pc = "uses"]
      /\ UNCHANGED <<idem, job, coll>>
  BY Zenon DEF IInv, TypeOK, SubmitIndex
<1>3. dirs' \in [Ids -> SUBSET {"events", "index"}]
  BY Zenon, <1>1, <1>2
<1>4. /\ op' \in Submissions /\ op' # None /\ op'.pc = "uses" /\ op'.key = op.key
      /\ op'.id = op.id /\ op'.payload = op.payload /\ op'.new = op.new
  BY Zenon, <1>1, <1>2, SubmissionGoes
<1>5. OpInv'
  BY Zenon, <1>2, <1>4 DEF OpInv
<1>6. TypeOK'
  BY Zenon, <1>3, <1>4 DEF IInv, TypeOK, SubmitIndex, records, outer, history
<1> QED
  BY Zenon, <1>5, <1>6, RetirementFrame DEF IInv, SubmitIndex, records, outer, history

(* A submission whose producers are gone is refused. *)
LEMMA SubmitRefusedStep ==
    ASSUME IInv, SubmitRefused
    PROVE  IInv'
<1>1. TypeOK'
  BY Zenon DEF IInv, TypeOK, SubmitRefused, records, outer, history
<1> QED
  BY Zenon, <1>1, RetirementFrame DEF IInv, SubmitRefused, records, outer, history

(* A record of a use is written. *)
LEMMA SubmitUseStep ==
    ASSUME IInv, NEW a \in Ids, SubmitUse(a)
    PROVE  IInv'
<1>1. /\ op \in Submissions /\ op.id \in Ids /\ op.key \in Keys /\ op.payload \in Payloads
      /\ op.new \in BOOLEAN
  <2>1. op \in {None} \cup Submissions /\ op # None
    BY Zenon DEF IInv, TypeOK, SubmitUse
  <2> QED
    BY Zenon, <2>1 DEF Submissions
<1>2. PICK r \in EdgeRecords : /\ r \notin edge[op.id][a]
                               /\ edge' = [edge EXCEPT ![op.id][a] = @ \cup {r}]
  BY Zenon DEF SubmitUse, First
<1>3. edge \in [Ids -> [Ids -> SUBSET EdgeRecords]] /\ UseInv
  BY Zenon DEF IInv, TypeOK, UseInv
<1>4. edge' \in [Ids -> [Ids -> SUBSET EdgeRecords]]
  BY Zenon, <1>1, <1>2, <1>3
<1>5. \A c, b \in Ids : edge[c][b] = EdgeRecords => edge'[c][b] = EdgeRecords
  BY Zenon, <1>1, <1>2, <1>3
<1>6. UseInv'
  <2>1. UNCHANGED <<job, artifact>>
    BY Zenon DEF SubmitUse
  <2> QED
    BY Zenon, <2>1, <1>3, <1>5, FieldsAreTyped DEF UseInv
<1>7. TypeOK'
  BY Zenon, <1>4 DEF IInv, TypeOK, SubmitUse, records, outer, history
<1> QED
  BY Zenon, <1>6, <1>7, RetirementFrame DEF IInv, SubmitUse, records, outer, history

(* The job record is written, unless it was there. *)
LEMMA SubmitJobStep ==
    ASSUME IInv, SubmitJob
    PROVE  IInv'
<1>1. /\ op \in Submissions /\ op.id \in Ids /\ op.key \in Keys /\ op.payload \in Payloads
      /\ op.new \in BOOLEAN
  <2>1. op \in {None} \cup Submissions /\ op # None
    BY Zenon DEF IInv, TypeOK, SubmitJob
  <2> QED
    BY Zenon, <2>1 DEF Submissions
<1>2. /\ idem \in [Keys -> {None} \cup Bindings]
      /\ job \in [Ids -> {None} \cup Jobs]
      /\ created \in [Keys -> SUBSET Ids]
      /\ op # None /\ op.pc = "uses" /\ UsesRetained(op.payload)
      /\ \A a \in op.payload.uses : edge[op.id][a] = EdgeRecords
      /\ UNCHANGED <<idem, tomb, artifact, edge, coll, answered>>
  BY Zenon DEF IInv, TypeOK, SubmitJob
<1>3. KeyInv /\ JobInv /\ TombInv /\ OpInv /\ UseInv
  BY Zenon DEF IInv
<1>4. /\ idem[op.key] # None /\ idem[op.key].job = op.id /\ idem[op.key].payload = op.payload
      /\ idem[op.key].state # "retired" /\ (coll # None => coll.pc # "locked")
      /\ job[op.id] = None <=> op.new
  BY Zenon, <1>2, <1>3 DEF OpInv
<1>5. CASE ~op.new
  <2>1. UNCHANGED <<job, created>> /\ op' = [op EXCEPT !.pc = "event"]
    BY Zenon, <1>5 DEF SubmitJob
  <2>2. /\ op' \in Submissions /\ op' # None /\ op'.pc = "event" /\ op'.key = op.key
        /\ op'.id = op.id /\ op'.payload = op.payload /\ op'.new = op.new
    BY Zenon, <1>1, <2>1, SubmissionGoes
  <2>3. OpInv'
    BY Zenon, <1>2, <1>4, <1>5, <2>1, <2>2 DEF OpInv
  <2>4. TypeOK'
    BY Zenon, <2>1, <2>2 DEF IInv, TypeOK, SubmitJob, outer
  <2> QED
    BY Zenon, <2>1, <2>3, <2>4, RetirementFrame DEF IInv, SubmitJob, outer
<1>6. CASE op.new
  <2>1. /\ job' = [job EXCEPT ![op.id] = [key |-> op.key, payload |-> op.payload,
                                           done |-> FALSE, hold |-> FALSE, updated |-> 0]]
        /\ created' = [created EXCEPT ![op.key] = @ \cup {op.id}]
        /\ op' = [op EXCEPT !.pc = "commit"]
    BY Zenon, <1>6 DEF SubmitJob
  <2>2. /\ op' \in Submissions /\ op' # None /\ op'.pc = "commit" /\ op'.key = op.key
        /\ op'.id = op.id /\ op'.payload = op.payload /\ op'.new = op.new
    BY Zenon, <1>1, <2>1, SubmissionGoes
  <2>3. /\ job' \in [Ids -> {None} \cup Jobs] /\ job'[op.id] \in Jobs
        /\ job'[op.id].key = op.key /\ job'[op.id].payload = op.payload
        /\ \A i \in Ids : i # op.id => job'[i] = job[i]
    BY Zenon, <1>1, <1>2, <2>1 DEF Jobs
  <2>4. job'[op.id] # None
    BY Zenon, <2>3, RecordIsNotNone
  <2>5. /\ created' \in [Keys -> SUBSET Ids] /\ created'[op.key] = created[op.key] \cup {op.id}
        /\ \A k \in Keys : k # op.key => created'[k] = created[k]
    BY Zenon, <1>1, <1>2, <2>1
  <2>6. tomb[op.id] = None
    <3>1. idem[op.key] \in Bindings
      BY Zenon, <1>1, <1>2, <1>4
    <3>2. CASE idem[op.key].state = "reserved"
      BY <3>2, <1>1, <1>3, <1>4 DEF KeyInv
    <3>3. CASE idem[op.key].state = "committed"
      BY <3>3, <1>1, <1>3, <1>4, <1>6 DEF KeyInv, JobInv
    <3> QED
      BY Zenon, <3>1, <3>2, <3>3, <1>4 DEF Bindings
  <2>7. KeyInv'
    BY <1>1, <1>2, <1>3, <1>4, <2>5 DEF KeyInv
  <2>8. JobInv'
    BY <1>1, <1>2, <1>3, <1>4, <2>3, <2>4, <2>5, FieldsAreTyped DEF JobInv
  <2>9. TombInv'
    BY <1>2, <1>3, <2>3, <2>6 DEF TombInv
  <2>10. OpInv'
    BY Zenon, <1>2, <1>4, <2>2, <2>4 DEF OpInv
  <2>11. UseInv'
    BY Zenon, <1>1, <1>2, <1>3, <2>3 DEF UseInv, UsesRetained
  <2>12. TypeOK'
    BY Zenon, <2>2, <2>3, <2>5 DEF IInv, TypeOK, SubmitJob, outer
  <2> QED
    BY Zenon, <2>7, <2>8, <2>9, <2>10, <2>11, <2>12, RetirementFrame DEF IInv, SubmitJob, outer
<1> QED
  BY Zenon, <1>5, <1>6

(* The key of a written job is committed. *)
LEMMA SubmitCommitStep ==
    ASSUME IInv, SubmitCommit
    PROVE  IInv'
<1>1. /\ op \in Submissions /\ op.id \in Ids /\ op.key \in Keys /\ op.payload \in Payloads
      /\ op.new \in BOOLEAN
  <2>1. op \in {None} \cup Submissions /\ op # None
    BY Zenon DEF IInv, TypeOK, SubmitCommit
  <2> QED
    BY Zenon, <2>1 DEF Submissions
<1>2. /\ idem \in [Keys -> {None} \cup Bindings]
      /\ op # None /\ op.pc = "commit" /\ UNCHANGED <<job, tomb, artifact, coll, created>>
      /\ answered \in [Keys -> SUBSET Ids] /\ created \in [Keys -> SUBSET Ids]
  BY Zenon DEF IInv, TypeOK, SubmitCommit
<1>3. KeyInv /\ JobInv /\ TombInv /\ OpInv
  BY Zenon DEF IInv
<1>4. /\ idem[op.key] # None /\ idem[op.key].job = op.id /\ idem[op.key].payload = op.payload
      /\ idem[op.key].state # "retired" /\ (coll # None => coll.pc # "locked")
      /\ job[op.id] # None
  BY Zenon, <1>2, <1>3 DEF OpInv
<1>5. op.id \in created[op.key]
  BY <1>1, <1>3, <1>4, FieldsAreTyped DEF JobInv, KeyInv
<1>6. /\ idem' \in [Keys -> {None} \cup Bindings] /\ idem'[op.key] # None
      /\ idem'[op.key].job = op.id /\ idem'[op.key].payload = op.payload
      /\ idem'[op.key].state \in {"reserved", "committed"}
      /\ idem[op.key].state # "reserved" => idem'[op.key].state # "reserved"
      /\ \A k \in Keys : k # op.key => idem'[k] = idem[k]
  <2>1. idem[op.key] \in Bindings
    BY Zenon, <1>1, <1>2, <1>4
  <2>2. CASE idem[op.key].state = "reserved"
    <3>1. idem' = [idem EXCEPT ![op.key].state = "committed"]
      BY Zenon, <2>2, <1>1, <1>2 DEF SubmitCommit
    <3> QED
      BY Zenon, <3>1, <1>1, <1>2, <1>4, BindingMoves
  <2>3. CASE idem[op.key].state # "reserved"
    <3>1. idem' = idem
      BY Zenon, <2>3, <1>1, <1>2 DEF SubmitCommit
    <3> QED
      BY Zenon, <3>1, <2>1, <2>3, <1>1, <1>2, <1>4 DEF Bindings
  <2> QED
    BY Zenon, <2>2, <2>3
<1>7. /\ answered' \in [Keys -> SUBSET Ids]
      /\ \A k \in Keys : answered'[k] \subseteq answered[k] \cup (IF k = op.key THEN {op.id} ELSE {})
  <2>1. answered' = answered \/ answered' = [answered EXCEPT ![op.key] = @ \cup {op.id}]
    BY Zenon DEF SubmitCommit, Answer
  <2> QED
    BY <2>1, <1>1, <1>2
<1>8. op' \in {None} \cup Submissions /\ OpInv'
  <2>1. CASE op' = None
    BY Zenon, <2>1 DEF OpInv
  <2>2. CASE op' # None
    <3>1. op' = [op EXCEPT !.pc = "event"]
      BY Zenon, <2>2 DEF SubmitCommit
    <3>2. /\ op' \in Submissions /\ op'.pc = "event" /\ op'.key = op.key
          /\ op'.id = op.id /\ op'.payload = op.payload
      BY Zenon, <1>1, <3>1, SubmissionGoes
    <3> QED
      BY Zenon, <1>2, <1>4, <1>6, <3>2 DEF OpInv
  <2> QED
    BY Zenon, <2>1, <2>2
<1>9. KeyInv'
  BY <1>1, <1>2, <1>3, <1>4, <1>5, <1>6, <1>7 DEF KeyInv
<1>10. JobInv'
  BY <1>1, <1>2, <1>3, <1>4, <1>6, FieldsAreTyped DEF JobInv
<1>11. TombInv'
  BY <1>1, <1>2, <1>3, <1>4, <1>6, FieldsAreTyped DEF TombInv
<1>12. TypeOK'
  BY Zenon, <1>6, <1>7, <1>8 DEF IInv, TypeOK, SubmitCommit, records, outer, history
<1> QED
  BY Zenon, <1>8, <1>9, <1>10, <1>11, <1>12, RetirementFrame DEF IInv, SubmitCommit, records, outer, history

(* The first event of the job is appended. *)
LEMMA SubmitEventStep ==
    ASSUME IInv, SubmitEvent
    PROVE  IInv'
<1>1. /\ op \in Submissions /\ op.id \in Ids /\ op.key \in Keys /\ op.payload \in Payloads
      /\ op.new \in BOOLEAN
  <2>1. op \in {None} \cup Submissions /\ op # None
    BY Zenon DEF IInv, TypeOK, SubmitEvent
  <2> QED
    BY Zenon, <2>1 DEF Submissions
<1>2. /\ idem \in [Keys -> {None} \cup Bindings]
      /\ op # None /\ op.pc = "event" /\ UNCHANGED <<idem, job, tomb, coll, created>>
      /\ answered \in [Keys -> SUBSET Ids] /\ dirs \in [Ids -> SUBSET {"events", "index"}]
      /\ dirs' = [dirs EXCEPT ![op.id] = @ \cup {"events"}]
  BY Zenon DEF IInv, TypeOK, SubmitEvent
<1>3. KeyInv /\ JobInv /\ OpInv
  BY Zenon DEF IInv
<1>4. /\ idem[op.key] # None /\ idem[op.key].job = op.id /\ idem[op.key].payload = op.payload
      /\ idem[op.key].state # "retired" /\ (coll # None => coll.pc # "locked")
      /\ job[op.id] # None
  BY Zenon, <1>2, <1>3 DEF OpInv
<1>5. op.id \in created[op.key]
  BY <1>1, <1>3, <1>4, FieldsAreTyped DEF JobInv, KeyInv
<1>6. /\ answered' \in [Keys -> SUBSET Ids]
      /\ \A k \in Keys : answered'[k] \subseteq answered[k] \cup (IF k = op.key THEN {op.id} ELSE {})
  <2>1. answered' = answered \/ answered' = [answered EXCEPT ![op.key] = @ \cup {op.id}]
    BY Zenon DEF SubmitEvent, Answer
  <2> QED
    BY <2>1, <1>1, <1>2
<1>7. op' \in {None} \cup Submissions /\ OpInv'
  <2>1. CASE op' = None
    BY Zenon, <2>1 DEF OpInv
  <2>2. CASE op' # None
    <3>1. op' = [op EXCEPT !.pc = "commit"]
      BY Zenon, <2>2 DEF SubmitEvent
    <3>2. /\ op' \in Submissions /\ op'.pc = "commit" /\ op'.key = op.key
          /\ op'.id = op.id /\ op'.payload = op.payload
      BY Zenon, <1>1, <3>1, SubmissionGoes
    <3> QED
      BY Zenon, <1>2, <1>4, <3>2 DEF OpInv
  <2> QED
    BY Zenon, <2>1, <2>2
<1>8. KeyInv'
  BY <1>1, <1>2, <1>3, <1>5, <1>6 DEF KeyInv
<1>9. dirs' \in [Ids -> SUBSET {"events", "index"}]
  BY Zenon, <1>1, <1>2
<1>10. TypeOK'
  BY Zenon, <1>6, <1>7, <1>9 DEF IInv, TypeOK, SubmitEvent, records, outer, history
<1> QED
  BY Zenon, <1>7, <1>8, <1>10, RetirementFrame DEF IInv, SubmitEvent, records, outer, history

(* The process of a submission dies. *)
LEMMA CrashSubmitStep ==
    ASSUME IInv, CrashSubmit
    PROVE  IInv'
<1>1. faults' \in Nat
  <2>1. faults \in Nat /\ faults' = faults + 1
    BY Zenon DEF IInv, TypeOK, CrashSubmit, Fault
  <2> QED
    BY <2>1
<1>2. TypeOK'
  BY Zenon, <1>1 DEF IInv, TypeOK, CrashSubmit, records, outer, history
<1> QED
  BY Zenon, <1>2, RetirementFrame DEF IInv, CrashSubmit, records, outer, history

(* A worker starts the job, which makes its spool. *)
LEMMA StartStep ==
    ASSUME IInv, NEW i \in Ids, Start(i)
    PROVE  IInv'
<1>1. /\ guard \in [Ids -> BOOLEAN] /\ spool \in [Ids -> {"absent", "live", "quarantined", "purged"}]
      /\ guard' = [guard EXCEPT ![i] = TRUE] /\ spool' = [spool EXCEPT ![i] = "live"]
      /\ CollInv /\ UNCHANGED <<coll, receipt, tomb>>
  BY Zenon DEF IInv, TypeOK, Start
<1>2. guard' \in [Ids -> BOOLEAN] /\ spool' \in [Ids -> {"absent", "live", "quarantined", "purged"}]
  BY Zenon, <1>1
<1>3. CollInv'
  BY Zenon, <1>1 DEF CollInv, Gone
<1>4. TypeOK'
  BY Zenon, <1>2 DEF IInv, TypeOK, Start, records, outer, history
<1> QED
  BY Zenon, <1>3, <1>4, RetirementFrame DEF IInv, Start, records, outer, history

(* A running job indexes its artifact. *)
LEMMA AppendArtifactStep ==
    ASSUME IInv, NEW i \in Ids, AppendArtifact(i)
    PROVE  IInv'
<1>1. /\ artifact \in [Ids -> BOOLEAN] /\ dirs \in [Ids -> SUBSET {"events", "index"}]
      /\ artifact' = [artifact EXCEPT ![i] = TRUE] /\ job[i] # None
      /\ dirs' = [dirs EXCEPT ![i] = @ \cup {"index", "events"}]
      /\ TombInv /\ UseInv /\ UNCHANGED <<idem, job, tomb, edge>>
  BY Zenon DEF IInv, TypeOK, AppendArtifact, Exists
<1>2. artifact' \in [Ids -> BOOLEAN] /\ dirs' \in [Ids -> SUBSET {"events", "index"}]
  BY Zenon, <1>1
<1>3. TombInv'
  BY <1>1 DEF TombInv
<1>4. UseInv'
  BY Zenon, <1>1, FieldsAreTyped DEF UseInv
<1>5. TypeOK'
  BY Zenon, <1>2 DEF IInv, TypeOK, AppendArtifact, records, outer, history
<1> QED
  BY Zenon, <1>3, <1>4, <1>5, RetirementFrame DEF IInv, AppendArtifact, records, outer, history

(* The job ends. *)
LEMMA FinishStep ==
    ASSUME IInv, NEW i \in Ids, Finish(i)
    PROVE  IInv'
<1>1. /\ KeyInv /\ JobInv /\ TombInv /\ OpInv /\ UseInv
      /\ UNCHANGED <<idem, tomb, created, op, coll, artifact, edge>>
  BY Zenon DEF IInv, TypeOK, Finish, history
<1>2. /\ job' \in [Ids -> {None} \cup Jobs]
      /\ \A other \in Ids :
           /\ (job'[other] = None) <=> (job[other] = None)
           /\ job[other] # None =>
                /\ job'[other].key = job[other].key
                /\ job'[other].payload = job[other].payload
                /\ job[other].done => job'[other].done
  <2>1. /\ job \in [Ids -> {None} \cup Jobs] /\ job[i] # None
        /\ job' = [job EXCEPT ![i].done = TRUE, ![i].updated = @ + 1]
    BY Zenon DEF IInv, TypeOK, Finish, Exists
  <2> QED
    BY Zenon, <2>1, JobEnds
<1>3. JobInv'
  BY <1>1, <1>2 DEF JobInv
<1>4. TombInv'
  BY Zenon, <1>1, <1>2 DEF TombInv
<1>5. OpInv'
  <2>1. op # None => op.id \in Ids
    <3>1. op \in {None} \cup Submissions
      BY Zenon DEF IInv, TypeOK
    <3> QED
      BY Zenon, <3>1 DEF Submissions
  <2> QED
    BY Zenon, <2>1, <1>1, <1>2 DEF OpInv
<1>6. UseInv'
  BY Zenon, <1>1, <1>2 DEF UseInv
<1>7. dirs' \in [Ids -> SUBSET {"events", "index"}]
  <2>1. dirs \in [Ids -> SUBSET {"events", "index"}] /\ dirs' = [dirs EXCEPT ![i] = @ \cup {"events"}]
    BY Zenon DEF IInv, TypeOK, Finish
  <2> QED
    BY Zenon, <2>1
<1>8. TypeOK'
  BY Zenon, <1>2, <1>7 DEF IInv, TypeOK, Finish, records, outer, history
<1> QED
  BY Zenon, <1>3, <1>4, <1>5, <1>6, <1>8, RetirementFrame DEF IInv, Finish, records, outer, history

(* The lease of the job is released. *)
LEMMA ReleaseStep ==
    ASSUME IInv, NEW i \in Ids, Release(i)
    PROVE  IInv'
<1>1. guard' \in [Ids -> BOOLEAN]
  <2>1. guard \in [Ids -> BOOLEAN] /\ guard' = [guard EXCEPT ![i] = FALSE]
    BY Zenon DEF IInv, TypeOK, Release
  <2> QED
    BY Zenon, <2>1
<1>2. TypeOK'
  BY Zenon, <1>1 DEF IInv, TypeOK, Release, records, outer, history
<1> QED
  BY Zenon, <1>2, RetirementFrame DEF IInv, Release, records, outer, history

(* The metadata of the job are updated. *)
LEMMA UpdateMetadataStep ==
    ASSUME IInv, NEW i \in Ids, NEW hold \in BOOLEAN, UpdateMetadata(i, hold)
    PROVE  IInv'
<1>1. /\ KeyInv /\ JobInv /\ TombInv /\ OpInv /\ UseInv
      /\ UNCHANGED <<idem, tomb, created, op, coll, artifact, edge>>
  BY Zenon DEF IInv, TypeOK, UpdateMetadata, history
<1>2. /\ job' \in [Ids -> {None} \cup Jobs]
      /\ \A other \in Ids :
           /\ (job'[other] = None) <=> (job[other] = None)
           /\ job[other] # None =>
                /\ job'[other].key = job[other].key
                /\ job'[other].payload = job[other].payload
                /\ job[other].done => job'[other].done
  <2>1. /\ job \in [Ids -> {None} \cup Jobs] /\ job[i] # None
        /\ job' = [job EXCEPT ![i].hold = hold, ![i].updated = @ + 1]
    BY Zenon DEF IInv, TypeOK, UpdateMetadata, Exists
  <2> QED
    BY Zenon, <2>1, JobIsUpdated
<1>3. JobInv'
  BY <1>1, <1>2 DEF JobInv
<1>4. TombInv'
  BY Zenon, <1>1, <1>2 DEF TombInv
<1>5. OpInv'
  <2>1. op # None => op.id \in Ids
    <3>1. op \in {None} \cup Submissions
      BY Zenon DEF IInv, TypeOK
    <3> QED
      BY Zenon, <3>1 DEF Submissions
  <2> QED
    BY Zenon, <2>1, <1>1, <1>2 DEF OpInv
<1>6. UseInv'
  BY Zenon, <1>1, <1>2 DEF UseInv
<1>7. faults' \in Nat
  <2>1. faults \in Nat /\ faults' = faults + 1
    BY Zenon DEF IInv, TypeOK, UpdateMetadata, Fault
  <2> QED
    BY <2>1
<1>8. TypeOK'
  BY Zenon, <1>2, <1>7 DEF IInv, TypeOK, UpdateMetadata, records, outer, history
<1> QED
  BY Zenon, <1>3, <1>4, <1>5, <1>6, <1>8, RetirementFrame DEF IInv, UpdateMetadata, records, outer, history

(* A late event is appended. *)
LEMMA AppendEventStep ==
    ASSUME IInv, NEW i \in Ids, AppendEvent(i)
    PROVE  IInv'
<1>1. dirs' \in [Ids -> SUBSET {"events", "index"}]
  <2>1. dirs \in [Ids -> SUBSET {"events", "index"}] /\ dirs' = [dirs EXCEPT ![i] = @ \cup {"events"}]
    BY Zenon DEF IInv, TypeOK, AppendEvent
  <2> QED
    BY Zenon, <2>1
<1>2. faults' \in Nat
  <2>1. faults \in Nat /\ faults' = faults + 1
    BY Zenon DEF IInv, TypeOK, AppendEvent, Fault
  <2> QED
    BY <2>1
<1>3. TypeOK'
  BY Zenon, <1>1, <1>2 DEF IInv, TypeOK, AppendEvent, records, outer, history
<1> QED
  BY Zenon, <1>3, RetirementFrame DEF IInv, AppendEvent, records, outer, history

(* The coordinator begins, or resumes where the receipt says. *)
LEMMA CollectBeginStep ==
    ASSUME IInv, NEW i \in Ids, CollectBegin(i)
    PROVE  IInv'
<1>1. CollInv /\ receipt \in [Ids -> {None} \cup Receipts] /\ UNCHANGED <<tomb, spool>>
  BY Zenon DEF IInv, TypeOK, CollectBegin, records
<1>2. /\ receipt' \in [Ids -> {None} \cup Receipts] /\ receipt'[i] # None /\ receipt'[i].phase # "complete"
      /\ receipt[i] = None => receipt'[i].phase = "prepared"
      /\ receipt[i] # None => receipt' = receipt
      /\ \A other \in Ids : other # i => receipt'[other] = receipt[other]
  <2>1. CASE receipt[i] = None
    <3>1. Snapshot(i) \in Nat
      <4>1. CASE tomb[i] # None
        <5>1. tomb \in [Ids -> {None} \cup Tombstones]
          BY Zenon DEF IInv, TypeOK
        <5> QED
          BY Zenon, <4>1, <5>1 DEF Snapshot, Tombstones
      <4>2. CASE tomb[i] = None
        <5>1. job \in [Ids -> {None} \cup Jobs] /\ job[i] # None
          BY Zenon, <4>2 DEF IInv, TypeOK, CollectBegin, Eligible, CoreEligible
        <5> QED
          BY Zenon, <4>2, <5>1 DEF Snapshot, Jobs
      <4> QED
        BY Zenon, <4>1, <4>2
    <3> DEFINE r == [phase |-> "prepared", updated |-> Snapshot(i), existed |-> spool[i] = "live"]
    <3>2. r \in Receipts /\ r.phase = "prepared"
      BY Zenon, <3>1 DEF Receipts, ReceiptPhases
    <3>3. receipt' = [receipt EXCEPT ![i] = r]
      BY Zenon, <2>1 DEF CollectBegin
    <3>4. r # None
      BY Zenon, <3>2, RecordIsNotNone
    <3> HIDE DEF r
    <3> QED
      BY Zenon, <1>1, <2>1, <3>2, <3>3, <3>4
  <2>2. CASE receipt[i] # None
    <3>1. receipt' = receipt /\ receipt[i].phase # "complete"
      BY Zenon, <2>2 DEF CollectBegin
    <3> QED
      BY Zenon, <1>1, <2>2, <3>1
  <2> QED
    BY Zenon, <2>1, <2>2
<1>3. PICK pc : /\ coll' = [job |-> i, pc |-> pc, yields |-> FALSE]
                /\ \/ receipt[i] = None /\ pc = "quarantine"
                   \/ receipt[i] # None /\ pc = ResumeAt(receipt[i].phase)
  BY Zenon DEF CollectBegin
<1>4. /\ pc \in {"quarantine", "plan", "purging", "purge"}
      /\ pc \in {"purging", "purge"} =>
           receipt[i] # None /\ receipt[i].phase \in {"core_complete", "purging"}
  <2>1. CASE receipt[i] = None
    BY Zenon, <2>1, <1>3
  <2>2. CASE receipt[i] # None
    <3>1. receipt[i].phase \in ReceiptPhases /\ receipt[i].phase # "complete"
      BY Zenon, <2>2, <1>1, <1>2 DEF Receipts
    <3> QED
      BY Zenon, <2>2, <3>1, <1>3 DEF ResumeAt, ReceiptPhases
  <2> QED
    BY Zenon, <2>1, <2>2
<1>5. /\ coll' \in Collections /\ coll'.job = i /\ coll'.pc = pc
  BY Zenon, <1>3, <1>4 DEF Collections
<1>6. CollInv'
  BY Zenon, <1>1, <1>2, <1>4, <1>5 DEF CollInv, Gone
<1>7. coll'.pc # "locked"
  BY Zenon, <1>4, <1>5
<1>8. TypeOK'
  BY Zenon, <1>2, <1>5 DEF IInv, TypeOK, CollectBegin, records, outer, history
<1> QED
  BY Zenon, <1>6, <1>7, <1>8, RetirementFrame DEF IInv, CollectBegin, records, outer, history

(* The spool is renamed into quarantine. *)
LEMMA QuarantineStep ==
    ASSUME IInv, Quarantine
    PROVE  IInv'
<1>1. /\ coll \in Collections /\ coll # None /\ coll.pc = "quarantine" /\ coll.job \in Ids
      /\ receipt[coll.job] \in Receipts /\ receipt[coll.job] # None
  <2>1. At("quarantine")
    BY Zenon DEF Quarantine
  <2> QED
    BY Zenon, <2>1, CollectionRuns
<1>2. CollInv /\ spool \in [Ids -> {"absent", "live", "quarantined", "purged"}] /\ UNCHANGED <<receipt, tomb>>
  BY Zenon DEF IInv, TypeOK, Quarantine, records
<1>3. spool' = spool \/ spool' = [spool EXCEPT ![coll.job] = "quarantined"]
  BY Zenon DEF Quarantine
<1>4. /\ spool' \in [Ids -> {"absent", "live", "quarantined", "purged"}]
      /\ \A i \in Ids : spool'[i] = "purged" => spool[i] = "purged"
  BY Zenon, <1>1, <1>2, <1>3
<1>5. \/ coll' = None
      \/ coll' \in Collections /\ coll'.job = coll.job /\ coll'.pc = "quarantined"
  <2>1. coll' = None \/ Goto("quarantined")
    BY Zenon DEF Quarantine
  <2> QED
    BY Zenon, <2>1, <1>1, CollectionGoes
<1>6. CollInv'
  BY Zenon, <1>1, <1>2, <1>4, <1>5 DEF CollInv, Gone
<1>7. OpInv'
  <2>1. OpInv /\ UNCHANGED <<op, idem, job>>
    BY Zenon DEF IInv, Quarantine, records
  <2> QED
    BY Zenon, <2>1, <1>5 DEF OpInv
<1>8. TypeOK'
  BY Zenon, <1>4, <1>5 DEF IInv, TypeOK, Quarantine, records, outer, history
<1> QED
  BY Zenon, <1>6, <1>7, <1>8, RetirementFrame DEF IInv, Quarantine, records, outer, history

(* The receipt says that the spool is in quarantine. *)
LEMMA MarkQuarantinedStep ==
    ASSUME IInv, MarkQuarantined
    PROVE  IInv'
<1>1. /\ coll \in Collections /\ coll # None /\ coll.pc = "quarantined" /\ coll.job \in Ids
      /\ receipt[coll.job] \in Receipts /\ receipt[coll.job] # None
  <2>1. At("quarantined")
    BY Zenon DEF MarkQuarantined
  <2> QED
    BY Zenon, <2>1, CollectionRuns
<1>2. CollInv /\ receipt \in [Ids -> {None} \cup Receipts] /\ UNCHANGED <<spool, tomb>>
  BY Zenon DEF IInv, TypeOK, MarkQuarantined, records
<1>3. /\ receipt' \in [Ids -> {None} \cup Receipts] /\ receipt'[coll.job] # None
      /\ receipt'[coll.job].phase = "quarantined"
      /\ \A i \in Ids : i # coll.job => receipt'[i] = receipt[i]
  <2>1. MarkReceipt(coll.job, "quarantined") /\ "quarantined" \in ReceiptPhases
    BY Zenon DEF MarkQuarantined, ReceiptPhases
  <2> QED
    BY Zenon, <2>1, <1>1, <1>2, ReceiptAdvances
<1>4. coll' \in Collections /\ coll'.job = coll.job /\ coll'.pc = "plan"
  <2>1. Goto("plan")
    BY Zenon DEF MarkQuarantined
  <2> QED
    BY Zenon, <2>1, <1>1, CollectionGoes
<1>5. CollInv'
  BY Zenon, <1>1, <1>2, <1>3, <1>4 DEF CollInv, Gone
<1>6. coll'.pc # "locked"
  BY Zenon, <1>4
<1>7. TypeOK'
  BY Zenon, <1>3, <1>4 DEF IInv, TypeOK, MarkQuarantined, records, outer, history
<1> QED
  BY Zenon, <1>5, <1>6, <1>7, RetirementFrame DEF IInv, MarkQuarantined, records, outer, history

(* The core collection is planned again. *)
LEMMA PlanCoreStep ==
    ASSUME IInv, PlanCore
    PROVE  IInv'
<1>1. /\ coll \in Collections /\ coll # None /\ coll.pc = "plan" /\ coll.job \in Ids
      /\ receipt[coll.job] \in Receipts /\ receipt[coll.job] # None
  <2>1. At("plan")
    BY Zenon DEF PlanCore
  <2> QED
    BY Zenon, <2>1, CollectionRuns
<1>2. CollInv /\ UNCHANGED <<receipt, spool, tomb>>
  BY Zenon DEF IInv, TypeOK, PlanCore, records, outer
<1>3. \/ coll' = None
      \/ coll' \in Collections /\ coll'.job = coll.job /\ coll'.pc = "core"
  <2>1. coll' = None \/ Goto("core")
    BY Zenon DEF PlanCore
  <2> QED
    BY Zenon, <2>1, <1>1, CollectionGoes
<1>4. CollInv'
  BY Zenon, <1>1, <1>2, <1>3 DEF CollInv, Gone
<1>5. OpInv'
  <2>1. OpInv /\ UNCHANGED <<op, idem, job>>
    BY Zenon DEF IInv, PlanCore, records
  <2> QED
    BY Zenon, <2>1, <1>3 DEF OpInv
<1>6. TypeOK'
  BY Zenon, <1>3 DEF IInv, TypeOK, PlanCore, records, outer, history
<1> QED
  BY Zenon, <1>4, <1>5, <1>6, RetirementFrame DEF IInv, PlanCore, records, outer, history

(* The core collection takes the store lock. *)
LEMMA EnterCoreStep ==
    ASSUME IInv, EnterCore
    PROVE  IInv'
<1>1. /\ coll \in Collections /\ coll # None /\ coll.pc = "core" /\ coll.job \in Ids
      /\ receipt[coll.job] \in Receipts /\ receipt[coll.job] # None
  <2>1. At("core")
    BY Zenon DEF EnterCore
  <2> QED
    BY Zenon, <2>1, CollectionRuns
<1>2. CollInv /\ op = None /\ op' = op /\ UNCHANGED <<receipt, spool, tomb>>
  BY Zenon DEF IInv, TypeOK, EnterCore, LockFree, records, outer
<1>3. /\ coll' \in Collections /\ coll'.job = coll.job /\ coll'.pc = "locked"
      /\ ~coll'.yields
  <2>1. coll' = [coll EXCEPT !.pc = "locked", !.yields = FALSE]
    BY Zenon DEF EnterCore
  <2> QED
    BY Zenon, <2>1, <1>1 DEF Collections
<1>4. CollInv'
  BY Zenon, <1>1, <1>2, <1>3 DEF CollInv, Gone
<1>5. op' = None
  BY Zenon, <1>2
<1>6. TypeOK'
  BY Zenon, <1>3 DEF IInv, TypeOK, EnterCore, records, outer, history
<1> QED
  BY Zenon, <1>4, <1>5, <1>6, RetirementFrame DEF IInv, EnterCore, records, outer, history

(* The tombstone is written for a job that is still eligible. *)
LEMMA GcPrepareStep ==
    ASSUME IInv, NEW i \in Ids, GcPrepare(i)
    PROVE  IInv'
<1>1. At("locked") /\ coll.job = i /\ tomb[i] = None /\ UNCHANGED <<receipt, spool, op>>
  BY Zenon DEF GcPrepare, outer
<1>2. coll \in Collections
  BY Zenon, <1>1, CollectionRuns
<1>3. CASE ~StillEligible(i)
  <2>1. coll' = None /\ UNCHANGED tomb
    BY Zenon, <1>3 DEF GcPrepare, GiveUp
  <2>2. TypeOK'
    BY Zenon, <2>1 DEF IInv, TypeOK, GcPrepare, outer, history
  <2>3. op' = None
    BY Zenon, <1>1, CollectionRuns
  <2> QED
    BY Zenon, <2>1, <2>2, <2>3, RetirementFrame DEF IInv, GcPrepare, outer, history
<1>4. CASE StillEligible(i)
  <2>1. /\ tomb' = [tomb EXCEPT ![i] = [phase |-> "prepared", started |-> FALSE,
                                         updated |-> job[i].updated, done |-> job[i].done,
                                         key |-> job[i].key, payload |-> job[i].payload]]
        /\ Counted /\ UNCHANGED <<idem, job, artifact, created, answered>>
    BY Zenon, <1>4 DEF GcPrepare, history
  <2>2. /\ job[i] # None /\ job[i].done = TRUE
        /\ idem[job[i].key].state = "committed" /\ idem[job[i].key].job = i
    <3>1. job[i] # None /\ job[i].done /\ Committed(i)
      BY Zenon, <1>4 DEF StillEligible, Protected
    <3>2. job \in [Ids -> {None} \cup Jobs]
      BY Zenon DEF IInv, TypeOK
    <3> QED
      BY Zenon, <3>1, <3>2 DEF Committed, Jobs
  <2>3. job[i] \in Jobs
    <3>1. job \in [Ids -> {None} \cup Jobs]
      BY Zenon DEF IInv, TypeOK
    <3> QED
      BY Zenon, <2>2, <3>1
  <2> DEFINE r == [phase |-> "prepared", started |-> FALSE,
                   updated |-> job[i].updated, done |-> job[i].done,
                   key |-> job[i].key, payload |-> job[i].payload]
  <2>4. /\ r \in Tombstones /\ r.phase = "prepared" /\ r.done /\ r.key = job[i].key
        /\ r.payload = job[i].payload
    BY Zenon, <2>2, <2>3 DEF Jobs, Tombstones, Phases
  <2>5. r # None
    BY Zenon, <2>4, RecordIsNotNone
  <2>6. tomb' = [tomb EXCEPT ![i] = r]
    BY Zenon, <2>1
  <2> HIDE DEF r
  <2>7. tomb \in [Ids -> {None} \cup Tombstones] /\ KeyInv /\ JobInv /\ TombInv
    BY Zenon DEF IInv, TypeOK
  <2>8. /\ tomb' \in [Ids -> {None} \cup Tombstones]
        /\ tomb'[i] # None /\ tomb'[i].phase = "prepared" /\ tomb'[i].done
        /\ tomb'[i].key = job[i].key /\ tomb'[i].payload = job[i].payload
        /\ \A other \in Ids : other # i => tomb'[other] = tomb[other]
    BY Zenon, <2>4, <2>5, <2>6, <2>7
  <2>9. KeyInv'
    <3>1. job[i].key \in Keys
      BY Zenon, <2>3 DEF Jobs
    <3>2. idem[job[i].key] # None
      BY Zenon, <2>2, <2>7 DEF JobInv
    <3>3. \A k \in Keys : idem[k] # None /\ idem[k].job = i => idem[k].state = "committed"
      BY <2>2, <2>7, <3>1, <3>2 DEF KeyInv
    <3> QED
      BY <2>1, <2>7, <2>8, <3>3, FieldsAreTyped DEF KeyInv
  <2>10. JobInv'
    BY <1>1, <2>1, <2>7, <2>8 DEF JobInv
  <2>11. TombInv'
    BY <1>1, <2>1, <2>2, <2>7, <2>8 DEF TombInv, JobInv
  <2>12. coll' \in Collections /\ coll'.job = coll.job /\ coll'.pc = coll.pc
    BY Zenon, <1>2, <2>1, BatchCounts
  <2>13. \A j \in Ids : Gone(j) => Gone(j)'
    BY Zenon, <1>1, <2>8 DEF Gone
  <2>14. CollInv' /\ OpInv'
    BY Zenon, <1>1, <2>8, <2>12, <2>13, CoreFrame
  <2>15. TypeOK'
    BY Zenon, <2>8, <2>12 DEF IInv, TypeOK, GcPrepare, outer, history
  <2> QED
    BY Zenon, <2>9, <2>10, <2>11, <2>14, <2>15, RetirementFrame DEF IInv, GcPrepare, outer, history
<1> QED
  BY Zenon, <1>3, <1>4

(* The key of the job is retired. *)
LEMMA GcRetireKeyStep ==
    ASSUME IInv, NEW i \in Ids, GcRetireKey(i)
    PROVE  IInv'
<1>1. InPhase(i, "prepared") /\ UNCHANGED <<receipt, spool, op>>
  BY Zenon DEF GcRetireKey, outer
<1>2. /\ At("locked") /\ coll.job = i /\ tomb[i] # None
      /\ tomb[i].phase = "prepared" /\ tomb[i].key \in Keys
  BY Zenon, <1>1, PhaseIsOpen
<1>3. coll \in Collections /\ op = None
  BY Zenon, <1>2, CollectionRuns
<1>4. CASE ~(Matches(tomb[i].key, i) /\ idem[tomb[i].key].state = "committed")
  <2>1. coll' = None /\ UNCHANGED idem
    BY Zenon, <1>4 DEF GcRetireKey, GiveUp
  <2>2. TypeOK'
    BY Zenon, <2>1 DEF IInv, TypeOK, GcRetireKey, outer, history
  <2> QED
    BY Zenon, <1>1, <1>3, <2>1, <2>2, RetirementFrame DEF IInv, GcRetireKey, outer, history
<1>5. CASE Matches(tomb[i].key, i) /\ idem[tomb[i].key].state = "committed"
  <2> DEFINE k == tomb[i].key
  <2>1. /\ idem' = [idem EXCEPT ![k].state = "retired"] /\ Between
        /\ UNCHANGED <<job, tomb, artifact, created, answered>>
    BY Zenon, <1>5 DEF GcRetireKey, history
  <2>2. /\ idem \in [Keys -> {None} \cup Bindings] /\ KeyInv /\ JobInv /\ TombInv
    BY Zenon DEF IInv, TypeOK
  <2>3. idem[k] # None /\ idem[k].job = i /\ idem[k].state = "committed"
    BY Zenon, <1>5 DEF Matches
  <2> HIDE DEF k
  <2>4. k \in Keys
    BY Zenon, <1>2 DEF k
  <2>5. /\ idem' \in [Keys -> {None} \cup Bindings]
        /\ idem'[k] # None /\ idem'[k].state = "retired"
        /\ idem'[k].job = idem[k].job /\ idem'[k].payload = idem[k].payload
        /\ \A other \in Keys : other # k => idem'[other] = idem[other]
    BY Zenon, <2>1, <2>2, <2>3, <2>4, BindingMoves
  <2>6. KeyInv'
    BY <1>2, <2>1, <2>2, <2>3, <2>4, <2>5 DEF KeyInv
  <2>7. JobInv'
    BY <2>1, <2>2, <2>5, FieldsAreTyped DEF JobInv
  <2>8. TombInv'
    BY <2>1, <2>2, <2>5, FieldsAreTyped DEF TombInv
  <2>9. coll' \in Collections /\ coll'.job = coll.job /\ coll'.pc = coll.pc
    BY Zenon, <1>3, <2>1, BatchCounts
  <2>10. \A j \in Ids : Gone(j) => Gone(j)'
    BY Zenon, <2>1 DEF Gone
  <2>11. tomb'[coll.job] # None
    BY Zenon, <1>2, <2>1
  <2>12. CollInv' /\ OpInv'
    BY Zenon, <1>1, <1>2, <2>9, <2>10, <2>11, CoreFrame
  <2>13. TypeOK'
    BY Zenon, <2>5, <2>9 DEF IInv, TypeOK, GcRetireKey, outer, history
  <2> QED
    BY Zenon, <2>6, <2>7, <2>8, <2>12, <2>13, RetirementFrame DEF IInv, GcRetireKey, outer, history
<1> QED
  BY Zenon, <1>4, <1>5

(* The tombstone follows the retired key. *)
LEMMA GcKeyRetiredStep ==
    ASSUME IInv, NEW i \in Ids, GcKeyRetired(i)
    PROVE  IInv'
<1>1. /\ InPhase(i, "prepared") /\ Advance(i, "retired") /\ (Counted \/ Between)
      /\ TombInv /\ UNCHANGED <<idem, job, artifact, created, answered, receipt, spool, op>>
  BY Zenon DEF IInv, GcKeyRetired, outer, history
<1>2. tomb[i] # None /\ tomb[i].phase = "prepared" /\ "retired" \in Phases
  <2>1. "retired" \in Phases
    BY Zenon DEF Phases
  <2> QED
    BY Zenon, <2>1, <1>1, PhaseIsOpen
<1>3. /\ idem[tomb[i].key].state = "retired"
      /\ job[i] # None => "retired" \in {"prepared", "retired"}
      /\ artifact[i] => "retired" \in {"prepared", "retired", "records_trashed"}
  BY Zenon, <1>1, <1>2 DEF GcKeyRetired, TombInv
<1>4. /\ KeyInv' /\ JobInv' /\ TombInv' /\ CollInv' /\ OpInv'
      /\ tomb' \in [Ids -> {None} \cup Tombstones] /\ coll' \in Collections
  BY Zenon, <1>1, <1>2, <1>3, PhaseStep
<1>5. TypeOK'
  BY Zenon, <1>4 DEF IInv, TypeOK, GcKeyRetired, records, outer, history
<1> QED
  BY Zenon, <1>4, <1>5, RetirementFrame DEF IInv, GcKeyRetired, records, outer, history

(* The protections are read for the last time. *)
LEMMA GcStartTrashStep ==
    ASSUME IInv, NEW i \in Ids, GcStartTrash(i)
    PROVE  IInv'
<1>1. InPhase(i, "retired") /\ UNCHANGED <<receipt, spool, op>>
  BY Zenon DEF GcStartTrash, outer
<1>2. /\ At("locked") /\ coll.job = i /\ tomb[i] # None
  BY Zenon, <1>1, PhaseIsOpen
<1>3. coll \in Collections /\ op = None
  BY Zenon, <1>2, CollectionRuns
<1>4. CASE coll' = None /\ UNCHANGED tomb
  <2>1. TypeOK'
    BY Zenon, <1>4 DEF IInv, TypeOK, GcStartTrash, outer, history
  <2> QED
    BY Zenon, <1>1, <1>3, <1>4, <2>1, RetirementFrame DEF IInv, GcStartTrash, outer, history
<1>5. CASE tomb' = [tomb EXCEPT ![i].started = TRUE] /\ Counted
  <2>1. /\ tomb \in [Ids -> {None} \cup Tombstones] /\ KeyInv /\ JobInv /\ TombInv
        /\ UNCHANGED <<idem, job, artifact, created, answered>>
    BY Zenon DEF IInv, TypeOK, GcStartTrash, history
  <2>2. /\ tomb' \in [Ids -> {None} \cup Tombstones]
        /\ tomb'[i] # None /\ tomb'[i].phase = tomb[i].phase /\ tomb'[i].done = tomb[i].done
        /\ tomb'[i].key = tomb[i].key /\ tomb'[i].payload = tomb[i].payload
        /\ \A other \in Ids : other # i => tomb'[other] = tomb[other]
    BY Zenon, <1>2, <1>5, <2>1, TrashStarts
  <2>3. KeyInv'
    <3>1. \A j \in Ids : tomb'[j] = None <=> tomb[j] = None
      BY Zenon, <1>2, <2>2
    <3> QED
      BY Zenon, <2>1, <3>1, KeysKeepTombstones
  <2>4. JobInv'
    BY <1>2, <2>1, <2>2 DEF JobInv
  <2>5. TombInv'
    BY <1>2, <2>1, <2>2 DEF TombInv
  <2>6. coll' \in Collections /\ coll'.job = coll.job /\ coll'.pc = coll.pc
    BY Zenon, <1>3, <1>5, BatchCounts
  <2>7. \A j \in Ids : Gone(j) => Gone(j)'
    BY Zenon, <1>2, <2>2 DEF Gone
  <2>8. CollInv' /\ OpInv'
    BY Zenon, <1>1, <1>2, <2>2, <2>6, <2>7, CoreFrame
  <2>9. TypeOK'
    BY Zenon, <2>2, <2>6 DEF IInv, TypeOK, GcStartTrash, outer, history
  <2> QED
    BY Zenon, <2>3, <2>4, <2>5, <2>8, <2>9, RetirementFrame DEF IInv, GcStartTrash, outer, history
<1> QED
  BY Zenon, <1>4, <1>5 DEF GcStartTrash, GiveUp

(* The records of the job have left the queue. *)
LEMMA GcRootsMovedStep ==
    ASSUME IInv, NEW i \in Ids, GcRootsMoved(i)
    PROVE  IInv'
<1>1. /\ InPhase(i, "retired") /\ Advance(i, "records_trashed") /\ (Counted \/ Between)
      /\ TombInv /\ UNCHANGED <<idem, job, artifact, created, answered, receipt, spool, op>>
  BY Zenon DEF IInv, GcRootsMoved, outer, history
<1>2. tomb[i] # None /\ tomb[i].phase = "retired" /\ "records_trashed" \in Phases
  <2>1. "records_trashed" \in Phases
    BY Zenon DEF Phases
  <2> QED
    BY Zenon, <2>1, <1>1, PhaseIsOpen
<1>3. /\ idem[tomb[i].key].state = "retired"
      /\ job[i] # None => "records_trashed" \in {"prepared", "retired"}
      /\ artifact[i] => "records_trashed" \in {"prepared", "retired", "records_trashed"}
  <2>1. Left(i) = {}
    BY Zenon DEF GcRootsMoved
  <2>2. "job" \in Roots
    BY Zenon DEF Roots
  <2>3. job[i] = None
    BY Zenon, <2>1, <2>2 DEF Left, Present
  <2> QED
    BY Zenon, <1>1, <1>2, <2>3 DEF TombInv
<1>4. /\ KeyInv' /\ JobInv' /\ TombInv' /\ CollInv' /\ OpInv'
      /\ tomb' \in [Ids -> {None} \cup Tombstones] /\ coll' \in Collections
  BY Zenon, <1>1, <1>2, <1>3, PhaseStep
<1>5. TypeOK'
  BY Zenon, <1>4 DEF IInv, TypeOK, GcRootsMoved, records, outer, history
<1> QED
  BY Zenon, <1>4, <1>5, RetirementFrame DEF IInv, GcRootsMoved, records, outer, history

(* The references of the job are gone. *)
LEMMA GcReferencesTrashedStep ==
    ASSUME IInv, NEW i \in Ids, GcReferencesTrashed(i)
    PROVE  IInv'
<1>1. /\ InPhase(i, "records_trashed") /\ Advance(i, "references_trashed") /\ (Counted \/ Between)
      /\ TombInv /\ UNCHANGED <<idem, job, artifact, created, answered, receipt, spool, op>>
  BY Zenon DEF IInv, GcReferencesTrashed, outer, history
<1>2. tomb[i] # None /\ tomb[i].phase = "records_trashed" /\ "references_trashed" \in Phases
  <2>1. "references_trashed" \in Phases
    BY Zenon DEF Phases
  <2> QED
    BY Zenon, <2>1, <1>1, PhaseIsOpen
<1>3. /\ idem[tomb[i].key].state = "retired"
      /\ job[i] # None => "references_trashed" \in {"prepared", "retired"}
      /\ artifact[i] => "references_trashed" \in {"prepared", "retired", "records_trashed"}
  <2>1. ~artifact[i]
    BY Zenon DEF GcReferencesTrashed
  <2> QED
    BY Zenon, <1>1, <1>2, <2>1 DEF TombInv
<1>4. /\ KeyInv' /\ JobInv' /\ TombInv' /\ CollInv' /\ OpInv'
      /\ tomb' \in [Ids -> {None} \cup Tombstones] /\ coll' \in Collections
  BY Zenon, <1>1, <1>2, <1>3, PhaseStep
<1>5. TypeOK'
  BY Zenon, <1>4 DEF IInv, TypeOK, GcReferencesTrashed, records, outer, history
<1> QED
  BY Zenon, <1>4, <1>5, RetirementFrame DEF IInv, GcReferencesTrashed, records, outer, history

(* The purge begins. *)
LEMMA GcPurgingStep ==
    ASSUME IInv, NEW i \in Ids, GcPurging(i)
    PROVE  IInv'
<1>1. /\ InPhase(i, "references_trashed") /\ Advance(i, "purging") /\ (Counted \/ Between)
      /\ TombInv /\ UNCHANGED <<idem, job, artifact, created, answered, receipt, spool, op>>
  BY Zenon DEF IInv, GcPurging, outer, history
<1>2. tomb[i] # None /\ tomb[i].phase = "references_trashed" /\ "purging" \in Phases
  <2>1. "purging" \in Phases
    BY Zenon DEF Phases
  <2> QED
    BY Zenon, <2>1, <1>1, PhaseIsOpen
<1>3. /\ idem[tomb[i].key].state = "retired"
      /\ job[i] # None => "purging" \in {"prepared", "retired"}
      /\ artifact[i] => "purging" \in {"prepared", "retired", "records_trashed"}
  BY Zenon, <1>1, <1>2 DEF TombInv
<1>4. /\ KeyInv' /\ JobInv' /\ TombInv' /\ CollInv' /\ OpInv'
      /\ tomb' \in [Ids -> {None} \cup Tombstones] /\ coll' \in Collections
  BY Zenon, <1>1, <1>2, <1>3, PhaseStep
<1>5. TypeOK'
  BY Zenon, <1>4 DEF IInv, TypeOK, GcPurging, records, outer, history
<1> QED
  BY Zenon, <1>4, <1>5, RetirementFrame DEF IInv, GcPurging, records, outer, history

(* A record of the job is moved to the trash. *)
LEMMA GcMoveRootStep ==
    ASSUME IInv, NEW i \in Ids, GcMoveRoot(i)
    PROVE  IInv'
<1>1. /\ InPhase(i, "retired") /\ job \in [Ids -> {None} \cup Jobs]
      /\ dirs \in [Ids -> SUBSET {"events", "index"}] /\ trash \in [Ids -> SUBSET Roots]
      /\ UNCHANGED <<idem, artifact, edge, tomb, created, answered, receipt, spool, op>>
  BY Zenon DEF IInv, TypeOK, GcMoveRoot, outer, history
<1>2. /\ At("locked") /\ coll.job = i /\ tomb[i] # None
      /\ tomb[i].phase = "retired" /\ tomb[i].key \in Keys
  BY Zenon, <1>1, PhaseIsOpen
<1>3. coll \in Collections
  BY Zenon, <1>2, CollectionRuns
<1>4. PICK root \in Roots :
        IF Movable(i, root)
        THEN /\ trash' = [trash EXCEPT ![i] = @ \cup {root}]
             /\ IF root = "job"
                THEN job' = [job EXCEPT ![i] = None] /\ UNCHANGED dirs
                ELSE dirs' = [dirs EXCEPT ![i] = @ \ {root}] /\ UNCHANGED job
             /\ coll' = [coll EXCEPT !.yields = Left(i) # {root}]
        ELSE GiveUp /\ UNCHANGED <<job, dirs, trash>>
  BY Zenon DEF GcMoveRoot
<1>5. /\ trash' \in [Ids -> SUBSET Roots] /\ job' \in [Ids -> {None} \cup Jobs]
      /\ dirs' \in [Ids -> SUBSET {"events", "index"}]
  BY <1>1, <1>4
<1>6. \/ coll' = None
      \/ coll' \in Collections /\ coll'.job = coll.job /\ coll'.pc = coll.pc
  <2> DEFINE b == Left(i) # {root}
  <2>1. \/ coll' = None \/ coll' = [coll EXCEPT !.yields = b]
    BY Zenon, <1>4 DEF GiveUp
  <2>2. b \in BOOLEAN
    BY Zenon
  <2> HIDE DEF b
  <2> QED
    BY Zenon, <1>3, <2>1, <2>2, BatchGoes
<1>7. /\ \A other \in Ids : other # i => job'[other] = job[other]
      /\ job'[i] = job[i] \/ job'[i] = None
  BY Zenon, <1>1, <1>4
<1>8. KeyInv /\ JobInv /\ TombInv /\ UseInv
  BY Zenon DEF IInv
<1>9. JobInv'
  <2>1. /\ idem[tomb[i].key] # None /\ idem[tomb[i].key].job = i
        /\ idem[tomb[i].key].state = "retired"
    BY Zenon, <1>2, <1>8 DEF TombInv
  <2>2. \A k \in Keys : i \in created[k] => idem[k].state = "retired"
    BY <1>2, <1>8, <2>1 DEF KeyInv
  <2> QED
    BY <1>1, <1>2, <1>7, <1>8, <2>2 DEF JobInv
<1>10. TombInv'
  BY <1>1, <1>7, <1>8 DEF TombInv
<1>11. UseInv'
  BY Zenon, <1>1, <1>7, <1>8 DEF UseInv
<1>12. CollInv' /\ OpInv'
  <2>1. \A j \in Ids : Gone(j) => Gone(j)'
    BY Zenon, <1>1 DEF Gone
  <2>2. tomb'[coll.job] # None
    BY Zenon, <1>1, <1>2
  <2> QED
    BY Zenon, <1>1, <1>2, <1>6, <2>1, <2>2, CoreFrame
<1>13. TypeOK'
  BY Zenon, <1>5, <1>6 DEF IInv, TypeOK, GcMoveRoot, records, outer, history
<1> QED
  BY Zenon, <1>9, <1>10, <1>11, <1>12, <1>13, RetirementFrame DEF IInv, GcMoveRoot, records, outer, history

(* The artifact of the job goes, unless a job uses it. *)
LEMMA GcTrashArtifactStep ==
    ASSUME IInv, NEW i \in Ids, GcTrashArtifact(i)
    PROVE  IInv'
<1>1. InPhase(i, "records_trashed") /\ UNCHANGED <<tomb, receipt, spool, op, job, edge, idem>>
  BY Zenon DEF GcTrashArtifact, outer
<1>2. /\ At("locked") /\ coll.job = i /\ tomb[i] # None
  BY Zenon, <1>1, PhaseIsOpen
<1>3. coll \in Collections /\ op = None
  BY Zenon, <1>2, CollectionRuns
<1>4. CASE Consumed(i)
  <2>1. coll' = None /\ UNCHANGED artifact
    BY Zenon, <1>4 DEF GcTrashArtifact, GiveUp
  <2>2. TypeOK'
    BY Zenon, <2>1 DEF IInv, TypeOK, GcTrashArtifact, outer, history
  <2> QED
    BY Zenon, <1>1, <1>3, <2>1, <2>2, RetirementFrame DEF IInv, GcTrashArtifact, outer, history
<1>5. CASE ~Consumed(i)
  <2>1. artifact' = [artifact EXCEPT ![i] = FALSE] /\ Counted
    BY Zenon, <1>5 DEF GcTrashArtifact
  <2>2. artifact \in [Ids -> BOOLEAN] /\ TombInv /\ UseInv
    BY Zenon DEF IInv, TypeOK
  <2>3. artifact' \in [Ids -> BOOLEAN]
    BY Zenon, <2>1, <2>2
  <2>4. ~artifact'[i] /\ \A other \in Ids : other # i => artifact'[other] = artifact[other]
    BY Zenon, <2>1, <2>2
  <2>5. TombInv'
    BY Zenon, <1>1, <2>2, <2>4 DEF TombInv
  <2>6. \A c \in Ids : job[c] # None => i \notin job[c].payload.uses
    BY <1>5, <2>2 DEF UseInv, Consumed, EdgeRecords
  <2>7. UseInv'
    BY <1>1, <2>2, <2>4, <2>6, FieldsAreTyped DEF UseInv
  <2>8. coll' \in Collections /\ coll'.job = coll.job /\ coll'.pc = coll.pc
    BY Zenon, <1>3, <2>1, BatchCounts
  <2>9. \A j \in Ids : Gone(j) => Gone(j)'
    BY Zenon, <1>1 DEF Gone
  <2>10. tomb'[coll.job] # None
    BY Zenon, <1>1, <1>2
  <2>11. CollInv' /\ OpInv'
    BY Zenon, <1>1, <1>2, <2>8, <2>9, <2>10, CoreFrame
  <2>12. TypeOK'
    BY Zenon, <2>3, <2>8 DEF IInv, TypeOK, GcTrashArtifact, outer, history
  <2> QED
    BY Zenon, <2>5, <2>7, <2>11, <2>12, RetirementFrame DEF IInv, GcTrashArtifact, outer, history
<1> QED
  BY Zenon, <1>4, <1>5

(* A record of a use of the job is unlinked. *)
LEMMA GcTrashUseStep ==
    ASSUME IInv, NEW i \in Ids, NEW a \in Ids, GcTrashUse(i, a)
    PROVE  IInv'
<1>1. InPhase(i, "records_trashed") /\ UNCHANGED <<tomb, receipt, spool, op, job, artifact, idem>>
  BY Zenon DEF GcTrashUse, outer
<1>2. /\ At("locked") /\ coll.job = i /\ tomb[i] # None /\ tomb[i].phase = "records_trashed"
  BY Zenon, <1>1, PhaseIsOpen
<1>3. coll \in Collections /\ edge \in [Ids -> [Ids -> SUBSET EdgeRecords]] /\ TombInv /\ UseInv
  BY Zenon, <1>2, CollectionRuns DEF IInv, TypeOK
<1>4. PICK r \in EdgeRecords :
        /\ edge' = [edge EXCEPT ![i][a] = @ \ {r}]
        /\ IF r = "forward" THEN Counted ELSE Between
  BY Zenon DEF GcTrashUse
<1>5. coll' \in Collections /\ coll'.job = coll.job /\ coll'.pc = coll.pc
  <2>1. Counted \/ Between
    BY Zenon, <1>4
  <2> QED
    BY Zenon, <1>3, <2>1, BatchCounts
<1>6. edge' \in [Ids -> [Ids -> SUBSET EdgeRecords]]
  BY Zenon, <1>3, <1>4
<1>7. \A c \in Ids : c # i => edge'[c] = edge[c]
  BY Zenon, <1>3, <1>4
<1>8. job[i] = None
  BY Zenon, <1>2, <1>3 DEF TombInv
<1>9. UseInv'
  BY <1>1, <1>3, <1>7, <1>8 DEF UseInv
<1>10. CollInv' /\ OpInv'
  <2>1. \A j \in Ids : Gone(j) => Gone(j)'
    BY Zenon, <1>1 DEF Gone
  <2>2. tomb'[coll.job] # None
    BY Zenon, <1>1, <1>2
  <2> QED
    BY Zenon, <1>1, <1>2, <1>5, <2>1, <2>2, CoreFrame
<1>11. TypeOK'
  BY Zenon, <1>5, <1>6 DEF IInv, TypeOK, GcTrashUse, records, outer, history
<1> QED
  BY Zenon, <1>9, <1>10, <1>11, RetirementFrame DEF IInv, GcTrashUse, records, outer, history

(* The trash is purged, and the tombstone completed once it is empty. *)
LEMMA GcPurgeStep ==
    ASSUME IInv, NEW i \in Ids, GcPurge(i)
    PROVE  IInv'
<1>1. /\ InPhase(i, "purging") /\ Between /\ TombInv /\ trash \in [Ids -> SUBSET Roots]
      /\ UNCHANGED <<idem, job, artifact, edge, created, answered, receipt, spool, op>>
  BY Zenon DEF IInv, TypeOK, GcPurge, outer, history
<1>2. /\ At("locked") /\ coll.job = i /\ tomb[i] # None /\ tomb[i].phase = "purging"
  BY Zenon, <1>1, PhaseIsOpen
<1>3. coll \in Collections
  BY Zenon, <1>2, CollectionRuns
<1>4. CASE trash[i] # {}
  <2>1. trash' = [trash EXCEPT ![i] = {}] /\ UNCHANGED tomb
    BY Zenon, <1>4 DEF GcPurge
  <2>2. trash' \in [Ids -> SUBSET Roots]
    BY Zenon, <1>1, <2>1
  <2>3. coll' \in Collections /\ coll'.job = coll.job /\ coll'.pc = coll.pc
    BY Zenon, <1>1, <1>3, BatchCounts
  <2>4. \A j \in Ids : Gone(j) => Gone(j)'
    BY Zenon, <2>1 DEF Gone
  <2>5. tomb'[coll.job] # None
    BY Zenon, <1>2, <2>1
  <2>6. CollInv' /\ OpInv'
    BY Zenon, <1>1, <1>2, <2>3, <2>4, <2>5, CoreFrame
  <2>7. TypeOK'
    BY Zenon, <2>1, <2>2, <2>3 DEF IInv, TypeOK, GcPurge, outer, history
  <2> QED
    BY Zenon, <1>1, <2>1, <2>6, <2>7, RetirementFrame DEF IInv
<1>5. CASE ~(trash[i] # {})
  <2>1. Advance(i, "complete") /\ UNCHANGED trash
    BY Zenon, <1>5 DEF GcPurge
  <2>2. "complete" \in Phases
    BY Zenon DEF Phases
  <2>3. /\ idem[tomb[i].key].state = "retired" /\ job[i] = None /\ ~artifact[i]
    BY Zenon, <1>1, <1>2 DEF TombInv
  <2>4. /\ KeyInv' /\ JobInv' /\ TombInv' /\ CollInv' /\ OpInv'
        /\ tomb' \in [Ids -> {None} \cup Tombstones] /\ coll' \in Collections
    BY Zenon, <1>1, <2>1, <2>2, <2>3, PhaseStep
  <2>5. TypeOK'
    BY Zenon, <2>1, <2>4 DEF IInv, TypeOK, GcPurge, outer, history
  <2> QED
    BY Zenon, <1>1, <2>4, <2>5, RetirementFrame DEF IInv
<1> QED
  BY Zenon, <1>4, <1>5

(* The core returns. *)
LEMMA CoreReturnStep ==
    ASSUME IInv, CoreReturn
    PROVE  IInv'
<1>1. At("locked") /\ Goto("record") /\ UNCHANGED <<receipt, tomb, spool, idem, job>>
  BY Zenon DEF CoreReturn, records, outer
<1>2. /\ coll \in Collections /\ coll # None /\ coll.pc = "locked" /\ op = None /\ coll.job \in Ids
  BY Zenon, <1>1, CollectionRuns
<1>3. tomb[coll.job] # None
  <2>1. coll.yields \/ InPhase(coll.job, "complete")
    BY Zenon DEF CoreReturn
  <2> QED
    BY Zenon, <1>2, <2>1 DEF IInv, CollInv, InPhase
<1>4. coll' \in Collections /\ coll' # None /\ coll'.job = coll.job /\ coll'.pc = "record"
  BY Zenon, <1>1, <1>2, CollectionGoes
<1>5. CollInv'
  <2>1. CollInv
    BY Zenon DEF IInv
  <2> QED
    BY Zenon, <1>1, <1>2, <1>3, <1>4, <2>1 DEF CollInv, Gone
<1>6. op' = None
  BY Zenon, <1>2 DEF CoreReturn
<1>7. TypeOK'
  BY Zenon, <1>4 DEF IInv, TypeOK, CoreReturn, records, outer, history
<1> QED
  BY Zenon, <1>5, <1>6, <1>7, RetirementFrame DEF IInv, CoreReturn, records, outer, history

(* The receipt records how far the core got. *)
LEMMA RecordCoreStep ==
    ASSUME IInv, RecordCore
    PROVE  IInv'
<1>1. /\ coll \in Collections /\ coll # None /\ coll.pc = "record" /\ coll.job \in Ids
      /\ receipt[coll.job] \in Receipts /\ receipt[coll.job] # None
  <2>1. At("record")
    BY Zenon DEF RecordCore
  <2> QED
    BY Zenon, <2>1, CollectionRuns
<1>2. CollInv /\ OpInv /\ receipt \in [Ids -> {None} \cup Receipts] /\ UNCHANGED <<spool, tomb, op, idem, job>>
  BY Zenon DEF IInv, TypeOK, RecordCore, records
<1>3. \/ coll' = None
      \/ /\ tomb[coll.job].phase = "complete" /\ coll' # None
         /\ coll' \in Collections /\ coll'.job = coll.job /\ coll'.pc = "purging"
  <2>1. coll' = None \/ (tomb[coll.job].phase = "complete" /\ Goto("purging"))
    BY Zenon DEF RecordCore
  <2> QED
    BY Zenon, <2>1, <1>1, CollectionGoes
<1>4. PICK p \in {"core_complete", "collecting"} :
        MarkReceipt(coll.job, p) /\ (p = "core_complete" => tomb[coll.job].phase = "complete")
  BY Zenon DEF RecordCore
<1>5. /\ receipt' \in [Ids -> {None} \cup Receipts] /\ receipt'[coll.job] # None
      /\ receipt'[coll.job].phase = p
      /\ \A i \in Ids : i # coll.job => receipt'[i] = receipt[i]
  <2>1. p \in ReceiptPhases
    BY Zenon, <1>4 DEF ReceiptPhases
  <2> QED
    BY Zenon, <2>1, <1>1, <1>2, <1>4, ReceiptAdvances
<1>6. tomb[coll.job] # None
  BY Zenon, <1>1, <1>2 DEF CollInv
<1>7. CollInv'
  BY Zenon, <1>1, <1>2, <1>3, <1>4, <1>5, <1>6 DEF CollInv, Gone
<1>8. OpInv'
  BY Zenon, <1>2, <1>3 DEF OpInv
<1>9. TypeOK'
  BY Zenon, <1>3, <1>5 DEF IInv, TypeOK, RecordCore, records, outer, history
<1> QED
  BY Zenon, <1>7, <1>8, <1>9, RetirementFrame DEF IInv, RecordCore, records, outer, history

(* The receipt says that the purge of the spool begins. *)
LEMMA MarkPurgingStep ==
    ASSUME IInv, MarkPurging
    PROVE  IInv'
<1>1. /\ coll \in Collections /\ coll # None /\ coll.pc = "purging" /\ coll.job \in Ids
      /\ receipt[coll.job] \in Receipts /\ receipt[coll.job] # None
  <2>1. At("purging")
    BY Zenon DEF MarkPurging
  <2> QED
    BY Zenon, <2>1, CollectionRuns
<1>2. CollInv /\ receipt \in [Ids -> {None} \cup Receipts] /\ UNCHANGED <<spool, tomb>>
  BY Zenon DEF IInv, TypeOK, MarkPurging, records
<1>3. /\ receipt' \in [Ids -> {None} \cup Receipts] /\ receipt'[coll.job] # None
      /\ receipt'[coll.job].phase = "purging"
      /\ \A i \in Ids : i # coll.job => receipt'[i] = receipt[i]
  <2>1. MarkReceipt(coll.job, "purging") /\ "purging" \in ReceiptPhases
    BY Zenon DEF MarkPurging, ReceiptPhases
  <2> QED
    BY Zenon, <2>1, <1>1, <1>2, ReceiptAdvances
<1>4. coll' \in Collections /\ coll'.job = coll.job /\ coll'.pc = "purge"
  <2>1. Goto("purge")
    BY Zenon DEF MarkPurging
  <2> QED
    BY Zenon, <2>1, <1>1, CollectionGoes
<1>5. CollInv'
  BY Zenon, <1>1, <1>2, <1>3, <1>4 DEF CollInv, Gone
<1>6. coll'.pc # "locked"
  BY Zenon, <1>4
<1>7. TypeOK'
  BY Zenon, <1>3, <1>4 DEF IInv, TypeOK, MarkPurging, records, outer, history
<1> QED
  BY Zenon, <1>5, <1>6, <1>7, RetirementFrame DEF IInv, MarkPurging, records, outer, history

(* The spool is purged, and then the receipt completed. *)
LEMMA PurgeSpoolStep ==
    ASSUME IInv, PurgeSpool
    PROVE  IInv'
<1>1. /\ coll \in Collections /\ coll # None /\ coll.pc = "purge" /\ coll.job \in Ids
      /\ receipt[coll.job] \in Receipts /\ receipt[coll.job] # None
  <2>1. At("purge")
    BY Zenon DEF PurgeSpool
  <2> QED
    BY Zenon, <2>1, CollectionRuns
<1>2. /\ CollInv /\ OpInv /\ receipt \in [Ids -> {None} \cup Receipts]
      /\ spool \in [Ids -> {"absent", "live", "quarantined", "purged"}]
      /\ UNCHANGED <<tomb, op, idem, job>>
  BY Zenon DEF IInv, TypeOK, PurgeSpool, records
<1>3. Gone(coll.job)
  BY Zenon, <1>1, <1>2 DEF CollInv
<1>4. CASE spool[coll.job] = "quarantined"
  <2>1. spool' = [spool EXCEPT ![coll.job] = "purged"] /\ UNCHANGED <<receipt, coll>>
    BY Zenon, <1>4 DEF PurgeSpool
  <2>2. spool' \in [Ids -> {"absent", "live", "quarantined", "purged"}]
    BY Zenon, <1>1, <1>2, <2>1
  <2>3. CollInv'
    BY Zenon, <1>1, <1>2, <1>3, <2>1 DEF CollInv, Gone
  <2>4. TypeOK'
    BY Zenon, <2>1, <2>2 DEF IInv, TypeOK, PurgeSpool, records, history
  <2> QED
    BY Zenon, <2>1, <2>3, <2>4, RetirementFrame DEF IInv, PurgeSpool, records, history
<1>5. CASE ~(spool[coll.job] = "quarantined")
  <2>1. MarkReceipt(coll.job, "complete") /\ coll' = None /\ UNCHANGED spool
    BY Zenon, <1>5 DEF PurgeSpool
  <2>2. "complete" \in ReceiptPhases
    BY Zenon DEF ReceiptPhases
  <2>3. /\ receipt' \in [Ids -> {None} \cup Receipts]
        /\ \A i \in Ids : i # coll.job => receipt'[i] = receipt[i]
    BY Zenon, <1>1, <1>2, <2>1, <2>2, ReceiptAdvances
  <2>4. CollInv'
    BY Zenon, <1>1, <1>2, <1>3, <2>1, <2>3 DEF CollInv, Gone
  <2>5. OpInv'
    BY Zenon, <1>2, <2>1 DEF OpInv
  <2>6. TypeOK'
    BY Zenon, <2>1, <2>3 DEF IInv, TypeOK, PurgeSpool, records, history
  <2> QED
    BY Zenon, <2>4, <2>5, <2>6, RetirementFrame DEF IInv, PurgeSpool, records, history
<1> QED
  BY Zenon, <1>4, <1>5

(* The collecting process crashes. *)
LEMMA CrashCollectStep ==
    ASSUME IInv, CrashCollect
    PROVE  IInv'
<1>1. OpInv /\ faults \in Nat /\ coll' = None /\ Fault /\ UNCHANGED <<op, idem, job>>
  BY Zenon DEF IInv, TypeOK, CrashCollect, records
<1>2. OpInv'
  BY Zenon, <1>1 DEF OpInv
<1>3. faults' \in Nat
  BY <1>1 DEF Fault
<1>4. TypeOK'
  BY Zenon, <1>1, <1>3 DEF IInv, TypeOK, CrashCollect, records, outer, history
<1> QED
  BY Zenon, <1>2, <1>4, RetirementFrame DEF IInv, CrashCollect, records, outer, history

-----------------------------------------------------------------------------
(* An empty store satisfies the invariant. *)
LEMMA RetirementInit == Init => IInv
<1> SUFFICES ASSUME Init PROVE IInv
  BY Zenon
<1>1. TypeOK
  BY Zenon, RetirementAssumption DEF Init, TypeOK
<1>2. KeyInv
  BY Zenon DEF Init, KeyInv
<1>3. JobInv
  BY Zenon DEF Init, JobInv
<1>4. TombInv
  BY Zenon DEF Init, TombInv
<1>5. OpInv
  BY Zenon DEF Init, OpInv
<1>6. CollInv
  BY Zenon DEF Init, CollInv
<1>7. UseInv
  BY Zenon DEF Init, UseInv
<1> QED
  BY Zenon, <1>1, <1>2, <1>3, <1>4, <1>5, <1>6, <1>7 DEF IInv

(* Every step of submission, execution and collection preserves it. *)
LEMMA RetirementStep == IInv /\ [Next]_vars => IInv'
<1> SUFFICES ASSUME IInv, [Next]_vars PROVE IInv'
  BY Zenon
<1>1. CASE UNCHANGED vars
  <2>1. TypeOK'
    BY Zenon, <1>1 DEF IInv, TypeOK, vars, records, outer, history
  <2> QED
    BY Zenon, <1>1, <2>1, RetirementFrame DEF IInv, vars, records, outer, history
<1>2. ASSUME NEW k \in Keys, NEW p \in Payloads,
             (\E i \in Ids : SubmitNew(k, p, i)) \/ SubmitKnown(k, p) \/ SubmitRetired(k, p)
      PROVE  IInv'
  BY Zenon, <1>2, SubmitNewStep, SubmitKnownStep, SubmitRetiredStep
<1>3. CASE Submitting \/ CrashSubmit
  BY Zenon, <1>3, SubmitIndexStep, SubmitRefusedStep, SubmitUseStep, SubmitJobStep,
     SubmitCommitStep, SubmitEventStep, CrashSubmitStep DEF Submitting
<1>4. ASSUME NEW i \in Ids,
             \/ Start(i) \/ AppendArtifact(i) \/ Finish(i) \/ Release(i)
             \/ (\E hold \in BOOLEAN : UpdateMetadata(i, hold))
             \/ AppendEvent(i)
             \/ CollectBegin(i)
      PROVE  IInv'
  BY Zenon, <1>4, StartStep, AppendArtifactStep, FinishStep, ReleaseStep,
     UpdateMetadataStep, AppendEventStep, CollectBeginStep
<1>5. ASSUME NEW i \in Ids, Core(i) PROVE IInv'
  BY Zenon, <1>5, GcPrepareStep, GcRetireKeyStep, GcKeyRetiredStep, GcStartTrashStep,
     GcMoveRootStep, GcRootsMovedStep, GcTrashArtifactStep, GcTrashUseStep,
     GcReferencesTrashedStep, GcPurgingStep, GcPurgeStep DEF Core
<1>6. CASE Collecting \/ CrashCollect
  BY Zenon, <1>5, <1>6, QuarantineStep, MarkQuarantinedStep, PlanCoreStep, EnterCoreStep,
     CoreReturnStep, RecordCoreStep, MarkPurgingStep, PurgeSpoolStep, CrashCollectStep
     DEF Collecting
<1> QED
  BY Zenon, <1>1, <1>2, <1>3, <1>4, <1>6 DEF Next

(* The invariant holds in every behaviour. *)
LEMMA RetirementInvariant == Spec => []IInv
  BY RetirementInit, RetirementStep, PTL DEF Spec

(* Every record, phase and program counter of submission and retirement    *)
(* keeps its type. *)
THEOREM RetirementTypeCorrect == Spec => []TypeOK
<1>1. IInv => TypeOK
  BY Zenon DEF IInv
<1> QED
  BY <1>1, RetirementInvariant, PTL

(* However often a key is submitted, interrupted, repaired, collected and  *)
(* replayed, submit_job writes and returns one job for it. *)
THEOREM RetirementOneJobPerKey == Spec => []OneJobPerKey
<1>1. IInv => OneJobPerKey
  <2> SUFFICES ASSUME IInv PROVE OneJobPerKey
    BY Zenon
  <2>1. KeyInv
    BY Zenon DEF IInv
  <2>2. \A k \in Keys : answered[k] \subseteq created[k]
    BY Zenon, <2>1 DEF KeyInv
  <2>3. \A k \in Keys : created[k] = {} \/ created[k] \subseteq {idem[k].job}
    BY Zenon, <2>1 DEF KeyInv
  <2>4. \A k \in Keys : \A i, j \in created[k] : i = j
    BY Zenon, <2>3
  <2> QED
    BY Zenon, <2>2, <2>4 DEF OneJobPerKey
<1> QED
  BY <1>1, RetirementInvariant, PTL

(* A key that submit_job has answered can always be answered again, from   *)
(* the job or from the tombstone that replaced it. *)
THEOREM RetirementAnswerIsKept == Spec => []AnswerIsKept
<1>1. IInv => AnswerIsKept
  <2> SUFFICES ASSUME IInv, NEW k \in Keys, answered[k] # {}
               PROVE  /\ idem[k] # None
                      /\ idem[k].state = "retired" =>
                            tomb[idem[k].job] # None /\ tomb[idem[k].job].key = k
                      /\ idem[k].state # "retired" => job[idem[k].job] # None
    BY Zenon DEF AnswerIsKept
  <2>1. KeyInv /\ JobInv /\ TombInv
    BY Zenon DEF IInv
  <2>2. idem[k] # None /\ idem[k].job \in created[k]
    BY <2>1 DEF KeyInv
  <2>3. idem[k].job \in Ids
    BY Zenon, <2>2, FieldsAreTyped
  <2>4. idem[k].state # "retired" => job[idem[k].job] # None
    BY Zenon, <2>1, <2>2, <2>3 DEF JobInv
  <2>5. ASSUME idem[k].state = "retired"
        PROVE  tomb[idem[k].job] # None /\ tomb[idem[k].job].key = k
    <3>1. tomb[idem[k].job] # None
      BY Zenon, <2>1, <2>2, <2>5 DEF KeyInv
    <3>2. tomb[idem[k].job].key \in Keys
      BY Zenon, <2>3, <3>1, FieldsAreTyped
    <3>3. /\ idem[tomb[idem[k].job].key] # None
          /\ idem[tomb[idem[k].job].key].job = idem[k].job
      BY Zenon, <2>1, <2>3, <3>1 DEF TombInv
    <3> QED
      BY Zenon, <2>1, <2>2, <3>1, <3>2, <3>3 DEF KeyInv
  <2> QED
    BY Zenon, <2>2, <2>4, <2>5
<1> QED
  BY <1>1, RetirementInvariant, PTL

(* A job record that collection has taken away had ended, and its key was  *)
(* retired first (collect_terminal_job orders the two). *)
THEOREM RetirementCollectedIsRetired == Spec => []CollectedIsRetired
<1>1. IInv => CollectedIsRetired
  <2> SUFFICES ASSUME IInv PROVE CollectedIsRetired
    BY Zenon
  <2>1. JobInv /\ TombInv
    BY Zenon DEF IInv
  <2> QED
    BY Zenon, <2>1 DEF JobInv, TombInv, CollectedIsRetired
<1> QED
  BY <1>1, RetirementInvariant, PTL

(* The spool of a job leaves its quarantine only when the core collection  *)
(* of the job is complete (TerminalRetentionCoordinator.collect). *)
THEOREM RetirementSpoolPurgedLast == Spec => []SpoolPurgedLast
<1>1. IInv => SpoolPurgedLast
  <2> SUFFICES ASSUME IInv PROVE SpoolPurgedLast
    BY Zenon
  <2>1. CollInv /\ TombInv
    BY Zenon DEF IInv
  <2> QED
    BY Zenon, <2>1 DEF CollInv, Gone, TombInv, SpoolPurgedLast
<1> QED
  BY <1>1, RetirementInvariant, PTL

(* The artifacts a submitted and retained job uses are still indexed. *)
THEOREM RetirementUsedArtifactsRetained == Spec => []UsedArtifactsRetained
<1>1. IInv => UsedArtifactsRetained
  BY Zenon DEF IInv, UseInv, UsedArtifactsRetained
<1> QED
  BY <1>1, RetirementInvariant, PTL

-----------------------------------------------------------------------------
(* The promise of IdempotentJobs *)

(* A step that leaves every binding and stage alone is none of the promise. *)
LEMMA PromiseStutters ==
    ASSUME \A k \in Keys : Bound(k)' = Bound(k) /\ Stage(k)' = Stage(k)
    PROVE  UNCHANGED Promise!vars
  BY Zenon DEF Promise!vars

(* A step that moves the stage of one key is a step of the promise. *)
LEMMA PromiseMoves ==
    ASSUME NEW k \in Keys, NEW from, NEW to, Stage(k) = from, Stage(k)' = to,
           \A other \in Keys : Bound(other)' = Bound(other),
           \A other \in Keys : other # k => Stage(other)' = Stage(other)
    PROVE  Promise!Move(k, from, to)
  BY Zenon DEF Promise!Move

(* A new key is accepted. *)
LEMMA SubmitNewKeepsPromise ==
    ASSUME IInv, NEW k \in Keys, NEW p \in Payloads, NEW i \in Ids, SubmitNew(k, p, i)
    PROVE  Promise!Accept(k, i, p)
<1>1. /\ idem \in [Keys -> {None} \cup Bindings]
      /\ idem[k] = None /\ i \in Fresh
      /\ idem' = [idem EXCEPT ![k] = [state |-> "reserved", job |-> i, payload |-> p]]
      /\ UNCHANGED job
  BY Zenon DEF IInv, TypeOK, SubmitNew, Drawn
<1>2. /\ idem'[k] \in Bindings
      /\ idem'[k].state = "reserved" /\ idem'[k].job = i /\ idem'[k].payload = p
      /\ \A other \in Keys : other # k => idem'[other] = idem[other]
  BY Zenon, <1>1 DEF Bindings
<1>3. idem'[k] # None
  BY Zenon, <1>2, RecordIsNotNone
<1>4. /\ job[i] = None
      /\ \A other \in Keys : idem[other] = None \/ idem[other].job # i
  BY Zenon, <1>1 DEF Fresh
<1>5. Stage(k) = "free" /\ Stage(k)' = "accepted" /\ Bound(k)' = [job |-> i, payload |-> p]
  BY Zenon, <1>1, <1>2, <1>3, <1>4 DEF Stage, Bound
<1>6. \A other \in Keys : other # k => Bound(other)' = Bound(other) /\ Stage(other)' = Stage(other)
  BY Zenon, <1>1, <1>2 DEF Stage, Bound
<1>7. \A other \in Keys : Bound(other) = None \/ Bound(other).job # i
  BY Zenon, <1>4 DEF Bound
<1> QED
  BY Zenon, <1>5, <1>6, <1>7 DEF Promise!Accept

(* The job of an accepted key is written once. *)
LEMMA SubmitJobKeepsPromise ==
    ASSUME IInv, SubmitJob
    PROVE  UNCHANGED Promise!vars \/ \E k \in Keys : Promise!Write(k)
<1>1. op \in {None} \cup Submissions /\ op # None /\ op.pc = "uses" /\ OpInv
  BY Zenon DEF IInv, TypeOK, SubmitJob
<1>2. op.id \in Ids /\ op.key \in Keys /\ op.payload \in Payloads /\ op.new \in BOOLEAN
  BY Zenon, <1>1 DEF Submissions
<1>3. UNCHANGED idem /\ job \in [Ids -> {None} \cup Jobs] /\ KeyInv
  BY Zenon DEF IInv, TypeOK, SubmitJob
<1>4. CASE ~op.new
  <2>1. UNCHANGED job
    BY Zenon, <1>4 DEF SubmitJob
  <2> QED
    BY Zenon, <1>3, <2>1, PromiseStutters DEF Bound, Stage
<1>5. CASE op.new
  <2>1. /\ idem[op.key] # None /\ idem[op.key].job = op.id
        /\ idem[op.key].state # "retired" /\ job[op.id] = None
    BY Zenon, <1>1, <1>5 DEF OpInv
  <2> DEFINE r == [key |-> op.key, payload |-> op.payload,
                   done |-> FALSE, hold |-> FALSE, updated |-> 0]
  <2>2. job' = [job EXCEPT ![op.id] = r]
    BY Zenon, <1>5 DEF SubmitJob
  <2>3. r \in Jobs /\ ~r.done
    BY Zenon, <1>2 DEF Jobs
  <2>4. r # None
    BY Zenon, <2>3, RecordIsNotNone
  <2> HIDE DEF r
  <2>5. /\ job'[op.id] # None /\ ~job'[op.id].done
        /\ \A other \in Ids : other # op.id => job'[other] = job[other]
    BY Zenon, <1>2, <1>3, <2>2, <2>3, <2>4
  <2>6. PICK k \in Keys : k = op.key
    BY Zenon, <1>2
  <2>7. Stage(k) = "accepted" /\ Stage(k)' = "running"
    BY Zenon, <1>3, <2>1, <2>5, <2>6 DEF Stage
  <2>8. \A other \in Keys : Bound(other)' = Bound(other)
    BY Zenon, <1>3 DEF Bound
  <2>9. \A other \in Keys : other # k /\ idem[other] # None =>
           idem[other].job \in Ids /\ idem[other].job # op.id
    BY <1>2, <1>3, <2>1, <2>6, FieldsAreTyped DEF KeyInv
  <2>10. \A other \in Keys : other # k => Stage(other)' = Stage(other)
    BY Zenon, <1>3, <2>5, <2>9 DEF Stage
  <2>11. Promise!Move(k, "accepted", "running")
    BY Zenon, <2>7, <2>8, <2>10, PromiseMoves
  <2> QED
    BY Zenon, <2>11 DEF Promise!Write
<1> QED
  BY Zenon, <1>2, <1>4, <1>5

(* A commit changes neither the binding of the key nor its stage. *)
LEMMA SubmitCommitKeepsPromise ==
    ASSUME IInv, SubmitCommit
    PROVE  UNCHANGED Promise!vars
<1>1. /\ idem \in [Keys -> {None} \cup Bindings] /\ OpInv /\ op \in {None} \cup Submissions
      /\ op # None /\ op.pc = "commit" /\ UNCHANGED job
      /\ idem' = [idem EXCEPT ![op.key] =
                    IF @.state = "reserved" THEN [@ EXCEPT !.state = "committed"] ELSE @]
  BY Zenon DEF IInv, TypeOK, SubmitCommit
<1>2. op.key \in Keys
  BY Zenon, <1>1 DEF Submissions
<1>3. idem[op.key] # None /\ idem[op.key].state # "retired"
  BY Zenon, <1>1 DEF OpInv
<1>4. \/ UNCHANGED idem
      \/ idem' = [idem EXCEPT ![op.key].state = "committed"]
  BY Zenon, <1>1, <1>2
<1>5. CASE UNCHANGED idem
  BY Zenon, <1>1, <1>5, PromiseStutters DEF Bound, Stage
<1>6. CASE idem' = [idem EXCEPT ![op.key].state = "committed"]
  <2>1. /\ idem'[op.key] # None /\ idem'[op.key].state = "committed"
        /\ idem'[op.key].job = idem[op.key].job /\ idem'[op.key].payload = idem[op.key].payload
        /\ \A other \in Keys : other # op.key => idem'[other] = idem[other]
    BY Zenon, <1>1, <1>2, <1>3, <1>6, BindingMoves
  <2>2. \A k \in Keys : Bound(k)' = Bound(k) /\ Stage(k)' = Stage(k)
    BY <1>1, <1>2, <1>3, <2>1 DEF Bound, Stage
  <2> QED
    BY Zenon, <2>2, PromiseStutters
<1> QED
  BY Zenon, <1>4, <1>5, <1>6

(* A job that ends was running, and its key is not retired. *)
LEMMA FinishKeepsPromise ==
    ASSUME IInv, NEW i \in Ids, Finish(i)
    PROVE  \E k \in Keys : Promise!End(k)
<1>1. /\ job \in [Ids -> {None} \cup Jobs] /\ KeyInv /\ JobInv /\ TombInv
      /\ job[i] # None /\ ~job[i].done /\ UNCHANGED idem
      /\ job' = [job EXCEPT ![i].done = TRUE, ![i].updated = @ + 1]
  BY Zenon DEF IInv, TypeOK, Finish, Exists
<1>2. /\ job'[i] # None /\ job'[i].done
      /\ \A other \in Ids : other # i => job'[other] = job[other]
  BY Zenon, <1>1, JobEnds
<1>3. PICK k \in Keys : idem[k] # None /\ idem[k].job = i
  BY Zenon, <1>1, FieldsAreTyped DEF JobInv
<1>4. tomb[i] = None
  BY Zenon, <1>1 DEF TombInv
<1>5. idem[k].state # "retired"
  BY Zenon, <1>1, <1>3, <1>4 DEF KeyInv
<1>6. Stage(k) = "running" /\ Stage(k)' = "ended"
  BY Zenon, <1>1, <1>2, <1>3, <1>5 DEF Stage
<1>7. \A other \in Keys : Bound(other)' = Bound(other)
  BY Zenon, <1>1 DEF Bound
<1>8. \A other \in Keys : other # k /\ idem[other] # None => idem[other].job \in Ids /\ idem[other].job # i
  BY Zenon, <1>1, <1>3, FieldsAreTyped DEF KeyInv
<1>9. \A other \in Keys : other # k => Stage(other)' = Stage(other)
  BY Zenon, <1>1, <1>2, <1>8 DEF Stage
<1>10. Promise!Move(k, "running", "ended")
  BY Zenon, <1>3, <1>6, <1>7, <1>9, PromiseMoves
<1> QED
  BY Zenon, <1>3, <1>10 DEF Promise!End

(* An update of the metadata of a job neither ends nor revives it. *)
LEMMA UpdateMetadataKeepsPromise ==
    ASSUME IInv, NEW i \in Ids, NEW hold \in BOOLEAN, UpdateMetadata(i, hold)
    PROVE  UNCHANGED Promise!vars
<1>1. /\ job \in [Ids -> {None} \cup Jobs] /\ job[i] # None /\ UNCHANGED idem
      /\ job' = [job EXCEPT ![i].hold = hold, ![i].updated = @ + 1]
  BY Zenon DEF IInv, TypeOK, UpdateMetadata, Exists
<1>2. /\ job'[i] # None /\ job'[i].done = job[i].done
      /\ \A other \in Ids : other # i => job'[other] = job[other]
  BY Zenon, <1>1, JobIsUpdated
<1>3. \A k \in Keys : Bound(k)' = Bound(k) /\ Stage(k)' = Stage(k)
  BY Zenon, <1>1, <1>2, FieldsAreTyped DEF Bound, Stage
<1> QED
  BY Zenon, <1>3, PromiseStutters

(* Only the key of a job that has ended is retired. *)
LEMMA GcRetireKeyKeepsPromise ==
    ASSUME IInv, NEW i \in Ids, GcRetireKey(i)
    PROVE  UNCHANGED Promise!vars \/ \E k \in Keys : Promise!Retire(k)
<1>1. /\ InPhase(i, "prepared") /\ UNCHANGED job /\ idem \in [Keys -> {None} \cup Bindings]
      /\ KeyInv /\ JobInv /\ TombInv
  BY Zenon DEF IInv, TypeOK, GcRetireKey
<1>2. PICK k \in Keys : k = tomb[i].key /\ tomb[i] # None
  BY Zenon, <1>1, PhaseIsOpen
<1>3. \/ UNCHANGED idem
      \/ /\ idem' = [idem EXCEPT ![k].state = "retired"]
         /\ idem[k] # None /\ idem[k].job = i /\ idem[k].state = "committed"
  BY Zenon, <1>2 DEF GcRetireKey, Matches
<1>4. CASE UNCHANGED idem
  BY Zenon, <1>1, <1>4, PromiseStutters DEF Bound, Stage
<1>5. CASE /\ idem' = [idem EXCEPT ![k].state = "retired"]
           /\ idem[k] # None /\ idem[k].job = i /\ idem[k].state = "committed"
  <2>1. /\ idem'[k] # None /\ idem'[k].state = "retired"
        /\ idem'[k].job = idem[k].job /\ idem'[k].payload = idem[k].payload
        /\ \A other \in Keys : other # k => idem'[other] = idem[other]
    BY Zenon, <1>1, <1>2, <1>5, BindingMoves
  <2>2. i \in created[k]
    BY Zenon, <1>1, <1>2, <1>5 DEF KeyInv
  <2>3. job[i] # None /\ job[i].done
    BY <1>1, <1>2, <1>5, <2>2 DEF JobInv, TombInv
  <2>4. Stage(k) = "ended" /\ Stage(k)' = "retired"
    BY Zenon, <1>5, <2>1, <2>3 DEF Stage
  <2>5. \A other \in Keys : Bound(other)' = Bound(other)
    BY Zenon, <1>2, <1>5, <2>1 DEF Bound
  <2>6. \A other \in Keys : other # k => Stage(other)' = Stage(other)
    BY Zenon, <1>1, <2>1 DEF Stage
  <2>7. Promise!Move(k, "ended", "retired")
    BY Zenon, <1>2, <2>4, <2>5, <2>6, PromiseMoves
  <2> QED
    BY Zenon, <1>2, <2>7 DEF Promise!Retire
<1> QED
  BY Zenon, <1>3, <1>4, <1>5

(* The records of a job move after its key is retired. *)
LEMMA GcMoveRootKeepsPromise ==
    ASSUME IInv, NEW i \in Ids, GcMoveRoot(i)
    PROVE  UNCHANGED Promise!vars
<1>1. /\ InPhase(i, "retired") /\ UNCHANGED idem /\ job \in [Ids -> {None} \cup Jobs]
      /\ KeyInv /\ TombInv /\ (UNCHANGED job \/ job' = [job EXCEPT ![i] = None])
  BY Zenon DEF IInv, TypeOK, GcMoveRoot
<1>2. tomb[i] # None /\ tomb[i].phase = "retired" /\ tomb[i].key \in Keys
  BY Zenon, <1>1, PhaseIsOpen
<1>3. \A other \in Ids : other # i => job'[other] = job[other]
  BY Zenon, <1>1
<1>4. /\ idem[tomb[i].key] # None /\ idem[tomb[i].key].job = i
      /\ idem[tomb[i].key].state = "retired"
  BY Zenon, <1>1, <1>2 DEF TombInv
<1>5. \A k \in Keys : idem[k] # None /\ idem[k].job = i => idem[k].state = "retired"
  BY Zenon, <1>1, <1>2, <1>4 DEF KeyInv
<1>6. \A k \in Keys : Bound(k)' = Bound(k) /\ Stage(k)' = Stage(k)
  BY Zenon, <1>1, <1>3, <1>5, FieldsAreTyped DEF Bound, Stage
<1> QED
  BY Zenon, <1>6, PromiseStutters

(* Every other step leaves the keys and the jobs alone. *)
LEMMA OtherStepsKeepPromise ==
    ASSUME UNCHANGED <<idem, job>>
    PROVE  UNCHANGED Promise!vars
<1>1. \A k \in Keys : Bound(k)' = Bound(k) /\ Stage(k)' = Stage(k)
  BY Zenon DEF Bound, Stage
<1> QED
  BY Zenon, <1>1, PromiseStutters

(* Submission and retirement implement the idempotent-job contract: a      *)
(* first submission accepts the key, the job is written and ends once, and *)
(* only the key of an ended job is retired; all else stutters. *)
THEOREM RetirementImplementsPromise == Spec => ImplementsPromise
<1>1. Init => Promise!Init
  BY Zenon DEF Init, Promise!Init, Bound, Stage
<1>2. IInv /\ [Next]_vars => [Promise!Next]_(Promise!vars)
  <2> SUFFICES ASSUME IInv, [Next]_vars PROVE Promise!Next \/ UNCHANGED Promise!vars
    BY Zenon
  <2>1. CASE UNCHANGED vars
    BY Zenon, <2>1, OtherStepsKeepPromise DEF vars, records
  <2>2. ASSUME NEW k \in Keys, NEW p \in Payloads,
               (\E i \in Ids : SubmitNew(k, p, i)) \/ SubmitKnown(k, p) \/ SubmitRetired(k, p)
        PROVE  Promise!Next \/ UNCHANGED Promise!vars
    BY Zenon, <2>2, SubmitNewKeepsPromise, OtherStepsKeepPromise
       DEF SubmitKnown, SubmitRetired, records, Promise!Next
  <2>3. CASE Submitting \/ CrashSubmit
    BY Zenon, <2>3, SubmitJobKeepsPromise, SubmitCommitKeepsPromise, OtherStepsKeepPromise
       DEF Submitting, SubmitIndex, SubmitRefused, SubmitUse, SubmitEvent, CrashSubmit,
           records, Promise!Next
  <2>4. ASSUME NEW i \in Ids,
               \/ Start(i) \/ AppendArtifact(i) \/ Finish(i) \/ Release(i)
               \/ (\E hold \in BOOLEAN : UpdateMetadata(i, hold))
               \/ AppendEvent(i)
               \/ CollectBegin(i)
        PROVE  Promise!Next \/ UNCHANGED Promise!vars
    BY Zenon, <2>4, FinishKeepsPromise, UpdateMetadataKeepsPromise, OtherStepsKeepPromise
       DEF Start, AppendArtifact, Release, AppendEvent, CollectBegin, records, Promise!Next
  <2>5. ASSUME NEW i \in Ids, Core(i)
        PROVE  Promise!Next \/ UNCHANGED Promise!vars
    BY Zenon, <2>5, GcRetireKeyKeepsPromise, GcMoveRootKeepsPromise, OtherStepsKeepPromise
       DEF Core, GcPrepare, GcKeyRetired, GcStartTrash, GcRootsMoved, GcTrashArtifact,
           GcTrashUse, GcReferencesTrashed, GcPurging, GcPurge, Promise!Next
  <2>6. CASE Collecting \/ CrashCollect
    BY Zenon, <2>5, <2>6, OtherStepsKeepPromise
       DEF Collecting, Quarantine, MarkQuarantined, PlanCore, EnterCore, CoreReturn,
           RecordCore, MarkPurging, PurgeSpool, CrashCollect, records
  <2> QED
    BY Zenon, <2>1, <2>2, <2>3, <2>4, <2>6 DEF Next
<1> QED
  BY <1>1, <1>2, RetirementInvariant, PTL DEF Spec, ImplementsPromise, Promise!Spec

=============================================================================
