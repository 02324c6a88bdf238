---------------------- MODULE StorageAdmissionProofs ----------------------
(***************************************************************************)
(* Storage admission for any jobs, processes, estimates, limits and number *)
(* of faults.                                                              *)
(***************************************************************************)
EXTENDS StorageAdmission, TLAPS

(***************************************************************************)
(* The invariants                                                          *)
(***************************************************************************)
Places == [pc : Steps, job : Jobs \cup {None}, todo : SUBSET Jobs, then : Steps,
           seen : SUBSET Jobs]

(* The steps of ingest_input_artifact after submit_job, and the steps that *)
(* are always inside the admission lock.                                   *)
IngestSteps == {"ingest", "begin", "retry", "claim", "start", "write", "complete", "fail"}
Locked == {"admit", "claim", "start", "verify"}

(* A process that stands at r while h holds the admission lock: it works   *)
(* on a job of the right kind, and the lock is where the step says it is.  *)
PlacedAt(a, r, h) ==
    /\ r.pc \in {"submit", "admit", "verify"} => r.job \in Jobs
    /\ r.pc \in IngestSteps => r.job \in Ingests
    /\ r.pc = "release" => r.then \in {"idle", "acquire", "ingest", "begin"}
    /\ r.pc = "verify" => r.then \in {"idle", "ingest", "start"}
    /\ r.pc \in {"release", "verify"} /\ r.then \in IngestSteps => r.job \in Ingests
    /\ r.pc \in Locked => h = a
    /\ h = a => r.pc \in Locked \cup {"release"}

DataInv ==
    /\ job \in [Jobs -> States]
    /\ intents \subseteq Workloads
    /\ attempt \in [Ingests -> Actors \cup {None, Gone}]
    /\ artifact \subseteq Ingests
    /\ ledger \subseteq Jobs
    /\ intake \in [Actors -> {"closed", "open", "denied"}]
    /\ faults \in 0 .. MaxFaults

PlaceInv ==
    /\ admission \in Actors \cup {None}
    /\ at \in [Actors -> Places]
    /\ \A a \in Actors : PlacedAt(a, at[a], admission)

(***************************************************************************)
(* Places, and the moves of one process between them                       *)
(***************************************************************************)
(* The fields of the places that a process goes to. *)
LEMMA IdleFields ==
    Off \in Places /\ Off.pc = "off" /\ Idle \in Places /\ Idle.pc = "idle"
  BY DEF Places, Steps, Idle, Off

LEMMA OnFields ==
    ASSUME NEW p \in Steps, NEW j \in Jobs \cup {None}
    PROVE  On(p, j) \in Places /\ On(p, j).pc = p /\ On(p, j).job = j
  BY DEF Places, Steps, On, Idle, Off

LEMMA ReleasingFields ==
    ASSUME NEW j \in Jobs \cup {None}, NEW s \in SUBSET Jobs, NEW p \in Steps
    PROVE  /\ Releasing(j, s, p) \in Places /\ Releasing(j, s, p).pc = "release"
           /\ Releasing(j, s, p).job = j /\ Releasing(j, s, p).todo = s
           /\ Releasing(j, s, p).then = p
  BY DEF Places, Steps, Releasing

LEMMA StepNames ==
    /\ {"off", "idle", "reconcile", "acquire", "submit", "admit", "release", "verify"} \subseteq Steps
    /\ IngestSteps \subseteq Steps
  BY Zenon DEF Steps, IngestSteps

LEMMA VerifyFields ==
    ASSUME NEW j \in Jobs, NEW p \in Steps
    PROVE  LET r == [On("verify", j) EXCEPT !.then = p] IN
           r \in Places /\ r.pc = "verify" /\ r.job = j /\ r.then = p
  BY DEF Places, Steps, On, Idle, Off

LEMMA ReconcileFields ==
    ASSUME NEW s \in SUBSET Jobs
    PROVE  LET r == [Idle EXCEPT !.pc = "reconcile", !.seen = s] IN
           r \in Places /\ r.pc = "reconcile" /\ r.seen = s
  BY DEF Places, Steps, Idle, Off

LEMMA LeftFields ==
    ASSUME NEW r \in Places, NEW s \in SUBSET Jobs
    PROVE  LET q == [r EXCEPT !.todo = s] IN
           q \in Places /\ q.pc = r.pc /\ q.job = r.job /\ q.todo = s /\ q.then = r.then
  BY DEF Places

(* The admission lock stays, is taken by a when it is free, or is given up *)
(* by a.                                                                   *)
LockMove(a) ==
    \/ admission' = admission
    \/ admission = None /\ admission' = a
    \/ admission = a /\ admission' = None

(* A move of one process keeps the others where they belong. *)
LEMMA Moved ==
    ASSUME PlaceInv, NEW a \in Actors, NEW r \in Places, Goto(a, r), LockMove(a),
           PlacedAt(a, r, admission')
    PROVE  /\ PlaceInv'
           /\ at'[a] = r
           /\ \A b \in Actors : b # a => at'[b] = at[b]
<1>1. at' \in [Actors -> Places] /\ at'[a] = r /\ \A b \in Actors : b # a => at'[b] = at[b]
  BY Zenon DEF PlaceInv, Goto
<1>2. admission' \in Actors \cup {None}
  BY Zenon DEF PlaceInv, LockMove
<1>3. ASSUME NEW b \in Actors, b # a PROVE PlacedAt(b, at'[b], admission')
  <2>1. PlacedAt(b, at[b], admission) /\ at'[b] = at[b]
    BY <1>1, <1>3, Zenon DEF PlaceInv
  <2>2. admission' = b <=> admission = b
    BY <1>3, ActorAssumption DEF LockMove
  <2> QED BY <2>1, <2>2, Zenon DEF PlacedAt
<1> QED BY <1>1, <1>2, <1>3, Zenon DEF PlaceInv

(***************************************************************************)
(* Types: what each action does to the data, and where it takes a process  *)
(***************************************************************************)
Others(a) == \A b \in Actors : b # a => at'[b] = at[b]

LEMMA ReplayedFacts ==
    ASSUME DataInv
    PROVE  /\ Replayed \in [Jobs -> States]
           /\ \A j \in Jobs : j \in intents => Replayed[j] = "failed"
           /\ \A j \in Jobs : j \notin intents => Replayed[j] = job[j]
           /\ \A j \in Ingests : Replayed[j] = job[j]
<1>1. \A j \in Jobs : job[j] \in States /\ "failed" \in States
  BY Zenon DEF DataInv, States, Terminal
<1>2. \A j \in Jobs : Replayed[j] = IF j \in intents THEN "failed" ELSE job[j]
  BY Zenon DEF Replayed
<1>3. Replayed \in [Jobs -> States]
  BY <1>1, Zenon DEF Replayed
<1>4. \A j \in Ingests : j \in Jobs /\ j \notin intents
  BY IngestAssumption, Zenon DEF DataInv, Workloads
<1> QED BY <1>2, <1>3, <1>4, Zenon

(* A job is set after the replay. *)
LEMMA SetFacts ==
    ASSUME DataInv, NEW k \in Jobs, NEW s \in States
    PROVE  LET after == [Replayed EXCEPT ![k] = s] IN
           /\ after \in [Jobs -> States]
           /\ after[k] = s
           /\ \A j \in Jobs : j # k => after[j] = Replayed[j]
  BY ReplayedFacts, Zenon

LEMMA LetGoFacts ==
    ASSUME DataInv, NEW a \in Actors
    PROVE  /\ LetGo(a, attempt) \in [Ingests -> Actors \cup {None, Gone}]
           /\ \A j \in Ingests : LetGo(a, attempt)[j] \in {attempt[j], Gone}
           /\ \A j \in Ingests : attempt[j] = None => LetGo(a, attempt)[j] = None
<1>1. \A j \in Ingests : LetGo(a, attempt)[j] = IF attempt[j] = a THEN Gone ELSE attempt[j]
  BY Zenon DEF LetGo
<1>2. \A j \in Ingests : (IF attempt[j] = a THEN Gone ELSE attempt[j]) \in Actors \cup {None, Gone}
  BY Zenon DEF DataInv
<1>3. LetGo(a, attempt) \in [Ingests -> Actors \cup {None, Gone}]
  BY <1>2, Zenon DEF LetGo
<1>4. a # None
  BY ActorAssumption, Zenon
<1> QED BY <1>1, <1>3, <1>4, Zenon

LEMMA FaultFacts ==
    ASSUME DataInv, Fault
    PROVE  faults' \in 0 .. MaxFaults
  BY LimitAssumption DEF DataInv, Fault

LEMMA IntakeFacts ==
    ASSUME DataInv, NEW a \in Actors, NEW s \in {"closed", "open", "denied"}
    PROVE  [intake EXCEPT ![a] = s] \in [Actors -> {"closed", "open", "denied"}]
  BY Zenon DEF DataInv

LEMMA UnlockMoves ==
    ASSUME NEW a \in Actors, Unlock(a)
    PROVE  /\ LockMove(a)
           /\ admission' # a
           /\ admission = a => admission' = None
           /\ admission # a => admission' = admission
  BY ActorAssumption, Zenon DEF Unlock, LockMove

LEMMA LockMoves ==
    ASSUME NEW a \in Actors, Lock(a)
    PROVE  LockMove(a) /\ admission = None /\ admission' = a
  BY Zenon DEF Lock, LockMove

(* Who is at a step inside the lock holds it; nobody holds it otherwise. *)
LEMMA Holds ==
    ASSUME PlaceInv, NEW a \in Actors
    PROVE  /\ at[a] \in Places
           /\ at[a].pc \in Locked => admission = a
           /\ at[a].pc \notin Locked /\ at[a].pc # "release" => admission # a
           /\ at[a].pc \in {"submit", "admit", "verify"} => at[a].job \in Jobs
           /\ at[a].pc \in IngestSteps => at[a].job \in Ingests /\ at[a].job \in Jobs
<1>1. at[a] \in Places /\ PlacedAt(a, at[a], admission)
  BY Zenon DEF PlaceInv
<1> QED BY <1>1, IngestAssumption, Zenon DEF PlacedAt

(* A process that ends an operation or begins a step outside the lock. *)
LEMMA PlacedFree ==
    ASSUME NEW a \in Actors, NEW h, h # a
    PROVE  /\ PlacedAt(a, Off, h) /\ PlacedAt(a, Idle, h)
           /\ PlacedAt(a, On("acquire", None), h)
           /\ \A j \in Jobs : PlacedAt(a, On("submit", j), h)
           /\ \A j \in Ingests, p \in IngestSteps \ Locked : PlacedAt(a, On(p, j), h)
           /\ \A j \in Jobs \cup {None}, s \in SUBSET Jobs, p \in {"idle", "acquire"} :
                 PlacedAt(a, Releasing(j, s, p), h)
<1>1. PlacedAt(a, Off, h) /\ PlacedAt(a, Idle, h)
  BY IdleFields, Zenon DEF PlacedAt, IngestSteps, Locked
<1>2. PlacedAt(a, On("acquire", None), h)
  <2>1. On("acquire", None).pc = "acquire"
    BY OnFields, StepNames
  <2> QED BY <2>1, Zenon DEF PlacedAt, IngestSteps, Locked
<1>3. ASSUME NEW j \in Jobs PROVE PlacedAt(a, On("submit", j), h)
  <2>1. On("submit", j).pc = "submit" /\ On("submit", j).job = j
    BY OnFields, StepNames
  <2> QED BY <2>1, Zenon DEF PlacedAt, IngestSteps, Locked
<1>4. ASSUME NEW j \in Ingests, NEW p \in IngestSteps \ Locked PROVE PlacedAt(a, On(p, j), h)
  <2>1. p \in Steps /\ j \in Jobs
    BY IngestAssumption, Zenon DEF Steps, IngestSteps
  <2>2. On(p, j).pc = p /\ On(p, j).job = j
    BY <2>1, OnFields
  <2> QED BY <2>2, Zenon DEF PlacedAt, IngestSteps, Locked
<1>5. ASSUME NEW j \in Jobs \cup {None}, NEW s \in SUBSET Jobs, NEW p \in {"idle", "acquire"}
      PROVE  PlacedAt(a, Releasing(j, s, p), h)
  <2>1. p \in Steps
    BY Zenon DEF Steps
  <2>2. Releasing(j, s, p).pc = "release" /\ Releasing(j, s, p).then = p
    BY <2>1, ReleasingFields
  <2> QED BY <2>2, Zenon DEF PlacedAt, IngestSteps, Locked
<1> QED BY <1>1, <1>2, <1>3, <1>4, <1>5, Zenon

(* A process that holds the lock. *)
LEMMA PlacedInside ==
    ASSUME NEW a \in Actors
    PROVE  /\ \A j \in Jobs : PlacedAt(a, On("admit", j), a)
           /\ \A j \in Ingests, p \in {"claim", "start"} : PlacedAt(a, On(p, j), a)
           /\ \A j \in Jobs, p \in {"idle", "ingest", "start"} : (p # "idle" => j \in Ingests) =>
                 PlacedAt(a, [On("verify", j) EXCEPT !.then = p], a)
           /\ \A j \in Jobs, s \in SUBSET Jobs, p \in {"idle", "ingest", "begin"} :
                 (p # "idle" => j \in Ingests) => PlacedAt(a, Releasing(j, s, p), a)
<1>1. ASSUME NEW j \in Jobs PROVE PlacedAt(a, On("admit", j), a)
  <2>1. On("admit", j).pc = "admit" /\ On("admit", j).job = j
    BY OnFields, StepNames
  <2> QED BY <2>1, Zenon DEF PlacedAt, IngestSteps, Locked
<1>2. ASSUME NEW j \in Ingests, NEW p \in {"claim", "start"} PROVE PlacedAt(a, On(p, j), a)
  <2>1. p \in Steps /\ j \in Jobs
    BY IngestAssumption, Zenon DEF Steps
  <2>2. On(p, j).pc = p /\ On(p, j).job = j
    BY <2>1, OnFields
  <2> QED BY <2>2, Zenon DEF PlacedAt, IngestSteps, Locked
<1>3. ASSUME NEW j \in Jobs, NEW p \in {"idle", "ingest", "start"}, p # "idle" => j \in Ingests
      PROVE  PlacedAt(a, [On("verify", j) EXCEPT !.then = p], a)
  <2> DEFINE r == [On("verify", j) EXCEPT !.then = p]
  <2>1. p \in Steps
    BY Zenon DEF Steps
  <2>2. r.pc = "verify" /\ r.job = j /\ r.then = p
    BY <2>1, VerifyFields
  <2> HIDE DEF r
  <2>4. PlacedAt(a, r, a)
    BY <2>2, <1>3, Zenon DEF PlacedAt, IngestSteps, Locked
  <2> QED BY <2>4, Zenon DEF r
<1>4. ASSUME NEW j \in Jobs, NEW s \in SUBSET Jobs,
             NEW p \in {"idle", "ingest", "begin"}, p # "idle" => j \in Ingests
      PROVE  PlacedAt(a, Releasing(j, s, p), a)
  <2>1. p \in Steps
    BY Zenon DEF Steps
  <2>2. /\ Releasing(j, s, p).pc = "release" /\ Releasing(j, s, p).then = p
        /\ Releasing(j, s, p).job = j
    BY <2>1, ReleasingFields
  <2> QED BY <2>2, <1>4, Zenon DEF PlacedAt, IngestSteps, Locked
<1> QED BY <1>1, <1>2, <1>3, <1>4, Zenon

(* What every step of process a keeps. *)
Typed(a) == DataInv' /\ PlaceInv' /\ Others(a) /\ LockMove(a)

LEMMA TypedBy ==
    ASSUME PlaceInv, DataInv', NEW a \in Actors, NEW r \in Places, Goto(a, r), LockMove(a),
           PlacedAt(a, r, admission')
    PROVE  Typed(a) /\ at'[a] = r
  BY Moved, Zenon DEF Typed, Others

LEMMA GoneIdle ==
    ASSUME PlaceInv, DataInv', NEW a \in Actors, NEW r \in {Off, Idle}, Goto(a, r), LockMove(a),
           admission' # a
    PROVE  Typed(a) /\ at'[a] = r
<1>1. r \in Places /\ PlacedAt(a, r, admission')
  BY IdleFields, PlacedFree, Zenon
<1> QED BY <1>1, TypedBy, Zenon

LEMMA SameLock ==
    ASSUME NEW a, UNCHANGED admission
    PROVE  LockMove(a)
  BY Zenon DEF LockMove

LEMMA GoneOut ==
    ASSUME PlaceInv, DataInv', NEW a \in Actors, NEW p \in IngestSteps \ Locked, NEW j \in Ingests,
           Goto(a, On(p, j)), LockMove(a), admission' # a
    PROVE  Typed(a) /\ at'[a].pc = p
<1>1. p \in Steps /\ j \in Jobs \cup {None}
  BY IngestAssumption, StepNames, Zenon
<1>2. On(p, j) \in Places /\ On(p, j).pc = p
  BY <1>1, OnFields
<1>3. PlacedAt(a, On(p, j), admission')
  BY PlacedFree, Zenon
<1> QED BY <1>2, <1>3, TypedBy, Zenon

LEMMA GoneIn ==
    ASSUME PlaceInv, DataInv', NEW a \in Actors, NEW p \in {"admit", "claim", "start"},
           NEW j \in Jobs, p # "admit" => j \in Ingests,
           Goto(a, On(p, j)), LockMove(a), admission' = a
    PROVE  Typed(a) /\ at'[a].pc = p /\ at'[a].job = j
<1>1. p \in Steps /\ j \in Jobs \cup {None}
  BY StepNames, Zenon DEF IngestSteps
<1>2. On(p, j) \in Places /\ On(p, j).pc = p /\ On(p, j).job = j
  BY <1>1, OnFields
<1>3. PlacedAt(a, On(p, j), admission')
  BY PlacedInside, Zenon
<1> QED BY <1>2, <1>3, TypedBy, Zenon

LEMMA GoneRelease ==
    ASSUME PlaceInv, DataInv', NEW a \in Actors, NEW j \in Jobs \cup {None},
           NEW s \in SUBSET Jobs, NEW p \in {"idle", "acquire", "begin"}, p = "begin" => j \in Ingests,
           Goto(a, Releasing(j, s, p)), LockMove(a)
    PROVE  Typed(a) /\ at'[a].pc = "release" /\ at'[a].todo = s
<1> DEFINE r == Releasing(j, s, p)
<1>1. p \in Steps
  BY StepNames, Zenon DEF IngestSteps
<1>2. r \in Places /\ r.pc = "release" /\ r.todo = s /\ r.then = p /\ r.job = j
  BY <1>1, ReleasingFields
<1>3. Goto(a, r)
  BY Zenon
<1> HIDE DEF r
<1>4. PlacedAt(a, r, admission')
  BY <1>2, Zenon DEF PlacedAt, IngestSteps, Locked
<1> QED BY <1>2, <1>3, <1>4, TypedBy, Zenon

LEMMA GoneReleaseOne ==
    ASSUME PlaceInv, DataInv', NEW a \in Actors, NEW j \in Jobs,
           Goto(a, Releasing(j, {j}, "idle")), LockMove(a)
    PROVE  Typed(a) /\ at'[a].pc = "release" /\ at'[a].todo = {j}
<1>1. {j} \in SUBSET Jobs /\ j \in Jobs \cup {None} /\ "idle" \in {"idle", "acquire", "begin"}
  BY Zenon
<1> QED BY <1>1, GoneRelease, Zenon

LEMMA StartTyped ==
    ASSUME DataInv, PlaceInv, NEW a \in Actors, Start(a)
    PROVE  /\ Typed(a)
           /\ \/ at'[a].pc = "idle"
              \/ /\ at'[a].pc = "reconcile"
                 /\ at'[a].seen = {j \in Jobs : Replayed[j] \in Active}
<1> DEFINE active == {j \in Jobs : Replayed[j] \in Active}
           r == [Idle EXCEPT !.pc = "reconcile", !.seen = active]
<1>1. DataInv'
  <2>1. job' \in [Jobs -> States] /\ intents' = {}
    BY ReplayedFacts, Zenon DEF Start
  <2>2. intake' \in [Actors -> {"closed", "open", "denied"}]
    BY IntakeFacts, Zenon DEF Start, DataInv
  <2>3. UNCHANGED <<attempt, artifact, ledger, faults>>
    BY Zenon DEF Start
  <2> QED BY <2>1, <2>2, <2>3, Zenon DEF DataInv
<1>2. UNCHANGED admission /\ admission # a
  <2>1. at[a].pc = "off" /\ UNCHANGED admission
    BY Zenon DEF Start
  <2> QED BY <2>1, Holds, Zenon DEF Locked
<1>3. CASE Goto(a, Idle)
  <2>1. Typed(a) /\ at'[a] = Idle
    BY <1>1, <1>2, <1>3, SameLock, GoneIdle, Zenon
  <2> QED BY <2>1, IdleFields, Zenon
<1>4. CASE Goto(a, r)
  <2>1. r \in Places /\ r.pc = "reconcile" /\ r.seen = active
    <3>1. active \in SUBSET Jobs
      BY Zenon
    <3> HIDE DEF active
    <3> QED BY <3>1, ReconcileFields, Zenon
  <2> HIDE DEF r
  <2>2. PlacedAt(a, r, admission')
    BY <1>2, <2>1, Zenon DEF PlacedAt, Locked, IngestSteps
  <2>3. Typed(a) /\ at'[a] = r
    BY <1>1, <1>2, <1>4, <2>1, <2>2, SameLock, TypedBy, Zenon
  <2> QED BY <2>1, <2>3, Zenon
<1> QED BY <1>3, <1>4, Zenon DEF Start

LEMMA ReconcileTyped ==
    ASSUME DataInv, PlaceInv, NEW a \in Actors, Reconcile(a)
    PROVE  Typed(a) /\ at'[a].pc = "idle"
<1>0. at[a] \in Places /\ at[a].seen \subseteq Jobs
  <2>1. at[a] \in Places
    BY Zenon DEF PlaceInv
  <2> QED BY <2>1 DEF Places
<1>1. DataInv'
  <2>1. ledger' \subseteq Jobs
    BY <1>0, Zenon DEF Reconcile, DataInv
  <2>2. intake' \in [Actors -> {"closed", "open", "denied"}]
    BY IntakeFacts, Zenon DEF Reconcile
  <2>3. UNCHANGED <<job, intents, attempt, artifact>>
    BY Zenon DEF Reconcile
  <2>4. faults' \in 0 .. MaxFaults
    <3>1. Fault \/ UNCHANGED faults
      BY Zenon DEF Reconcile
    <3> QED BY <3>1, FaultFacts, Zenon DEF DataInv
  <2> QED BY <2>1, <2>2, <2>3, <2>4, Zenon DEF DataInv
<1>2. UNCHANGED admission /\ admission # a /\ Goto(a, Idle)
  <2>1. at[a].pc = "reconcile" /\ UNCHANGED admission /\ Goto(a, Idle)
    BY Zenon DEF Reconcile
  <2> QED BY <2>1, Holds, Zenon DEF Locked
<1>3. Typed(a) /\ at'[a] = Idle
  BY <1>1, <1>2, SameLock, GoneIdle, Zenon
<1> QED BY <1>3, IdleFields, Zenon

LEMMA ReleaseTyped ==
    ASSUME DataInv, PlaceInv, NEW a \in Actors, Release(a)
    PROVE  /\ Typed(a)
           /\ \E j \in at[a].todo : ledger' = ledger \/ ledger' = ledger \ {j}
           /\ \/ /\ at'[a].pc = "release" /\ at'[a].todo \subseteq at[a].todo
                 /\ UNCHANGED <<admission, attempt>>
              \/ at'[a].pc \in {"idle", "acquire", "ingest", "begin"}
           /\ attempt' = attempt \/ attempt' = LetGo(a, attempt)
<1> DEFINE p == at[a]
<1>1. p \in Places /\ p.pc = "release" /\ PlacedAt(a, p, admission) /\ p.todo \in SUBSET Jobs
  <2>1. p \in Places /\ p.pc = "release" /\ PlacedAt(a, p, admission)
    BY Zenon DEF PlaceInv, Release
  <2> HIDE DEF p
  <2> QED BY <2>1 DEF Places
<1>2. /\ attempt' = attempt \/ attempt' = LetGo(a, attempt)
      /\ intake' = intake \/ intake' = [intake EXCEPT ![a] = "denied"]
      /\ Fault \/ UNCHANGED faults
      /\ \E j \in p.todo : ledger' = ledger \/ ledger' = ledger \ {j}
  BY Zenon DEF Release
<1>3. DataInv'
  <2>1. attempt' \in [Ingests -> Actors \cup {None, Gone}]
    BY <1>2, LetGoFacts, Zenon DEF DataInv
  <2>2. intake' \in [Actors -> {"closed", "open", "denied"}]
    BY <1>2, IntakeFacts, Zenon DEF DataInv
  <2>3. faults' \in 0 .. MaxFaults
    BY <1>2, FaultFacts, Zenon DEF DataInv
  <2>4. ledger' \subseteq Jobs
    BY <1>2, Zenon DEF DataInv
  <2>5. UNCHANGED <<job, intents, artifact>>
    BY Zenon DEF Release
  <2> QED BY <2>1, <2>2, <2>3, <2>4, <2>5, Zenon DEF DataInv
<1>4. PICK j \in p.todo :
        LET left == p.todo \ {j} IN
        IF left # {}
        THEN Goto(a, [p EXCEPT !.todo = left]) /\ UNCHANGED <<admission, attempt>>
        ELSE /\ Unlock(a)
             /\ IF p.then = "idle"
                THEN Goto(a, Idle) /\ attempt' = LetGo(a, attempt)
                ELSE Goto(a, On(p.then, p.job)) /\ UNCHANGED attempt
  BY Zenon DEF Release
<1>5. CASE p.todo \ {j} # {}
  <2> DEFINE left == p.todo \ {j}
             r == [p EXCEPT !.todo = left]
  <2>1. left \in SUBSET Jobs /\ left \subseteq p.todo
    BY <1>1, Zenon
  <2>2. Goto(a, r) /\ UNCHANGED <<admission, attempt>>
    BY <1>4, <1>5, Zenon
  <2> HIDE DEF left, p
  <2>3. r \in Places /\ r.pc = p.pc /\ r.job = p.job /\ r.todo = left /\ r.then = p.then
    BY <2>1, <1>1, LeftFields
  <2> HIDE DEF r
  <2>4. PlacedAt(a, r, admission')
    BY <1>1, <2>2, <2>3, Zenon DEF PlacedAt
  <2>5. Typed(a) /\ at'[a] = r
    BY <1>3, <2>2, <2>3, <2>4, SameLock, TypedBy, Zenon
  <2> QED BY <1>1, <1>2, <2>1, <2>2, <2>3, <2>5, Zenon DEF p
<1>6. CASE p.todo \ {j} = {}
  <2>1. LockMove(a) /\ admission' # a
    BY <1>4, <1>6, UnlockMoves, Zenon
  <2>2. CASE p.then = "idle"
    <3>1. Goto(a, Idle)
      BY <1>4, <1>6, <2>2, Zenon
    <3>2. Typed(a) /\ at'[a] = Idle
      BY <1>3, <2>1, <3>1, GoneIdle, Zenon
    <3> QED BY <1>2, <3>2, IdleFields, Zenon
  <2>3. CASE p.then # "idle"
    <3> DEFINE r == On(p.then, p.job)
    <3>1. Goto(a, r)
      BY <1>4, <1>6, <2>3, Zenon
    <3>2. /\ p.then \in {"acquire", "ingest", "begin"} /\ p.then \in Steps
          /\ p.job \in Jobs \cup {None}
          /\ p.then \in {"ingest", "begin"} => p.job \in Ingests
      <4>1. p.then \in Steps /\ p.job \in Jobs \cup {None}
        BY <1>1 DEF Places
      <4> QED BY <1>1, <2>3, <4>1, Zenon DEF PlacedAt, IngestSteps
    <3>3. r \in Places /\ r.pc = p.then /\ r.job = p.job
      BY <3>2, OnFields
    <3>4. PlacedAt(a, r, admission')
      <4> HIDE DEF p, r
      <4> QED BY <2>1, <3>2, <3>3, Zenon DEF PlacedAt, IngestSteps, Locked
    <3>5. Typed(a) /\ at'[a] = r
      BY <1>3, <2>1, <3>1, <3>3, <3>4, TypedBy, Zenon
    <3> QED BY <1>2, <3>2, <3>3, <3>5, Zenon
  <2> QED BY <2>2, <2>3, Zenon
<1> QED BY <1>5, <1>6, Zenon

(***************************************************************************)
(* Types: submission                                                       *)
(***************************************************************************)
LEMMA AfterFacts ==
    ASSUME NEW j \in Jobs
    PROVE  After(j) \in {"idle", "ingest"} /\ (After(j) # "idle" => j \in Ingests)
  BY Zenon DEF After

LEMMA ExistingTyped ==
    ASSUME DataInv, PlaceInv, NEW a \in Actors, NEW j \in Jobs, Existing(a, j)
    PROVE  /\ Typed(a)
           /\ \/ /\ at'[a].pc = "release" /\ at'[a].todo = {j} /\ Replayed[j] \in Terminal
                 /\ admission' = a
              \/ at'[a].pc = "verify" /\ at'[a].then # "start"
<1>1. DataInv'
  <2>1. job' \in [Jobs -> States] /\ intents' = {}
    BY ReplayedFacts, Zenon DEF Existing
  <2>2. UNCHANGED <<attempt, artifact, ledger, intake, faults>>
    BY Zenon DEF Existing
  <2> QED BY <2>1, <2>2, Zenon DEF DataInv
<1>2. LockMove(a) /\ admission' = a
  BY LockMoves, Zenon DEF Existing
<1>3. After(j) \in Steps /\ {j} \in SUBSET Jobs /\ j \in Jobs \cup {None}
  BY AfterFacts, Zenon DEF Steps
<1>4. CASE Replayed[j] \in Terminal
  <2> DEFINE r == Releasing(j, {j}, After(j))
  <2>1. r \in Places /\ r.pc = "release" /\ r.todo = {j}
    BY <1>3, ReleasingFields
  <2>2. PlacedAt(a, r, admission')
    BY <1>2, <1>3, AfterFacts, PlacedInside, Zenon
  <2>3. Goto(a, r)
    BY <1>4, Zenon DEF Existing
  <2>4. Typed(a) /\ at'[a] = r
    <3> HIDE DEF r
    <3> QED BY <1>1, <1>2, <2>1, <2>2, <2>3, TypedBy, Zenon
  <2> QED BY <1>2, <1>4, <2>1, <2>4, Zenon
<1>5. CASE Replayed[j] \notin Terminal
  <2> DEFINE r == [On("verify", j) EXCEPT !.then = After(j)]
  <2>1. r \in Places /\ r.pc = "verify" /\ r.then = After(j)
    BY <1>3, VerifyFields
  <2>2. PlacedAt(a, r, admission')
    BY <1>2, AfterFacts, PlacedInside, Zenon
  <2>3. Goto(a, r)
    BY <1>5, Zenon DEF Existing
  <2>4. Typed(a) /\ at'[a] = r
    <3> HIDE DEF r
    <3> QED BY <1>1, <1>2, <2>1, <2>2, <2>3, TypedBy, Zenon
  <2> QED BY <2>1, <2>4, AfterFacts, Zenon
<1> QED BY <1>4, <1>5, Zenon

LEMMA SubmitTyped ==
    ASSUME DataInv, PlaceInv, NEW a \in Actors, NEW j \in Jobs, Submit(a, j), ~ Existing(a, j)
    PROVE  Typed(a) /\ at'[a].pc = "submit" /\ UNCHANGED <<job, intents, attempt, ledger, admission>>
<1> DEFINE r == On("submit", j)
<1>1. /\ at[a].pc = "idle" /\ Goto(a, r)
      /\ UNCHANGED <<job, intents, attempt, artifact, ledger, intake, admission, faults>>
  BY Zenon DEF Submit
<1>2. DataInv'
  BY <1>1, Zenon DEF DataInv
<1>3. admission' # a
  BY <1>1, Holds, Zenon DEF Locked
<1>4. r \in Places /\ r.pc = "submit"
  BY OnFields, StepNames
<1>5. PlacedAt(a, r, admission')
  BY <1>3, PlacedFree, Zenon
<1>6. Typed(a) /\ at'[a] = r
  <2> HIDE DEF r
  <2> QED BY <1>1, <1>2, <1>4, <1>5, SameLock, TypedBy, Zenon
<1> QED BY <1>1, <1>4, <1>6, Zenon

(* The reservation of a step outside the lock, for the step inside it. *)
LEMMA ReserveTyped ==
    ASSUME DataInv, PlaceInv, NEW a \in Actors, NEW next \in {"admit", "claim"}, Reserve(a, next),
           at[a].pc \in {"submit", "retry"}, next = "claim" => at[a].pc = "retry",
           UNCHANGED <<job, intents, attempt, artifact, intake>>
    PROVE  /\ Typed(a)
           /\ ledger \subseteq ledger'
           /\ \/ at'[a].pc = "idle"
              \/ /\ at'[a].pc = next /\ at'[a].job = at[a].job
                 /\ ledger' = ledger \cup {at[a].job}
                 /\ Fits(at[a].job) /\ (Overlap \/ Nobody({"reconcile"}))
                 /\ admission = None
<1>1. /\ at[a].job \in Jobs /\ admission # a
      /\ next = "claim" => at[a].job \in Ingests
  BY Holds, Zenon DEF Locked, IngestSteps
<1>2. DataInv' /\ ledger \subseteq ledger'
  <2>1. (ledger' = ledger \/ ledger' = ledger \cup {at[a].job}) /\ (Fault \/ UNCHANGED faults)
    BY Zenon DEF Reserve
  <2>2. faults' \in 0 .. MaxFaults
    BY <2>1, FaultFacts, Zenon DEF DataInv
  <2>3. ledger \subseteq ledger' /\ ledger' \subseteq Jobs
    BY <2>1, <1>1, Zenon DEF DataInv
  <2> QED BY <2>2, <2>3, Zenon DEF DataInv
<1>3. CASE Goto(a, Idle) /\ UNCHANGED admission
  <2>1. Typed(a) /\ at'[a] = Idle
    BY <1>1, <1>2, <1>3, SameLock, GoneIdle, Zenon
  <2> QED BY <1>2, <2>1, IdleFields, Zenon
<1>4. CASE /\ Goto(a, On(next, at[a].job)) /\ Lock(a) /\ Fits(at[a].job)
           /\ Overlap \/ Nobody({"reconcile"})
           /\ ledger' = ledger \cup {at[a].job}
  <2>1. LockMove(a) /\ admission' = a /\ admission = None
    BY <1>4, LockMoves, Zenon
  <2>2. Typed(a) /\ at'[a].pc = next /\ at'[a].job = at[a].job
    BY <1>1, <1>2, <1>4, <2>1, GoneIn, Zenon
  <2> QED BY <1>2, <1>4, <2>1, <2>2, Zenon
<1> QED BY <1>3, <1>4, Zenon DEF Reserve

LEMMA AdmitTyped ==
    ASSUME DataInv, PlaceInv, NEW a \in Actors, Admit(a)
    PROVE  /\ Typed(a)
           /\ \/ /\ job' = [Replayed EXCEPT ![at[a].job] = "queued"]
                 /\ at'[a].pc \in {"idle", "ingest"}
              \/ /\ job' = Replayed /\ UNCHANGED admission
                 /\ at'[a].pc = "release" /\ at'[a].todo = {at[a].job}
<1> DEFINE j == at[a].job
<1>1. j \in Jobs /\ admission = a
  BY Holds, Zenon DEF Admit, Locked
<1>2. DataInv'
  <2>1. "queued" \in States
    BY Zenon DEF States, Active
  <2>2. job' \in [Jobs -> States]
    <3>1. job' = [Replayed EXCEPT ![j] = "queued"] \/ job' = Replayed
      BY Zenon DEF Admit
    <3> QED BY <1>1, <2>1, <3>1, ReplayedFacts, SetFacts, Zenon
  <2>3. faults' \in 0 .. MaxFaults
    <3>1. Fault \/ UNCHANGED faults
      BY Zenon DEF Admit
    <3> QED BY <3>1, FaultFacts, Zenon DEF DataInv
  <2>4. intents' = {} /\ UNCHANGED <<attempt, artifact, ledger, intake>>
    BY Zenon DEF Admit
  <2> QED BY <2>2, <2>3, <2>4, Zenon DEF DataInv
<1>3. CASE /\ job' = [Replayed EXCEPT ![j] = "queued"]
           /\ Goto(a, Then(After(j), j)) \/ Goto(a, Idle)
           /\ Unlock(a)
  <2>1. LockMove(a) /\ admission' # a
    BY <1>3, UnlockMoves, Zenon
  <2>2. CASE Goto(a, Idle)
    <3>1. Typed(a) /\ at'[a] = Idle
      BY <1>2, <2>1, <2>2, GoneIdle, Zenon
    <3> QED BY <1>3, <3>1, IdleFields, Zenon
  <2>3. CASE Goto(a, On("ingest", j)) /\ j \in Ingests
    <3>1. Typed(a) /\ at'[a].pc = "ingest"
      BY <1>2, <2>1, <2>3, GoneOut, Zenon DEF IngestSteps, Locked
    <3> QED BY <1>3, <3>1, Zenon
  <2>4. Goto(a, Then(After(j), j)) => Goto(a, Idle) \/ (Goto(a, On("ingest", j)) /\ j \in Ingests)
    BY Zenon DEF Then, After
  <2> QED BY <1>3, <2>2, <2>3, <2>4, Zenon
<1>4. CASE job' = Replayed /\ Goto(a, Releasing(j, {j}, "idle")) /\ UNCHANGED admission
  <2>1. Typed(a) /\ at'[a].pc = "release" /\ at'[a].todo = {j}
    BY <1>1, <1>2, <1>4, SameLock, GoneReleaseOne, Zenon
  <2> QED BY <1>4, <2>1, Zenon
<1> QED BY <1>3, <1>4, Zenon DEF Admit

LEMMA VerifyTyped ==
    ASSUME DataInv, PlaceInv, NEW a \in Actors, Verify(a)
    PROVE  /\ Typed(a)
           /\ \/ at'[a].pc \in {"idle", "ingest"}
              \/ at'[a].pc = "start" /\ at[a].then = "start" /\ at'[a].job = at[a].job
           /\ UNCHANGED <<job, intents, attempt, ledger>>
<1> DEFINE p == at[a]
<1>1. p \in Places /\ p.pc = "verify" /\ PlacedAt(a, p, admission) /\ p.job \in Jobs /\ admission = a
  BY Holds, Zenon DEF PlaceInv, Verify, Locked
<1>2. DataInv' /\ UNCHANGED <<job, intents, attempt, ledger>>
  <2>1. intake' \in [Actors -> {"closed", "open", "denied"}]
    BY IntakeFacts, Zenon DEF Verify, DataInv
  <2> QED BY <2>1, Zenon DEF Verify, DataInv
<1>3. p.then \in {"idle", "ingest", "start"} /\ (p.then # "idle" => p.job \in Ingests)
  BY <1>1, Zenon DEF PlacedAt, IngestSteps
<1>4. admission' = None \/ (admission' = a /\ p.then = "start" /\ Goto(a, On("start", p.job)))
  <2>1. Unlock(a) => admission' = None
    BY <1>1, UnlockMoves, Zenon
  <2>2. p.then = "start" => Then(p.then, p.job) = On("start", p.job)
    BY Zenon DEF Then
  <2> QED BY <2>1, <2>2, Zenon DEF Verify
<1>5. LockMove(a)
  BY <1>1, <1>4, Zenon DEF LockMove
<1>6. a # None
  BY ActorAssumption, Zenon
<1>7. CASE Goto(a, Idle) /\ admission' = None
  <2>1. Typed(a) /\ at'[a] = Idle
    BY <1>2, <1>5, <1>6, <1>7, GoneIdle, Zenon
  <2> QED BY <1>2, <2>1, IdleFields, Zenon
<1>8. CASE Goto(a, On("ingest", p.job)) /\ admission' = None /\ p.job \in Ingests
  <2>1. Typed(a) /\ at'[a].pc = "ingest"
    BY <1>2, <1>5, <1>6, <1>8, GoneOut, Zenon DEF IngestSteps, Locked
  <2> QED BY <1>2, <2>1, Zenon
<1>9. CASE Goto(a, On("start", p.job)) /\ admission' = a /\ p.then = "start"
  <2>1. Typed(a) /\ at'[a].pc = "start" /\ at'[a].job = p.job
    BY <1>1, <1>2, <1>3, <1>5, <1>9, GoneIn, Zenon
  <2> QED BY <1>2, <1>9, <2>1, Zenon
<1>10. CASE p.job \in ledger
  <2>1. Goto(a, Then(p.then, p.job)) /\ admission' = IF p.then = "start" THEN a ELSE None
    BY <1>10, Zenon DEF Verify
  <2>2. \/ p.then = "idle" /\ Goto(a, Idle)
        \/ p.then \in {"ingest", "start"} /\ Goto(a, On(p.then, p.job))
    BY <1>3, <2>1, Zenon DEF Then
  <2> QED BY <1>3, <1>7, <1>8, <1>9, <2>1, <2>2, Zenon
<1>11. CASE p.job \notin ledger
  <2>1. Goto(a, Idle) /\ admission' = None
    BY <1>1, <1>11, UnlockMoves, Zenon DEF Verify
  <2> QED BY <1>7, <2>1, Zenon
<1> QED BY <1>10, <1>11, Zenon

(***************************************************************************)
(* Types: the operations that end jobs                                     *)
(***************************************************************************)
LEMMA SettleTyped ==
    ASSUME DataInv, PlaceInv, NEW a \in Actors, NEW after \in [Jobs -> States],
           NEW ended \in SUBSET Jobs, Settle(a, after, ended), admission # a
    PROVE  /\ Typed(a)
           /\ at'[a].pc = "idle" \/ (at'[a].pc = "release" /\ at'[a].todo = ended)
<1>1. DataInv' /\ UNCHANGED admission
  BY Zenon DEF Settle, DataInv
<1>2. CASE Goto(a, Idle)
  <2>1. Typed(a) /\ at'[a] = Idle
    BY <1>1, <1>2, SameLock, GoneIdle, Zenon
  <2> QED BY <2>1, IdleFields, Zenon
<1>3. CASE Goto(a, Releasing(None, ended, "idle"))
  <2>1. None \in Jobs \cup {None}
    BY Zenon
  <2> QED BY <1>1, <1>3, <2>1, SameLock, GoneRelease, Zenon
<1> QED BY <1>2, <1>3, Zenon DEF Settle

LEMMA RecoverStaleJobsTyped ==
    ASSUME DataInv, PlaceInv, NEW a \in Actors, RecoverStaleJobs(a)
    PROVE  /\ Typed(a)
           /\ \/ at'[a].pc = "acquire"
              \/ /\ at'[a].pc = "release"
                 /\ \A j \in at'[a].todo : j \in Jobs /\ Replayed[j] = "running" /\ job'[j] = "failed"
<1> DEFINE failed == {j \in Jobs : Replayed[j] = "running" /\ job'[j] = "failed"}
<1>1. DataInv' /\ UNCHANGED admission
  <2>1. job' \in [Jobs -> States] /\ intents' = {}
    BY Zenon DEF RecoverStaleJobs
  <2> QED BY <2>1, Zenon DEF RecoverStaleJobs, DataInv
<1>2. admission # a
  BY Holds, Zenon DEF RecoverStaleJobs, Locked
<1>3. None \in Jobs \cup {None} /\ failed \in SUBSET Jobs
  BY Zenon
<1>4. CASE Goto(a, On("acquire", None))
  <2> DEFINE r == On("acquire", None)
  <2>1. r \in Places /\ r.pc = "acquire"
    BY <1>3, OnFields, StepNames
  <2>2. PlacedAt(a, r, admission')
    BY <1>1, <1>2, PlacedFree, Zenon
  <2>3. Goto(a, r)
    BY <1>4, Zenon
  <2> HIDE DEF r
  <2>4. Typed(a) /\ at'[a] = r
    BY <1>1, <2>1, <2>2, <2>3, SameLock, TypedBy, Zenon
  <2> QED BY <2>1, <2>4, Zenon
<1>5. CASE Goto(a, Releasing(None, failed, "acquire"))
  <2>1. Typed(a) /\ at'[a].pc = "release" /\ at'[a].todo = failed
    <3> HIDE DEF failed
    <3> QED BY <1>1, <1>3, <1>5, SameLock, GoneRelease, Zenon
  <2> QED BY <2>1, Zenon
<1> QED BY <1>4, <1>5, Zenon DEF RecoverStaleJobs

(* acquire_next_job and acquire_job. *)
LEMMA AcquireTyped ==
    ASSUME DataInv, PlaceInv, NEW a \in Actors, Acquire(a)
    PROVE  /\ Typed(a)
           /\ at'[a].pc = "idle" \/ (at'[a].pc = "release" /\ at'[a].todo = intents)
           /\ \/ job' = Replayed
              \/ \E j \in Workloads : /\ Replayed[j] = "queued"
                                      /\ job' = [Replayed EXCEPT ![j] = "running"]
           /\ UNCHANGED <<attempt, ledger, admission>>
<1>1. admission # a
  BY Holds, Zenon DEF Acquire, Locked
<1>2. PICK after \in {Replayed} \cup {[Replayed EXCEPT ![j] = "running"] :
                        j \in {k \in Workloads : Replayed[k] = "queued"}} :
        Settle(a, after, intents)
  BY Zenon DEF Acquire
<1>3. \/ after = Replayed
      \/ \E j \in Workloads : Replayed[j] = "queued" /\ after = [Replayed EXCEPT ![j] = "running"]
  BY <1>2, Zenon
<1>4. "running" \in States /\ Workloads \subseteq Jobs
  BY Zenon DEF States, Active, Workloads
<1>5. after \in [Jobs -> States] /\ intents \in SUBSET Jobs
  <2>1. \A j \in Workloads : [Replayed EXCEPT ![j] = "running"] \in [Jobs -> States]
    BY <1>4, SetFacts, Zenon
  <2>2. intents \in SUBSET Jobs
    BY <1>4, Zenon DEF DataInv
  <2> QED BY <1>3, <2>1, <2>2, ReplayedFacts, Zenon
<1>6. Typed(a) /\ (at'[a].pc = "idle" \/ (at'[a].pc = "release" /\ at'[a].todo = intents))
  BY <1>1, <1>2, <1>5, SettleTyped, Zenon
<1>7. job' = after /\ UNCHANGED <<attempt, ledger, admission>>
  BY <1>2, Zenon DEF Settle
<1> QED BY <1>3, <1>6, <1>7, Zenon

LEMMA EndTyped ==
    ASSUME DataInv, PlaceInv, NEW a \in Actors, NEW j \in Workloads, End(a, j)
    PROVE  /\ Typed(a)
           /\ at'[a].pc = "idle" \/ (at'[a].pc = "release" /\ at'[a].todo = {j})
           /\ \E s \in Terminal : job' = [Replayed EXCEPT ![j] = s]
           /\ UNCHANGED <<attempt, ledger, admission>>
<1>1. admission # a
  BY Holds, Zenon DEF End, Locked
<1>2. PICK s \in Terminal : Settle(a, [Replayed EXCEPT ![j] = s], {j})
  BY Zenon DEF End
<1>3. s \in States /\ j \in Jobs /\ {j} \in SUBSET Jobs
  BY Zenon DEF States, Workloads
<1>4. [Replayed EXCEPT ![j] = s] \in [Jobs -> States]
  BY <1>3, SetFacts, Zenon
<1>5. Typed(a) /\ (at'[a].pc = "idle" \/ (at'[a].pc = "release" /\ at'[a].todo = {j}))
  BY <1>1, <1>2, <1>3, <1>4, SettleTyped, Zenon
<1> QED BY <1>2, <1>5, Zenon DEF Settle

LEMMA CancelTyped ==
    ASSUME DataInv, PlaceInv, NEW a \in Actors, NEW j \in Jobs, Cancel(a, j)
    PROVE  /\ Typed(a)
           /\ at'[a].pc = "idle" \/ (at'[a].pc = "release" /\ at'[a].todo = {j})
           /\ \/ Replayed[j] = "queued" /\ job' = [Replayed EXCEPT ![j] = "canceled"]
              \/ Replayed[j] \in Terminal /\ job' = Replayed
           /\ UNCHANGED <<attempt, ledger, admission>>
<1>1. admission # a
  BY Holds, Zenon DEF Cancel, Locked
<1>2. "canceled" \in States /\ {j} \in SUBSET Jobs
  BY Zenon DEF States, Terminal
<1>3. CASE Replayed[j] = "queued" /\ Settle(a, [Replayed EXCEPT ![j] = "canceled"], {j})
  <2>1. [Replayed EXCEPT ![j] = "canceled"] \in [Jobs -> States]
    BY <1>2, SetFacts, Zenon
  <2>2. Typed(a) /\ (at'[a].pc = "idle" \/ (at'[a].pc = "release" /\ at'[a].todo = {j}))
    BY <1>1, <1>2, <1>3, <2>1, SettleTyped, Zenon
  <2> QED BY <1>3, <2>2, Zenon DEF Settle
<1>4. CASE Replayed[j] \in Terminal /\ Settle(a, Replayed, {j})
  <2>1. Typed(a) /\ (at'[a].pc = "idle" \/ (at'[a].pc = "release" /\ at'[a].todo = {j}))
    BY <1>1, <1>2, <1>4, ReplayedFacts, SettleTyped, Zenon
  <2> QED BY <1>4, <2>1, Zenon DEF Settle
<1> QED BY <1>3, <1>4, Zenon DEF Cancel

(***************************************************************************)
(* Types: input ingest                                                     *)
(***************************************************************************)
LEMMA RecoverAbandonedTyped ==
    ASSUME DataInv, PlaceInv, NEW a \in Actors, RecoverAbandoned(a)
    PROVE  /\ Typed(a)
           /\ \A j \in Jobs : \/ job'[j] = Replayed[j]
                              \/ /\ j \in Ingests /\ Replayed[j] \in Active /\ job'[j] = "failed"
                                 /\ admission = None
           /\ \/ at'[a].pc = "begin"
              \/ /\ at'[a].pc = "release" /\ admission' = a
                 /\ \A j \in at'[a].todo : j \in Ingests /\ job'[j] = "failed"
           /\ UNCHANGED <<attempt, ledger>>
<1> DEFINE after(lost) == [j \in Jobs |-> IF j \in lost THEN "failed" ELSE Replayed[j]]
<1>0. at[a].job \in Ingests /\ at[a].job \in Jobs /\ admission # a /\ a # None
  BY Holds, ActorAssumption, Zenon DEF RecoverAbandoned, IngestSteps, Locked
<1>1. PICK lost \in SUBSET {j \in Ingests : Replayed[j] \in Active} :
        /\ job' = after(lost)
        /\ IF lost = {}
           THEN /\ admission = None /\ UNCHANGED admission
                /\ Goto(a, On("begin", at[a].job))
           ELSE /\ Lock(a)
                /\ Goto(a, Releasing(at[a].job, lost, "begin"))
  BY Zenon DEF RecoverAbandoned
<1>2. "failed" \in States
  BY Zenon DEF States, Terminal
<1>3. \A j \in Jobs : job'[j] = IF j \in lost THEN "failed" ELSE Replayed[j]
  BY <1>1, Zenon
<1>4. DataInv' /\ UNCHANGED <<attempt, ledger>>
  <2>1. \A j \in Jobs : (IF j \in lost THEN "failed" ELSE Replayed[j]) \in States
    BY <1>2, ReplayedFacts, Zenon
  <2>2. job' \in [Jobs -> States]
    BY <2>1, <1>1, Zenon
  <2> QED BY <2>2, Zenon DEF DataInv, RecoverAbandoned
<1>5. CASE lost = {}
  <2>1. admission = None /\ UNCHANGED admission /\ Goto(a, On("begin", at[a].job))
    BY <1>1, <1>5, Zenon
  <2>2. Typed(a) /\ at'[a].pc = "begin"
    BY <1>0, <1>4, <2>1, SameLock, GoneOut, Zenon DEF IngestSteps, Locked
  <2> QED BY <1>3, <1>4, <1>5, <2>2, Zenon
<1>6. CASE lost # {}
  <2>1. Lock(a) /\ Goto(a, Releasing(at[a].job, lost, "begin"))
    BY <1>1, <1>6, Zenon
  <2>2. LockMove(a) /\ admission = None /\ admission' = a
    BY <2>1, LockMoves, Zenon
  <2>3. lost \in SUBSET Jobs /\ at[a].job \in Jobs \cup {None}
    BY <1>0, IngestAssumption, Zenon
  <2>4. Typed(a) /\ at'[a].pc = "release" /\ at'[a].todo = lost
    BY <1>0, <1>4, <2>1, <2>2, <2>3, GoneRelease, Zenon
  <2>5. \A j \in lost : j \in Ingests /\ Replayed[j] \in Active /\ job'[j] = "failed"
    BY <1>3, <2>3, Zenon
  <2> QED BY <1>3, <1>4, <2>2, <2>4, <2>5, Zenon
<1> QED BY <1>5, <1>6, Zenon

LEMMA ReadIngestTyped ==
    ASSUME DataInv, PlaceInv, NEW a \in Actors, ReadIngest(a), at[a].pc \in {"begin", "retry"}
    PROVE  /\ Typed(a)
           /\ at'[a].job = at[a].job /\ job[at[a].job] # "failed"
           /\ at'[a].pc = "start" \/ at'[a].pc = "verify"
           /\ UNCHANGED <<job, intents, attempt, ledger>>
<1>1. at[a].job \in Ingests /\ at[a].job \in Jobs
  BY Holds, Zenon DEF IngestSteps
<1>2. DataInv' /\ UNCHANGED <<job, intents, attempt, ledger>> /\ job[at[a].job] # "failed"
  BY Zenon DEF DataInv, ReadIngest
<1>3. LockMove(a) /\ admission' = a
  BY LockMoves, Zenon DEF ReadIngest
<1>4. CASE Goto(a, On("start", at[a].job))
  <2>1. Typed(a) /\ at'[a].pc = "start" /\ at'[a].job = at[a].job
    BY <1>1, <1>2, <1>3, <1>4, GoneIn, Zenon
  <2> QED BY <1>2, <2>1, Zenon
<1>5. CASE Goto(a, [On("verify", at[a].job) EXCEPT !.then = "start"])
  <2> DEFINE r == [On("verify", at[a].job) EXCEPT !.then = "start"]
  <2>1. r \in Places /\ r.pc = "verify" /\ r.job = at[a].job
    BY <1>1, VerifyFields, StepNames DEF IngestSteps
  <2>2. PlacedAt(a, r, admission')
    BY <1>1, <1>3, PlacedInside, Zenon
  <2>3. Goto(a, r)
    BY <1>5, Zenon
  <2> HIDE DEF r
  <2>4. Typed(a) /\ at'[a] = r
    BY <1>2, <1>3, <2>1, <2>2, <2>3, TypedBy, Zenon
  <2> QED BY <1>2, <2>1, <2>4, Zenon
<1> QED BY <1>4, <1>5, Zenon DEF ReadIngest

LEMMA BeginTyped ==
    ASSUME DataInv, PlaceInv, NEW a \in Actors, Begin(a), ~ ReadIngest(a)
    PROVE  /\ Typed(a) /\ at'[a].pc = "retry"
           /\ UNCHANGED <<job, intents, attempt, ledger>>
<1>1. /\ Goto(a, On("retry", at[a].job)) /\ at[a].pc = "begin"
      /\ UNCHANGED <<job, intents, attempt, artifact, ledger, intake, admission, faults>>
  BY Zenon DEF Begin
<1>2. at[a].job \in Ingests /\ admission # a
  BY <1>1, Holds, Zenon DEF IngestSteps, Locked
<1>3. DataInv'
  BY <1>1, Zenon DEF DataInv
<1>4. Typed(a) /\ at'[a].pc = "retry"
  BY <1>1, <1>2, <1>3, SameLock, GoneOut, Zenon DEF IngestSteps, Locked
<1> QED BY <1>1, <1>4, Zenon

(* The claim of an ingest by an attempt v. *)
LEMMA ClaimedTyped ==
    ASSUME DataInv, NEW j \in Ingests, NEW v \in Actors \cup {Gone}
    PROVE  /\ [Replayed EXCEPT ![j] = "running"] \in [Jobs -> States]
           /\ [attempt EXCEPT ![j] = v] \in [Ingests -> Actors \cup {None, Gone}]
<1>1. "running" \in States /\ j \in Jobs
  BY IngestAssumption, Zenon DEF States, Active
<1>2. [Replayed EXCEPT ![j] = "running"] \in [Jobs -> States]
  BY <1>1, SetFacts, Zenon
<1>3. [attempt EXCEPT ![j] = v] \in [Ingests -> Actors \cup {None, Gone}]
  BY Zenon DEF DataInv
<1> QED BY <1>2, <1>3, Zenon

LEMMA StartIngestTyped ==
    ASSUME DataInv, PlaceInv, NEW a \in Actors, StartIngest(a)
    PROVE  Typed(a) /\ at'[a].pc \in {"write", "idle"} /\ at[a].job \in Ingests
<1>1. at[a].job \in Ingests /\ admission = a
  BY Holds, Zenon DEF StartIngest, IngestSteps, Locked
<1>2. LockMove(a) /\ admission' # a
  BY UnlockMoves, Zenon DEF StartIngest
<1>3. CASE Claimed(a, at[a].job) /\ Goto(a, On("write", at[a].job))
  <2>1. job' \in [Jobs -> States] /\ attempt' \in [Ingests -> Actors \cup {None, Gone}]
    BY <1>1, <1>3, ClaimedTyped, Zenon DEF Claimed
  <2>2. DataInv'
    BY <2>1, Zenon DEF DataInv, StartIngest
  <2>3. Typed(a) /\ at'[a].pc = "write"
    BY <1>1, <1>2, <1>3, <2>2, GoneOut, Zenon DEF IngestSteps, Locked
  <2> QED BY <1>1, <2>3, Zenon
<1>4. CASE job' = Replayed /\ Goto(a, Idle) /\ UNCHANGED attempt
  <2>1. DataInv'
    BY <1>4, ReplayedFacts, Zenon DEF DataInv, StartIngest
  <2>2. Typed(a) /\ at'[a] = Idle
    BY <1>2, <1>4, <2>1, GoneIdle, Zenon
  <2> QED BY <1>1, <2>2, IdleFields, Zenon
<1> QED BY <1>3, <1>4, Zenon DEF StartIngest

LEMMA ClaimTyped ==
    ASSUME DataInv, PlaceInv, NEW a \in Actors, Claim(a)
    PROVE  /\ Typed(a)
           /\ at[a].job \in Ingests /\ admission = a
           /\ \/ at'[a].pc = "write" /\ Claimed(a, at[a].job)
              \/ /\ at'[a].pc = "release" /\ at'[a].todo = {at[a].job} /\ admission' = a
                 /\ \/ job' = Replayed /\ UNCHANGED attempt
                    \/ /\ job' = [Replayed EXCEPT ![at[a].job] = "running"]
                       /\ attempt' = [attempt EXCEPT ![at[a].job] = Gone]
<1> DEFINE j == at[a].job
<1>1. j \in Ingests /\ j \in Jobs /\ admission = a
  BY Holds, Zenon DEF Claim, IngestSteps, Locked
<1>3. CASE Claimed(a, j) /\ Goto(a, On("write", j)) /\ Unlock(a) /\ UNCHANGED faults
  <2>1. job' \in [Jobs -> States] /\ attempt' \in [Ingests -> Actors \cup {None, Gone}]
    BY <1>1, <1>3, ClaimedTyped, Zenon DEF Claimed
  <2>2. DataInv'
    BY <1>3, <2>1, Zenon DEF DataInv, Claim
  <2>3. LockMove(a) /\ admission' # a
    BY <1>3, UnlockMoves, Zenon
  <2>4. Typed(a) /\ at'[a].pc = "write"
    BY <1>1, <1>3, <2>2, <2>3, GoneOut, Zenon DEF IngestSteps, Locked
  <2> QED BY <1>1, <1>3, <2>4, Zenon
<1>4. CASE job' = Replayed /\ Goto(a, Releasing(j, {j}, "idle")) /\ UNCHANGED <<attempt, admission, faults>>
  <2>1. DataInv'
    BY <1>4, ReplayedFacts, Zenon DEF DataInv, Claim
  <2>2. Typed(a) /\ at'[a].pc = "release" /\ at'[a].todo = {j}
    BY <1>1, <1>4, <2>1, SameLock, GoneReleaseOne, Zenon
  <2> QED BY <1>1, <1>4, <2>2, Zenon
<1>5. CASE /\ Fault /\ job' = [Replayed EXCEPT ![j] = "running"]
           /\ attempt' = [attempt EXCEPT ![j] = Gone]
           /\ Goto(a, Releasing(j, {j}, "idle")) /\ UNCHANGED admission
  <2>1. job' \in [Jobs -> States] /\ attempt' \in [Ingests -> Actors \cup {None, Gone}]
    BY <1>1, <1>5, ClaimedTyped, Zenon
  <2>2. faults' \in 0 .. MaxFaults
    BY <1>5, FaultFacts, Zenon
  <2>3. DataInv'
    BY <2>1, <2>2, Zenon DEF DataInv, Claim
  <2>4. Typed(a) /\ at'[a].pc = "release" /\ at'[a].todo = {j}
    BY <1>1, <1>5, <2>3, SameLock, GoneReleaseOne, Zenon
  <2> QED BY <1>1, <1>5, <2>4, Zenon
<1> QED BY <1>3, <1>4, <1>5, Zenon DEF Claim

LEMMA WriteTyped ==
    ASSUME DataInv, PlaceInv, NEW a \in Actors, Write(a)
    PROVE  Typed(a) /\ at'[a].pc \in {"complete", "fail"}
<1>1. at[a].job \in Ingests /\ admission # a
  BY Holds, Zenon DEF Write, IngestSteps, Locked
<1>2. DataInv' /\ UNCHANGED admission
  <2>1. artifact' \subseteq Ingests
    BY <1>1, Zenon DEF DataInv, Write
  <2> QED BY <2>1, ReplayedFacts, Zenon DEF DataInv, Write
<1>3. \E p \in {"complete", "fail"} : Goto(a, On(p, at[a].job))
  BY Zenon DEF Write
<1>4. \A p \in {"complete", "fail"} : p \in IngestSteps \ Locked
  BY Zenon DEF IngestSteps, Locked
<1> QED BY <1>1, <1>2, <1>3, <1>4, SameLock, GoneOut, Zenon

LEMMA CompleteTyped ==
    ASSUME DataInv, PlaceInv, NEW a \in Actors, Complete(a)
    PROVE  /\ Typed(a)
           /\ \/ /\ at'[a].pc = "release" /\ at'[a].todo = {at[a].job}
                 /\ admission = None /\ admission' = a
                 /\ Owns(a, at[a].job) /\ job' = [Replayed EXCEPT ![at[a].job] = "succeeded"]
              \/ at'[a].pc = "fail" /\ job' = Replayed
           /\ at[a].job \in Ingests /\ UNCHANGED <<attempt, ledger>>
<1> DEFINE j == at[a].job
<1>1. j \in Ingests /\ j \in Jobs /\ admission # a
  BY Holds, Zenon DEF Complete, IngestSteps, Locked
<1>2. intents' = {} /\ UNCHANGED <<attempt, artifact, ledger, intake, faults>>
  BY Zenon DEF Complete
<1>3. CASE /\ Lock(a) /\ Owns(a, j) /\ job' = [Replayed EXCEPT ![j] = "succeeded"]
           /\ Goto(a, Releasing(j, {j}, "idle"))
  <2>1. "succeeded" \in States
    BY Zenon DEF States, Terminal
  <2>2. job' \in [Jobs -> States]
    BY <1>1, <1>3, <2>1, SetFacts, Zenon
  <2>3. DataInv'
    BY <1>2, <2>2, Zenon DEF DataInv
  <2>4. LockMove(a) /\ admission = None /\ admission' = a
    BY <1>3, LockMoves, Zenon
  <2>5. Typed(a) /\ at'[a].pc = "release" /\ at'[a].todo = {j}
    BY <1>1, <1>3, <2>3, <2>4, GoneReleaseOne, Zenon
  <2> QED BY <1>1, <1>2, <1>3, <2>4, <2>5, Zenon
<1>4. CASE UNCHANGED admission /\ job' = Replayed /\ Goto(a, On("fail", j))
  <2>1. DataInv'
    BY <1>2, <1>4, ReplayedFacts, Zenon DEF DataInv
  <2>2. Typed(a) /\ at'[a].pc = "fail"
    BY <1>1, <1>4, <2>1, SameLock, GoneOut, Zenon DEF IngestSteps, Locked
  <2> QED BY <1>1, <1>2, <1>4, <2>2, Zenon
<1> QED BY <1>3, <1>4, Zenon DEF Complete

LEMMA FailTyped ==
    ASSUME DataInv, PlaceInv, NEW a \in Actors, Fail(a)
    PROVE  /\ Typed(a)
           /\ \/ /\ at'[a].pc = "release" /\ at'[a].todo = {at[a].job}
                 /\ admission = None /\ admission' = a /\ UNCHANGED attempt
                 /\ \/ job' = Replayed /\ Replayed[at[a].job] \in Terminal
                    \/ job' = [Replayed EXCEPT ![at[a].job] = "failed"] /\ Owns(a, at[a].job)
              \/ at'[a].pc = "idle" /\ job' = Replayed /\ attempt' = LetGo(a, attempt)
           /\ at[a].job \in Ingests /\ UNCHANGED ledger
<1> DEFINE j == at[a].job
           returned == \/ Replayed[j] = "succeeded"
                       \/ Replayed[j] = "failed" /\ attempt[j] = a
<1>1. j \in Ingests /\ j \in Jobs /\ admission # a
  BY Holds, Zenon DEF Fail, IngestSteps, Locked
<1>2. intents' = {} /\ UNCHANGED <<artifact, ledger, intake, faults>>
  BY Zenon DEF Fail
<1>3. CASE /\ Owns(a, j) \/ returned
           /\ Lock(a) /\ job' = IF returned THEN Replayed ELSE [Replayed EXCEPT ![j] = "failed"]
           /\ Goto(a, Releasing(j, {j}, "idle")) /\ UNCHANGED attempt
  <2>1. "failed" \in States
    BY Zenon DEF States, Terminal
  <2>2. \/ job' = Replayed /\ Replayed[j] \in Terminal
        \/ job' = [Replayed EXCEPT ![j] = "failed"] /\ Owns(a, j)
    BY <1>3, Zenon DEF Terminal
  <2>3. job' \in [Jobs -> States]
    BY <1>1, <2>1, <2>2, ReplayedFacts, SetFacts, Zenon
  <2>4. DataInv'
    BY <1>2, <1>3, <2>3, Zenon DEF DataInv
  <2>5. LockMove(a) /\ admission = None /\ admission' = a
    BY <1>3, LockMoves, Zenon
  <2>6. Typed(a) /\ at'[a].pc = "release" /\ at'[a].todo = {j}
    BY <1>1, <1>3, <2>4, <2>5, GoneReleaseOne, Zenon
  <2> QED BY <1>1, <1>2, <1>3, <2>2, <2>5, <2>6, Zenon
<1>4. CASE job' = Replayed /\ Goto(a, Idle) /\ attempt' = LetGo(a, attempt) /\ UNCHANGED admission
  <2>1. DataInv'
    BY <1>2, <1>4, ReplayedFacts, LetGoFacts, Zenon DEF DataInv
  <2>2. Typed(a) /\ at'[a] = Idle
    BY <1>1, <1>4, <2>1, SameLock, GoneIdle, Zenon
  <2> QED BY <1>1, <1>2, <1>4, <2>2, IdleFields, Zenon
<1> QED BY <1>3, <1>4, Zenon DEF Fail

LEMMA GiveUpTyped ==
    ASSUME DataInv, PlaceInv, NEW a \in Actors, GiveUp(a)
    PROVE  Typed(a) /\ at'[a].pc = "idle"
<1>1. admission # a
  BY Holds, Zenon DEF GiveUp, Locked
<1>2. DataInv' /\ UNCHANGED admission /\ Goto(a, Idle)
  BY LetGoFacts, Zenon DEF GiveUp, DataInv
<1>3. Typed(a) /\ at'[a] = Idle
  BY <1>1, <1>2, SameLock, GoneIdle, Zenon
<1> QED BY <1>3, IdleFields, Zenon

LEMMA CrashTyped ==
    ASSUME DataInv, PlaceInv, NEW a \in Actors, Crash(a)
    PROVE  /\ Typed(a) /\ at'[a].pc = "off"
           /\ \/ UNCHANGED <<job, intents>>
              \/ job' = Replayed /\ \E j \in Workloads : Replayed[j] = "running" /\ intents' = {j}
           /\ attempt' = LetGo(a, attempt) /\ UNCHANGED ledger
<1>1. /\ \/ UNCHANGED <<job, intents>>
         \/ job' = Replayed /\ \E j \in Workloads : Replayed[j] = "running" /\ intents' = {j}
      /\ attempt' = LetGo(a, attempt) /\ UNCHANGED <<artifact, ledger>>
      /\ Fault /\ Goto(a, Off) /\ Unlock(a) /\ intake' = [intake EXCEPT ![a] = "closed"]
  BY Zenon DEF Crash
<1>2. DataInv'
  <2>1. job' \in [Jobs -> States] /\ intents' \subseteq Workloads
    BY <1>1, ReplayedFacts, Zenon DEF DataInv
  <2>2. faults' \in 0 .. MaxFaults
    BY <1>1, FaultFacts, Zenon
  <2>3. /\ attempt' \in [Ingests -> Actors \cup {None, Gone}]
        /\ intake' \in [Actors -> {"closed", "open", "denied"}]
    BY <1>1, LetGoFacts, IntakeFacts, Zenon
  <2> QED BY <1>1, <2>1, <2>2, <2>3, Zenon DEF DataInv
<1>3. LockMove(a) /\ admission' # a
  BY <1>1, UnlockMoves, Zenon
<1>4. Typed(a) /\ at'[a] = Off
  BY <1>1, <1>2, <1>3, GoneIdle, Zenon
<1> QED BY <1>1, <1>4, IdleFields, Zenon

LEMMA StopTyped ==
    ASSUME DataInv, PlaceInv, NEW a \in Actors, Stop(a)
    PROVE  Typed(a) /\ at'[a].pc = "off" /\ UNCHANGED <<job, intents, attempt, ledger>>
<1>1. admission # a
  BY Holds, Zenon DEF Stop, Locked
<1>2. DataInv' /\ UNCHANGED admission /\ Goto(a, Off)
  BY IntakeFacts, Zenon DEF Stop, DataInv
<1>3. Typed(a) /\ at'[a] = Off
  BY <1>1, <1>2, SameLock, GoneIdle, Zenon
<1> QED BY <1>3, IdleFields, Zenon DEF Stop

(***************************************************************************)
(* Type correctness                                                        *)
(***************************************************************************)
LEMMA TypeStep ==
    ASSUME DataInv, PlaceInv, NEW a \in Actors,
           \/ Start(a) \/ Reconcile(a) \/ Release(a) \/ Readmit(a) \/ Admit(a) \/ Verify(a)
           \/ RecoverStaleJobs(a) \/ Acquire(a)
           \/ RecoverAbandoned(a) \/ Begin(a) \/ Retry(a) \/ StartIngest(a) \/ Claim(a)
           \/ Write(a) \/ Complete(a) \/ Fail(a) \/ GiveUp(a) \/ Crash(a) \/ Stop(a)
           \/ \E j \in Jobs : Submit(a, j)
           \/ \E j \in Workloads : End(a, j)
           \/ \E j \in Cancelable : Cancel(a, j)
    PROVE  Typed(a)
<1>1. CASE Start(a) \/ Reconcile(a) \/ Release(a)
  BY <1>1, StartTyped, ReconcileTyped, ReleaseTyped, Zenon
<1>2. CASE Readmit(a)
  <2>1. at[a].pc = "submit" /\ at[a].job \in Jobs
    BY <1>2, Holds, Zenon DEF Readmit
  <2>2. CASE Existing(a, at[a].job)
    BY <2>1, <2>2, ExistingTyped, Zenon
  <2>3. CASE Reserve(a, "admit") /\ UNCHANGED <<job, intents, attempt, artifact, intake>>
    BY <2>1, <2>3, ReserveTyped, Zenon
  <2> QED BY <1>2, <2>2, <2>3, Zenon DEF Readmit
<1>3. CASE Admit(a) \/ Verify(a)
  BY <1>3, AdmitTyped, VerifyTyped, Zenon
<1>4. CASE RecoverStaleJobs(a) \/ Acquire(a)
  BY <1>4, RecoverStaleJobsTyped, AcquireTyped, Zenon
<1>5. CASE RecoverAbandoned(a) \/ Begin(a)
  <2>1. Begin(a) /\ ReadIngest(a) => at[a].pc \in {"begin", "retry"}
    BY Zenon DEF Begin
  <2> QED BY <1>5, <2>1, RecoverAbandonedTyped, BeginTyped, ReadIngestTyped, Zenon
<1>6. CASE Retry(a)
  <2>1. at[a].pc = "retry"
    BY <1>6, Zenon DEF Retry
  <2>2. CASE ReadIngest(a)
    BY <2>1, <2>2, ReadIngestTyped, Zenon
  <2>3. CASE Reserve(a, "claim") /\ UNCHANGED <<job, intents, attempt, artifact, intake>>
    BY <2>1, <2>3, ReserveTyped, Zenon
  <2> QED BY <1>6, <2>2, <2>3, Zenon DEF Retry
<1>7. CASE StartIngest(a) \/ Claim(a) \/ Write(a)
  BY <1>7, StartIngestTyped, ClaimTyped, WriteTyped, Zenon
<1>8. CASE Complete(a) \/ Fail(a) \/ GiveUp(a)
  BY <1>8, CompleteTyped, FailTyped, GiveUpTyped, Zenon
<1>9. CASE Crash(a) \/ Stop(a)
  BY <1>9, CrashTyped, StopTyped, Zenon
<1>10. CASE \E j \in Jobs : Submit(a, j)
  <2>1. PICK j \in Jobs : Submit(a, j)
    BY <1>10, Zenon
  <2> QED BY <2>1, SubmitTyped, ExistingTyped, Zenon
<1>11. CASE \E j \in Workloads : End(a, j)
  BY <1>11, EndTyped, Zenon
<1>12. CASE \E j \in Cancelable : Cancel(a, j)
  BY <1>12, CancelTyped, IngestAssumption, Zenon
<1> QED BY <1>1, <1>2, <1>3, <1>4, <1>5, <1>6, <1>7, <1>8, <1>9, <1>10, <1>11, <1>12, Zenon

LEMMA InitTyped ==
    ASSUME Init
    PROVE  DataInv /\ PlaceInv
<1>1. "absent" \in States /\ 0 \in 0 .. MaxFaults
  BY LimitAssumption DEF States
<1>2. DataInv
  <2>1. job \in [Jobs -> States] /\ intents \subseteq Workloads /\ artifact \subseteq Ingests /\ ledger \subseteq Jobs
    BY <1>1, Zenon DEF Init
  <2>2. /\ attempt \in [Ingests -> Actors \cup {None, Gone}]
        /\ intake \in [Actors -> {"closed", "open", "denied"}]
    BY Zenon DEF Init
  <2> QED BY <1>1, <2>1, <2>2, Zenon DEF Init, DataInv
<1>3. at \in [Actors -> Places] /\ \A a \in Actors : at[a] = Off
  BY IdleFields, Zenon DEF Init
<1>4. \A a \in Actors : PlacedAt(a, at[a], admission)
  <2>1. \A a \in Actors : admission # a
    BY ActorAssumption, Zenon DEF Init
  <2> QED BY <1>3, <2>1, PlacedFree, Zenon
<1> QED BY <1>2, <1>3, <1>4, Zenon DEF Init, PlaceInv

LEMMA TypeIsKept ==
    DataInv /\ PlaceInv /\ [Next]_vars => DataInv' /\ PlaceInv'
<1> SUFFICES ASSUME DataInv, PlaceInv, [Next]_vars PROVE DataInv' /\ PlaceInv'
  BY Zenon
<1>1. CASE Next
  <2>1. PICK a \in Actors :
           \/ Start(a) \/ Reconcile(a) \/ Release(a) \/ Readmit(a) \/ Admit(a) \/ Verify(a)
           \/ RecoverStaleJobs(a) \/ Acquire(a)
           \/ RecoverAbandoned(a) \/ Begin(a) \/ Retry(a) \/ StartIngest(a) \/ Claim(a)
           \/ Write(a) \/ Complete(a) \/ Fail(a) \/ GiveUp(a) \/ Crash(a) \/ Stop(a)
           \/ \E j \in Jobs : Submit(a, j)
           \/ \E j \in Workloads : End(a, j)
           \/ \E j \in Cancelable : Cancel(a, j)
    BY <1>1, Zenon DEF Next
  <2>2. Typed(a)
    BY <2>1, TypeStep, Zenon
  <2> QED BY <2>2, Zenon DEF Typed
<1>2. CASE UNCHANGED vars
  BY <1>2, Zenon DEF vars, DataInv, PlaceInv
<1> QED BY <1>1, <1>2, Zenon

(* Each variable keeps its type, and the admission lock is held exactly by *)
(* an operation that is at a step inside it.                               *)
THEOREM StorageTypes == Spec => []TypeOK
<1>1. Init => DataInv /\ PlaceInv
  BY InitTyped
<1>2. DataInv /\ PlaceInv => TypeOK
  <2> SUFFICES ASSUME DataInv, PlaceInv PROVE TypeOK
    BY Zenon
  <2>1. ASSUME NEW a \in Actors
        PROVE  /\ at[a].pc \in Steps
               /\ at[a].job \in Jobs \cup {None}
               /\ at[a].todo \subseteq Jobs
               /\ at[a].then \in Steps
               /\ at[a].seen \subseteq Jobs
    <3>1. at[a] \in Places
      BY Zenon DEF PlaceInv
    <3> QED BY <3>1 DEF Places
  <2>2. ASSUME NEW a \in Actors
        PROVE  /\ at[a].pc \in {"admit", "claim", "start", "verify"} => admission = a
               /\ admission = a => at[a].pc \in {"admit", "claim", "start", "verify", "release"}
    BY Zenon DEF PlaceInv, PlacedAt, Locked
  <2> QED BY <2>1, <2>2, Zenon DEF TypeOK, DataInv, PlaceInv, Workloads
<1> QED BY <1>1, <1>2, TypeIsKept, PTL DEF Spec

(***************************************************************************)
(* Reservations of the jobs at work                                        *)
(***************************************************************************)
(* An interrupted stale recovery has chosen running jobs, and an ingest    *)
(* that was never claimed has no attempt.                                  *)
JobInv ==
    /\ \A j \in intents : job[j] = "running"
    /\ \A j \in Ingests : job[j] \in {"absent", "queued"} => attempt[j] = None

(* Process a may give back the reservation of j: j has ended for good, or  *)
(* nothing is at work on it and a holds the admission lock.                *)
Settled(a, j) ==
    \/ j \in Workloads /\ job[j] \in Terminal
    \/ admission = a /\ ~ AtWork(j)

(* What the step a process is at has established, and nobody else undoes.  *)
Good(a) ==
    /\ at[a].pc = "release" => \A j \in at[a].todo : Settled(a, j)
    /\ at[a].pc = "admit" => job[at[a].job] = "absent"
    /\ at[a].pc = "claim" => job[at[a].job] = "failed"
    /\ \/ at[a].pc = "start"
       \/ at[a].pc = "verify" /\ at[a].then = "start"
       => job[at[a].job] # "failed"
    /\ at[a].pc = "reconcile" => \A j \in Jobs : AtWork(j) => j \in at[a].seen

(* Reserved and not yet at work: the admission is under way. *)
Entering(j) == \E a \in Actors : at[a].pc \in {"admit", "claim"} /\ at[a].job = j

Held == {j \in Jobs : AtWork(j) \/ Entering(j)}

Apart == \A a, b \in Actors : at[a].pc \in {"admit", "claim"} => at[b].pc # "reconcile"

ReserveInv ==
    /\ DataInv /\ PlaceInv /\ JobInv /\ Apart
    /\ Held \subseteq ledger
    /\ \A a \in Actors : Good(a)

(* A step of process a that admits no job and claims no failed one.        *)
Steady(a) ==
    /\ \A j \in Jobs :
        \/ job'[j] = job[j]
        \/ job'[j] = Replayed[j]
        \/ /\ Replayed[j] \in Active /\ job'[j] # "absent"
           /\ j \in Ingests => job'[j] # "queued"
    /\ \A j \in Ingests :
        \/ attempt'[j] = attempt[j]
        \/ attempt'[j] = Gone /\ attempt[j] # None
        \/ job[j] = "queued" /\ job'[j] = "running"
    /\ \A j \in Ingests : job'[j] = "failed" => job[j] = "failed" \/ admission \in {None, a}
    /\ \A j \in intents' : job'[j] = "running"

(* What a steady step keeps. *)
Kept(a) ==
    /\ \A j \in Jobs : AtWork(j)' => AtWork(j)
    /\ \A j \in Workloads : job[j] \in Terminal => job'[j] \in Terminal
    /\ \A j \in Jobs : job[j] = "absent" => job'[j] = "absent"
    /\ \A j \in Ingests : job[j] = "failed" => job'[j] = "failed"
    /\ \A j \in Ingests : job'[j] = "failed" => job[j] = "failed" \/ admission \in {None, a}

LEMMA StateNames ==
    /\ Active \cap Terminal = {} /\ "absent" \notin Active \cup Terminal
    /\ "failed" \in Terminal /\ "queued" \in Active /\ "running" \in Active
    /\ "failed" \notin Active /\ Active = {"queued", "running"}
  BY Zenon DEF Active, Terminal

LEMMA ReplayedStates ==
    ASSUME DataInv, JobInv, NEW j \in Jobs
    PROVE  /\ Replayed[j] \in Active => Replayed[j] = job[j]
           /\ job[j] = "absent" => Replayed[j] = "absent"
           /\ job[j] = "failed" => Replayed[j] = "failed"
           /\ job[j] \in Terminal => Replayed[j] = job[j]
           /\ j \in Ingests => Replayed[j] = job[j]
<1>1. j \in intents => Replayed[j] = "failed" /\ job[j] = "running"
  BY ReplayedFacts, Zenon DEF JobInv
<1>2. j \notin intents => Replayed[j] = job[j]
  BY ReplayedFacts, Zenon
<1>3. j \in Ingests => Replayed[j] = job[j]
  BY ReplayedFacts, Zenon
<1>4. "running" \notin Terminal /\ "running" # "absent" /\ "running" # "failed" /\ "failed" \notin Active
  BY Zenon DEF Terminal, Active
<1> QED BY <1>1, <1>2, <1>3, <1>4, Zenon

LEMMA SteadyKeeps ==
    ASSUME DataInv, JobInv, NEW a \in Actors, Steady(a)
    PROVE  Kept(a) /\ JobInv'
<1>1. ASSUME NEW j \in Jobs, AtWork(j)' PROVE AtWork(j)
  <2>1. job'[j] \in Active /\ (j \in Ingests => attempt'[j] # Gone)
    BY <1>1, Zenon DEF AtWork
  <2>2. job[j] \in Active
    BY <2>1, ReplayedStates, Zenon DEF Steady
  <2>3. ASSUME j \in Ingests PROVE attempt[j] # Gone
    <3>1. attempt'[j] = attempt[j] \/ (attempt'[j] = Gone) \/ job[j] = "queued"
      BY <2>3, Zenon DEF Steady
    <3>2. job[j] = "queued" => attempt[j] = None
      BY <2>3, Zenon DEF JobInv
    <3> QED BY <2>1, <2>3, <3>1, <3>2, ActorAssumption, Zenon
  <2> QED BY <2>2, <2>3, Zenon DEF AtWork
<1>2. ASSUME NEW j \in Workloads, job[j] \in Terminal PROVE job'[j] \in Terminal
  <2>1. j \in Jobs
    BY Zenon DEF Workloads
  <2>2. Replayed[j] = job[j] /\ Replayed[j] \notin Active
    BY <1>2, <2>1, ReplayedStates, StateNames, Zenon
  <2> QED BY <1>2, <2>1, <2>2, Zenon DEF Steady
<1>3. ASSUME NEW j \in Jobs, job[j] = "absent" PROVE job'[j] = "absent"
  <2>1. Replayed[j] = "absent" /\ "absent" \notin Active
    BY <1>3, ReplayedStates, StateNames, Zenon
  <2> QED BY <1>3, <2>1, Zenon DEF Steady
<1>4. ASSUME NEW j \in Ingests, job[j] = "failed" PROVE job'[j] = "failed"
  <2>1. j \in Jobs
    BY IngestAssumption, Zenon
  <2>2. Replayed[j] = "failed" /\ "failed" \notin Active
    BY <1>4, <2>1, ReplayedStates, StateNames, Zenon
  <2> QED BY <1>4, <2>1, <2>2, Zenon DEF Steady
<1>5. ASSUME NEW j \in Ingests, job'[j] \in {"absent", "queued"} PROVE attempt'[j] = None
  <2>1. j \in Jobs /\ Replayed[j] = job[j]
    BY IngestAssumption, ReplayedFacts, Zenon
  <2>2. job'[j] = job[j]
    BY <1>5, <2>1, Zenon DEF Steady
  <2>3. attempt[j] = None
    BY <1>5, <2>2, Zenon DEF JobInv
  <2>4. job'[j] # "running"
    BY <1>5, Zenon
  <2> QED BY <2>3, <2>4, Zenon DEF Steady
<1>6. \A j \in Ingests : job'[j] = "failed" => job[j] = "failed" \/ admission \in {None, a}
  BY Zenon DEF Steady
<1>7. JobInv'
  BY <1>5, Zenon DEF JobInv, Steady
<1> QED BY <1>1, <1>2, <1>3, <1>4, <1>6, <1>7, Zenon DEF Kept

(* What the others have established stays. *)
LEMMA KeptGood ==
    ASSUME DataInv, PlaceInv, NEW a \in Actors, Kept(a), Typed(a),
           NEW b \in Actors, b # a, Good(b)
    PROVE  Good(b)'
<1>0. at'[b] = at[b]
  BY Zenon DEF Typed, Others
<1>1. at[b].pc \in Locked => admission = b
  BY Holds, Zenon
<1>2. ASSUME at[b].pc = "release", NEW j \in at[b].todo PROVE Settled(b, j)'
  <2>0. j \in Jobs
    <3>1. at[b] \in Places
      BY Zenon DEF PlaceInv
    <3> QED BY <1>2, <3>1 DEF Places
  <2>1. Settled(b, j)
    BY <1>2, Zenon DEF Good
  <2>2. CASE j \in Workloads /\ job[j] \in Terminal
    BY <2>2, Zenon DEF Kept, Settled
  <2>3. CASE admission = b /\ ~ AtWork(j)
    <3>1. ~ AtWork(j)'
      BY <2>0, <2>3, Zenon DEF Kept
    <3>2. admission' = b
      BY <2>3, ActorAssumption, Zenon DEF Typed, LockMove
    <3> QED BY <3>1, <3>2, Zenon DEF Settled
  <2> QED BY <2>1, <2>2, <2>3, Zenon DEF Settled
<1>3. ASSUME at[b].pc = "admit" PROVE job'[at[b].job] = "absent"
  <2>1. at[b].job \in Jobs /\ job[at[b].job] = "absent"
    BY <1>3, Holds, Zenon DEF Good
  <2> QED BY <2>1, Zenon DEF Kept
<1>4. ASSUME at[b].pc = "claim" PROVE job'[at[b].job] = "failed"
  <2>1. at[b].job \in Ingests /\ job[at[b].job] = "failed"
    BY <1>4, Holds, Zenon DEF Good, IngestSteps
  <2> QED BY <2>1, Zenon DEF Kept
<1>5. ASSUME \/ at[b].pc = "start"
             \/ at[b].pc = "verify" /\ at[b].then = "start"
      PROVE  job'[at[b].job] # "failed"
  <2>1. at[b].job \in Ingests
    BY <1>5, Zenon DEF PlaceInv, PlacedAt, IngestSteps
  <2>2. job[at[b].job] # "failed"
    BY <1>5, Zenon DEF Good
  <2>3. admission = b
    BY <1>5, <1>1, Zenon DEF Locked
  <2> QED BY <2>1, <2>2, <2>3, ActorAssumption, Zenon DEF Kept
<1>6. ASSUME at[b].pc = "reconcile", NEW j \in Jobs, AtWork(j)' PROVE j \in at[b].seen
  <2>1. AtWork(j)
    BY <1>6, Zenon DEF Kept
  <2> QED BY <1>6, <2>1, Zenon DEF Good
<1> QED BY <1>0, <1>2, <1>3, <1>4, <1>5, <1>6, Zenon DEF Good

(* A job that loses its reservation is not at work and nobody but a is     *)
(* about to admit it.                                                      *)
Loose(a, j) ==
    /\ ~ AtWork(j)
    /\ \A b \in Actors : b # a => ~ (at[b].pc \in {"admit", "claim"} /\ at[b].job = j)

LEMMA SteadyStep ==
    ASSUME ReserveInv, NEW a \in Actors, Typed(a), Steady(a), Good(a)',
           at'[a].pc \notin {"admit", "claim"},
           at'[a].pc = "reconcile" => Nobody({"admit", "claim"}),
           \A j \in Jobs : j \in ledger /\ j \notin ledger' => Loose(a, j)
    PROVE  ReserveInv' /\ Held' \subseteq Held
<1>1. DataInv /\ PlaceInv /\ JobInv /\ Apart /\ Held \subseteq ledger
  BY Zenon DEF ReserveInv
<1>2. Kept(a) /\ JobInv' /\ DataInv' /\ PlaceInv' /\ \A b \in Actors : b # a => at'[b] = at[b]
  BY <1>1, SteadyKeeps, Zenon DEF Typed, Others
<1>3. ASSUME NEW b \in Actors PROVE Good(b)'
  BY <1>1, <1>2, <1>3, KeptGood, Zenon DEF ReserveInv
<1>4. Apart'
  BY <1>1, <1>2, Zenon DEF Apart, Nobody
<1>5. ASSUME NEW j \in Jobs, AtWork(j)' \/ Entering(j)'
      PROVE  /\ AtWork(j) \/ Entering(j)
             /\ ~ Loose(a, j)
  <2>1. CASE AtWork(j)'
    BY <1>2, <2>1, Zenon DEF Kept, Loose
  <2>2. CASE Entering(j)'
    <3>1. PICK b \in Actors : at'[b].pc \in {"admit", "claim"} /\ at'[b].job = j
      BY <2>2, Zenon DEF Entering
    <3>2. b # a /\ at'[b] = at[b]
      BY <3>1, <1>2, Zenon
    <3> QED BY <3>1, <3>2, Zenon DEF Entering, Loose
  <2> QED BY <1>5, <2>1, <2>2, Zenon
<1>6. Held' \subseteq Held
  BY <1>5, Zenon DEF Held
<1>7. Held' \subseteq ledger'
  <2> SUFFICES ASSUME NEW j \in Jobs, AtWork(j)' \/ Entering(j)' PROVE j \in ledger'
    BY Zenon DEF Held
  <2>1. j \in ledger
    BY <1>1, <1>5, Zenon DEF Held
  <2> QED BY <2>1, <1>5, Zenon
<1> QED BY <1>2, <1>3, <1>4, <1>6, <1>7, Zenon DEF ReserveInv

(* The same when the ledger does not shrink. *)
LEMMA SteadyGrows ==
    ASSUME ReserveInv, NEW a \in Actors, Typed(a), Steady(a), Good(a)',
           at'[a].pc \notin {"admit", "claim", "reconcile"}, ledger \subseteq ledger'
    PROVE  ReserveInv' /\ Held' \subseteq Held
<1>1. at'[a].pc \notin {"admit", "claim"} /\ at'[a].pc # "reconcile"
  BY Zenon
<1> QED BY <1>1, SteadyStep, Zenon

LEMMA GoodOutside ==
    ASSUME NEW a \in Actors,
           at'[a].pc \notin {"release", "admit", "claim", "start", "verify", "reconcile"}
    PROVE  Good(a)' /\ at'[a].pc \notin {"admit", "claim", "reconcile"}
  BY Zenon DEF Good

LEMMA GoodRelease ==
    ASSUME NEW a \in Actors, at'[a].pc = "release", \A j \in at'[a].todo : Settled(a, j)'
    PROVE  Good(a)' /\ at'[a].pc \notin {"admit", "claim", "reconcile"}
  BY Zenon DEF Good

(* The attempt of a request that ends is let go, or the attempts stay. *)
LEMMA AttemptsEnd ==
    ASSUME DataInv, NEW a \in Actors, attempt' = attempt \/ attempt' = LetGo(a, attempt)
    PROVE  \A j \in Ingests : attempt'[j] = attempt[j] \/ (attempt'[j] = Gone /\ attempt[j] # None)
  BY LetGoFacts, ActorAssumption, Zenon

LEMMA ReplaySteady ==
    ASSUME DataInv, JobInv, NEW a \in Actors, job' = Replayed, intents' = {},
           attempt' = attempt \/ attempt' = LetGo(a, attempt)
    PROVE  Steady(a)
<1>1. \A j \in Ingests : attempt'[j] = attempt[j] \/ (attempt'[j] = Gone /\ attempt[j] # None)
  BY AttemptsEnd, Zenon
<1>2. \A j \in Ingests : job'[j] = job[j]
  BY ReplayedFacts, Zenon
<1> QED BY <1>1, <1>2, Zenon DEF Steady

LEMMA SameSteady ==
    ASSUME DataInv, JobInv, NEW a \in Actors, UNCHANGED <<job, intents>>,
           attempt' = attempt \/ attempt' = LetGo(a, attempt)
    PROVE  Steady(a)
<1>1. \A j \in Ingests : attempt'[j] = attempt[j] \/ (attempt'[j] = Gone /\ attempt[j] # None)
  BY AttemptsEnd, Zenon
<1> QED BY <1>1, Zenon DEF Steady, JobInv

LEMMA SetSteady ==
    ASSUME DataInv, JobInv, NEW a \in Actors, NEW k \in Jobs, NEW s \in States,
           job' = [Replayed EXCEPT ![k] = s], s # "absent", Replayed[k] \in Active,
           k \in Ingests => s # "queued" /\ admission \in {None, a},
           intents' = {}, attempt' = attempt
    PROVE  Steady(a)
<1>1. job'[k] = s /\ \A j \in Jobs : j # k => job'[j] = Replayed[j]
  BY SetFacts, Zenon
<1>2. \A j \in Ingests : j \in Jobs /\ Replayed[j] = job[j]
  BY ReplayedFacts, IngestAssumption, Zenon
<1>3. \A j \in Ingests : job'[j] = "failed" => job[j] = "failed" \/ admission \in {None, a}
  BY <1>1, <1>2, Zenon
<1>4. \A j \in Jobs : \/ job'[j] = Replayed[j]
                      \/ /\ Replayed[j] \in Active /\ job'[j] # "absent"
                         /\ j \in Ingests => job'[j] # "queued"
  BY <1>1, Zenon
<1> QED BY <1>3, <1>4, Zenon DEF Steady

(* What an action keeps that reserves nothing. *)
Safe == ReserveInv' /\ Held' \subseteq Held

LEMMA StartSafe ==
    ASSUME ReserveInv, Overlap = FALSE, NEW a \in Actors, Start(a)
    PROVE  Safe
<1>1. DataInv /\ PlaceInv /\ JobInv
  BY Zenon DEF ReserveInv
<1>2. /\ job' = Replayed /\ intents' = {} /\ attempt' = attempt /\ ledger' = ledger
      /\ Nobody({"admit", "claim"})
  BY Zenon DEF Start
<1>3. /\ Typed(a)
      /\ \/ at'[a].pc = "idle"
         \/ at'[a].pc = "reconcile" /\ at'[a].seen = {j \in Jobs : Replayed[j] \in Active}
  BY <1>1, StartTyped, Zenon
<1>4. Good(a)' /\ at'[a].pc \notin {"admit", "claim"}
  <2>1. CASE at'[a].pc = "idle"
    BY <2>1, GoodOutside, Zenon
  <2>2. CASE at'[a].pc = "reconcile" /\ at'[a].seen = {j \in Jobs : Replayed[j] \in Active}
    <3>1. \A j \in Jobs : AtWork(j)' => j \in at'[a].seen
      BY <1>2, <2>2, Zenon DEF AtWork
    <3> QED BY <2>2, <3>1, Zenon DEF Good
  <2> QED BY <1>3, <2>1, <2>2, Zenon
<1>5. Steady(a)
  BY <1>1, <1>2, ReplaySteady, Zenon
<1> QED BY <1>2, <1>3, <1>4, <1>5, SteadyStep, Zenon DEF Safe

(* reconcile_reservations replaces the ledger by the jobs its start has    *)
(* read: those at work are among them, and nobody admits meanwhile.        *)
LEMMA ReconcileSafe ==
    ASSUME ReserveInv, NEW a \in Actors, Reconcile(a)
    PROVE  Safe
<1>1. DataInv /\ PlaceInv /\ JobInv /\ Apart /\ Good(a)
  BY Zenon DEF ReserveInv
<1>2. /\ UNCHANGED <<job, intents>> /\ attempt' = attempt /\ ledger' \in {ledger, at[a].seen}
      /\ at[a].pc = "reconcile"
  BY Zenon DEF Reconcile
<1>3. Typed(a) /\ at'[a].pc = "idle"
  BY <1>1, ReconcileTyped, Zenon
<1>4. ASSUME NEW j \in Jobs, j \in ledger, j \notin ledger' PROVE Loose(a, j)
  <2>1. j \notin at[a].seen
    BY <1>2, <1>4, Zenon
  <2>2. ~ AtWork(j)
    BY <1>1, <1>2, <2>1, Zenon DEF Good
  <2> QED BY <1>1, <1>2, <2>2, Zenon DEF Loose, Apart
<1>5. Steady(a) /\ Good(a)' /\ at'[a].pc \notin {"admit", "claim"} /\ at'[a].pc # "reconcile"
  BY <1>1, <1>2, <1>3, SameSteady, GoodOutside, Zenon
<1> QED BY <1>3, <1>4, <1>5, SteadyStep, Zenon DEF Safe

(* release, by a process that found the job settled. *)
LEMMA ReleaseSafe ==
    ASSUME ReserveInv, NEW a \in Actors, Release(a)
    PROVE  Safe
<1>1. DataInv /\ PlaceInv /\ JobInv /\ Good(a)
  BY Zenon DEF ReserveInv
<1>2. /\ Typed(a)
      /\ \E j \in at[a].todo : ledger' = ledger \/ ledger' = ledger \ {j}
      /\ \/ /\ at'[a].pc = "release" /\ at'[a].todo \subseteq at[a].todo
            /\ UNCHANGED <<admission, attempt>>
         \/ at'[a].pc \in {"idle", "acquire", "ingest", "begin"}
      /\ attempt' = attempt \/ attempt' = LetGo(a, attempt)
  BY <1>1, ReleaseTyped, Zenon
<1>3. UNCHANGED <<job, intents>> /\ at[a].pc = "release"
  BY Zenon DEF Release
<1>4. \A j \in at[a].todo : Settled(a, j)
  BY <1>1, <1>3, Zenon DEF Good
<1>5. ASSUME NEW j \in Jobs, j \in ledger, j \notin ledger' PROVE Loose(a, j)
  <2>1. Settled(a, j)
    BY <1>2, <1>4, <1>5, Zenon
  <2>2. ~ AtWork(j)
    BY <2>1, StateNames, Zenon DEF Settled, AtWork
  <2>3. ASSUME NEW b \in Actors, b # a, at[b].pc \in {"admit", "claim"}, at[b].job = j PROVE FALSE
    <3>1. admission = b /\ Good(b)
      BY <1>1, <2>3, Holds, Zenon DEF Locked, ReserveInv
    <3>2. j \in Workloads /\ job[j] \in Terminal
      BY <2>1, <2>3, <3>1, Zenon DEF Settled
    <3>3. at[b].pc = "admit" => job[j] = "absent"
      BY <2>3, <3>1, Zenon DEF Good
    <3>4. at[b].pc = "claim" => j \in Ingests
      BY <1>1, <2>3, Holds, Zenon DEF IngestSteps
    <3> QED BY <2>3, <3>2, <3>3, <3>4, StateNames, Zenon DEF Workloads
  <2> QED BY <2>2, <2>3, Zenon DEF Loose
<1>6. Good(a)' /\ at'[a].pc \notin {"admit", "claim", "reconcile"}
  <2>1. CASE /\ at'[a].pc = "release" /\ at'[a].todo \subseteq at[a].todo
             /\ UNCHANGED <<admission, attempt>>
    <3>1. \A j \in at'[a].todo : Settled(a, j)'
      BY <1>3, <1>4, <2>1, Zenon DEF Settled, AtWork
    <3> QED BY <2>1, <3>1, GoodRelease, Zenon
  <2>2. CASE at'[a].pc \in {"idle", "acquire", "ingest", "begin"}
    <3>1. at'[a].pc \notin {"release", "admit", "claim", "start", "verify", "reconcile"}
      BY <2>2, Zenon
    <3> QED BY <3>1, GoodOutside, Zenon
  <2> QED BY <1>2, <2>1, <2>2, Zenon
<1>7. Steady(a) /\ at'[a].pc \notin {"admit", "claim"} /\ at'[a].pc # "reconcile"
  BY <1>1, <1>2, <1>3, <1>6, SameSteady, Zenon
<1> QED BY <1>2, <1>5, <1>6, <1>7, SteadyStep, Zenon DEF Safe

(* Under the admission lock, a job that is not active is settled. *)
LEMMA SettledInside ==
    ASSUME NEW a, NEW j, admission' = a, job'[j] \notin Active
    PROVE  Settled(a, j)'
  BY Zenon DEF Settled, AtWork

LEMMA ExistingSafe ==
    ASSUME ReserveInv, NEW a \in Actors, NEW j \in Jobs, Existing(a, j)
    PROVE  Safe
<1>1. DataInv /\ PlaceInv /\ JobInv
  BY Zenon DEF ReserveInv
<1>2. job' = Replayed /\ intents' = {} /\ attempt' = attempt /\ ledger' = ledger
  BY Zenon DEF Existing
<1>3. /\ Typed(a)
      /\ \/ /\ at'[a].pc = "release" /\ at'[a].todo = {j} /\ Replayed[j] \in Terminal
            /\ admission' = a
         \/ at'[a].pc = "verify" /\ at'[a].then # "start"
  BY <1>1, ExistingTyped, Zenon
<1>4. Good(a)' /\ at'[a].pc \notin {"admit", "claim", "reconcile"}
  <2>1. CASE /\ at'[a].pc = "release" /\ at'[a].todo = {j} /\ Replayed[j] \in Terminal
             /\ admission' = a
    <3>1. Settled(a, j)'
      BY <1>2, <2>1, SettledInside, StateNames, Zenon
    <3> QED BY <2>1, <3>1, GoodRelease, Zenon
  <2>2. CASE at'[a].pc = "verify" /\ at'[a].then # "start"
    BY <2>2, Zenon DEF Good
  <2> QED BY <1>3, <2>1, <2>2, Zenon
<1>5. Steady(a) /\ ledger \subseteq ledger'
  BY <1>1, <1>2, ReplaySteady, Zenon
<1> QED BY <1>3, <1>4, <1>5, SteadyGrows, Zenon DEF Safe

(* Steps that leave the jobs and the ledger and only move the process. *)
LEMMA MoveSafe ==
    ASSUME ReserveInv, NEW a \in Actors, Typed(a), UNCHANGED <<job, intents, ledger>>,
           attempt' = attempt \/ attempt' = LetGo(a, attempt),
           Good(a)', at'[a].pc \notin {"admit", "claim", "reconcile"}
    PROVE  Safe
<1>1. Steady(a) /\ ledger \subseteq ledger'
  BY SameSteady, Zenon DEF ReserveInv
<1> QED BY <1>1, SteadyGrows, Zenon DEF Safe

LEMMA SubmitSafe ==
    ASSUME ReserveInv, NEW a \in Actors, NEW j \in Jobs, Submit(a, j)
    PROVE  Safe
<1>1. CASE Existing(a, j)
  BY <1>1, ExistingSafe, Zenon
<1>2. CASE ~ Existing(a, j)
  <2>1. Typed(a) /\ at'[a].pc = "submit" /\ UNCHANGED <<job, intents, attempt, ledger>>
    BY <1>2, SubmitTyped, Zenon DEF ReserveInv
  <2>2. Good(a)' /\ at'[a].pc \notin {"admit", "claim", "reconcile"}
    BY <2>1, GoodOutside, Zenon
  <2> QED BY <2>1, <2>2, MoveSafe, Zenon
<1> QED BY <1>1, <1>2, Zenon

LEMMA VerifySafe ==
    ASSUME ReserveInv, NEW a \in Actors, Verify(a)
    PROVE  Safe
<1>1. /\ Typed(a)
      /\ \/ at'[a].pc \in {"idle", "ingest"}
         \/ at'[a].pc = "start" /\ at[a].then = "start" /\ at'[a].job = at[a].job
      /\ UNCHANGED <<job, intents, attempt, ledger>>
  BY VerifyTyped, Zenon DEF ReserveInv
<1>2. at[a].then = "start" => job[at[a].job] # "failed"
  BY Zenon DEF ReserveInv, Good, Verify
<1>3. Good(a)' /\ at'[a].pc \notin {"admit", "claim", "reconcile"}
  <2>1. CASE at'[a].pc \in {"idle", "ingest"}
    <3>1. at'[a].pc \notin {"release", "admit", "claim", "start", "verify", "reconcile"}
      BY <2>1, Zenon
    <3> QED BY <3>1, GoodOutside, Zenon
  <2>2. CASE at'[a].pc = "start" /\ at[a].then = "start" /\ at'[a].job = at[a].job
    BY <1>1, <1>2, <2>2, Zenon DEF Good
  <2> QED BY <1>1, <2>1, <2>2, Zenon
<1> QED BY <1>1, <1>3, MoveSafe, Zenon

(* A process outside the lock gives back what workloads that have ended    *)
(* had reserved.                                                           *)
LEMMA EndedSafe ==
    ASSUME ReserveInv, NEW a \in Actors, Typed(a), Steady(a), ledger' = ledger,
           \/ at'[a].pc \in {"idle", "acquire"}
           \/ /\ at'[a].pc = "release"
              /\ \A j \in at'[a].todo : j \in Workloads /\ job'[j] \in Terminal
    PROVE  Safe
<1>1. CASE at'[a].pc \in {"idle", "acquire"}
  <2>1. at'[a].pc \notin {"release", "admit", "claim", "start", "verify", "reconcile"}
    BY <1>1, Zenon
  <2> QED BY <2>1, GoodOutside, SteadyGrows, Zenon DEF Safe
<1>2. CASE /\ at'[a].pc = "release"
           /\ \A j \in at'[a].todo : j \in Workloads /\ job'[j] \in Terminal
  <2>1. \A j \in at'[a].todo : Settled(a, j)'
    BY <1>2, Zenon DEF Settled
  <2> QED BY <1>2, <2>1, GoodRelease, SteadyGrows, Zenon DEF Safe
<1> QED BY <1>1, <1>2, Zenon

LEMMA RecoverStaleJobsSafe ==
    ASSUME ReserveInv, NEW a \in Actors, RecoverStaleJobs(a)
    PROVE  Safe
<1>1. DataInv /\ PlaceInv /\ JobInv
  BY Zenon DEF ReserveInv
<1>2. /\ Typed(a)
      /\ \/ at'[a].pc = "acquire"
         \/ /\ at'[a].pc = "release"
            /\ \A j \in at'[a].todo : j \in Jobs /\ Replayed[j] = "running" /\ job'[j] = "failed"
  BY <1>1, RecoverStaleJobsTyped, Zenon
<1>3. /\ \A j \in Jobs : \/ job'[j] = Replayed[j]
                         \/ /\ j \in Workloads /\ Replayed[j] = "running"
                            /\ job'[j] \in {"queued", "failed"}
      /\ intents' = {} /\ UNCHANGED <<attempt, ledger>>
  BY Zenon DEF RecoverStaleJobs
<1>4. Steady(a)
  <2>1. \A j \in Ingests : job'[j] = job[j]
    BY <1>1, <1>3, ReplayedFacts, IngestAssumption, Zenon DEF Workloads
  <2>2. \A j \in Jobs : \/ job'[j] = Replayed[j]
                        \/ /\ Replayed[j] \in Active /\ job'[j] # "absent"
                           /\ j \in Ingests => job'[j] # "queued"
    <3> SUFFICES ASSUME NEW j \in Jobs, j \in Workloads, Replayed[j] = "running",
                        job'[j] \in {"queued", "failed"}
                 PROVE  /\ Replayed[j] \in Active /\ job'[j] # "absent"
                        /\ j \in Ingests => job'[j] # "queued"
      BY <1>3, Zenon
    <3> QED BY StateNames, Zenon DEF Workloads
  <2> QED BY <1>3, <2>1, <2>2, Zenon DEF Steady
<1>5. ASSUME NEW j \in Jobs, Replayed[j] = "running", job'[j] = "failed"
      PROVE  j \in Workloads /\ job'[j] \in Terminal
  BY <1>3, <1>5, StateNames, Zenon
<1> QED BY <1>2, <1>3, <1>4, <1>5, EndedSafe, Zenon

LEMMA AcquireSafe ==
    ASSUME ReserveInv, NEW a \in Actors, Acquire(a)
    PROVE  Safe
<1>1. DataInv /\ PlaceInv /\ JobInv
  BY Zenon DEF ReserveInv
<1>2. /\ Typed(a)
      /\ at'[a].pc = "idle" \/ (at'[a].pc = "release" /\ at'[a].todo = intents)
      /\ \/ job' = Replayed
         \/ \E j \in Workloads : Replayed[j] = "queued" /\ job' = [Replayed EXCEPT ![j] = "running"]
      /\ UNCHANGED <<attempt, ledger>>
  BY <1>1, AcquireTyped, Zenon
<1>3. intents' = {}
  BY Zenon DEF Acquire, Settle
<1>4. \A j \in intents : j \in Workloads /\ j \in Jobs /\ Replayed[j] = "failed"
  BY <1>1, ReplayedFacts, Zenon DEF DataInv, Workloads
<1>5. CASE job' = Replayed
  <2>1. \A j \in intents : j \in Workloads /\ job'[j] \in Terminal
    BY <1>4, <1>5, StateNames, Zenon
  <2>2. Steady(a)
    BY <1>1, <1>2, <1>3, <1>5, ReplaySteady, Zenon
  <2> QED BY <1>2, <2>1, <2>2, EndedSafe, Zenon
<1>6. CASE \E j \in Workloads : Replayed[j] = "queued" /\ job' = [Replayed EXCEPT ![j] = "running"]
  <2>1. PICK k \in Workloads : Replayed[k] = "queued" /\ job' = [Replayed EXCEPT ![k] = "running"]
    BY <1>6, Zenon
  <2>2. k \in Jobs /\ k \notin Ingests /\ "running" \in States /\ Replayed[k] \in Active
    BY <2>1, StateNames, Zenon DEF Workloads, States
  <2>3. \A j \in Jobs : j # k => job'[j] = Replayed[j]
    BY <1>1, <2>1, <2>2, SetFacts, Zenon
  <2>4. \A j \in intents : j \in Workloads /\ job'[j] \in Terminal
    <3>1. k \notin intents
      BY <1>4, <2>1, Zenon
    <3> QED BY <1>4, <2>3, <3>1, StateNames, Zenon
  <2>5. Steady(a)
    BY <1>1, <1>2, <1>3, <2>1, <2>2, SetSteady, Zenon
  <2> QED BY <1>2, <2>4, <2>5, EndedSafe, Zenon
<1> QED BY <1>2, <1>5, <1>6, Zenon

LEMMA EndSafe ==
    ASSUME ReserveInv, NEW a \in Actors, NEW j \in Workloads, End(a, j)
    PROVE  Safe
<1>1. DataInv /\ PlaceInv /\ JobInv
  BY Zenon DEF ReserveInv
<1>2. /\ Typed(a)
      /\ at'[a].pc = "idle" \/ (at'[a].pc = "release" /\ at'[a].todo = {j})
      /\ \E s \in Terminal : job' = [Replayed EXCEPT ![j] = s]
      /\ UNCHANGED <<attempt, ledger>>
  BY <1>1, EndTyped, Zenon
<1>3. intents' = {} /\ Replayed[j] \in Active
  BY StateNames, Zenon DEF End, Settle
<1>4. PICK s \in Terminal : job' = [Replayed EXCEPT ![j] = s]
  BY <1>2, Zenon
<1>5. s \in States /\ s # "absent" /\ j \in Jobs /\ j \notin Ingests
  BY StateNames, Zenon DEF States, Workloads
<1>6. Steady(a)
  BY <1>1, <1>2, <1>3, <1>4, <1>5, SetSteady, Zenon
<1>7. job'[j] \in Terminal
  BY <1>1, <1>4, <1>5, SetFacts, Zenon
<1> QED BY <1>2, <1>6, <1>7, EndedSafe, Zenon

LEMMA CancelSafe ==
    ASSUME ReserveInv, NEW a \in Actors, NEW j \in Workloads, Cancel(a, j)
    PROVE  Safe
<1>1. DataInv /\ PlaceInv /\ JobInv
  BY Zenon DEF ReserveInv
<1>2. j \in Jobs /\ j \notin Ingests /\ "canceled" \in States /\ "canceled" \in Terminal
  BY Zenon DEF Workloads, States, Terminal
<1>3. /\ Typed(a)
      /\ at'[a].pc = "idle" \/ (at'[a].pc = "release" /\ at'[a].todo = {j})
      /\ \/ Replayed[j] = "queued" /\ job' = [Replayed EXCEPT ![j] = "canceled"]
         \/ Replayed[j] \in Terminal /\ job' = Replayed
      /\ UNCHANGED <<attempt, ledger>>
  BY <1>1, <1>2, CancelTyped, Zenon
<1>4. intents' = {}
  BY Zenon DEF Cancel, Settle
<1>5. CASE Replayed[j] = "queued" /\ job' = [Replayed EXCEPT ![j] = "canceled"]
  <2>1. Replayed[j] \in Active
    BY <1>5, StateNames, Zenon
  <2>2. Steady(a)
    BY <1>1, <1>2, <1>3, <1>4, <1>5, <2>1, SetSteady, Zenon
  <2>3. job'[j] \in Terminal
    BY <1>1, <1>2, <1>5, SetFacts, Zenon
  <2> QED BY <1>3, <2>2, <2>3, EndedSafe, Zenon
<1>6. CASE Replayed[j] \in Terminal /\ job' = Replayed
  <2>1. Steady(a)
    BY <1>1, <1>3, <1>4, <1>6, ReplaySteady, Zenon
  <2> QED BY <1>3, <1>6, <2>1, EndedSafe, Zenon
<1> QED BY <1>3, <1>5, <1>6, Zenon

LEMMA RecoverAbandonedSafe ==
    ASSUME ReserveInv, NEW a \in Actors, RecoverAbandoned(a)
    PROVE  Safe
<1>1. DataInv /\ PlaceInv /\ JobInv
  BY Zenon DEF ReserveInv
<1>2. /\ Typed(a)
      /\ \A j \in Jobs : \/ job'[j] = Replayed[j]
                         \/ /\ j \in Ingests /\ Replayed[j] \in Active /\ job'[j] = "failed"
                            /\ admission = None
      /\ \/ at'[a].pc = "begin"
         \/ /\ at'[a].pc = "release" /\ admission' = a
            /\ \A j \in at'[a].todo : j \in Ingests /\ job'[j] = "failed"
      /\ UNCHANGED <<attempt, ledger>>
  BY <1>1, RecoverAbandonedTyped, Zenon
<1>3. intents' = {}
  BY Zenon DEF RecoverAbandoned
<1>4. Steady(a)
  <2>1. \A j \in Ingests : job'[j] = "failed" => job[j] = "failed" \/ admission \in {None, a}
    BY <1>1, <1>2, ReplayedFacts, IngestAssumption, Zenon
  <2> QED BY <1>2, <1>3, <2>1, Zenon DEF Steady
<1>5. Good(a)' /\ at'[a].pc \notin {"admit", "claim", "reconcile"}
  <2>1. CASE at'[a].pc = "begin"
    BY <2>1, GoodOutside, Zenon
  <2>2. CASE /\ at'[a].pc = "release" /\ admission' = a
             /\ \A j \in at'[a].todo : j \in Ingests /\ job'[j] = "failed"
    <3>1. \A j \in at'[a].todo : Settled(a, j)'
      BY <2>2, SettledInside, StateNames, Zenon
    <3> QED BY <2>2, <3>1, GoodRelease, Zenon
  <2> QED BY <1>2, <2>1, <2>2, Zenon
<1>6. ledger \subseteq ledger'
  BY <1>2, Zenon
<1> QED BY <1>2, <1>4, <1>5, <1>6, SteadyGrows, Zenon DEF Safe

LEMMA ReadIngestSafe ==
    ASSUME ReserveInv, NEW a \in Actors, ReadIngest(a), at[a].pc \in {"begin", "retry"}
    PROVE  Safe
<1>1. /\ Typed(a)
      /\ at'[a].job = at[a].job /\ job[at[a].job] # "failed"
      /\ at'[a].pc = "start" \/ at'[a].pc = "verify"
      /\ UNCHANGED <<job, intents, attempt, ledger>>
  BY ReadIngestTyped, Zenon DEF ReserveInv
<1>2. Good(a)' /\ at'[a].pc \notin {"admit", "claim", "reconcile"}
  BY <1>1, Zenon DEF Good
<1> QED BY <1>1, <1>2, MoveSafe, Zenon

LEMMA StartIngestSafe ==
    ASSUME ReserveInv, NEW a \in Actors, StartIngest(a)
    PROVE  Safe
<1> DEFINE k == at[a].job
<1>1. DataInv /\ PlaceInv /\ JobInv /\ Good(a)
  BY Zenon DEF ReserveInv
<1>2. Typed(a) /\ at'[a].pc \in {"write", "idle"} /\ k \in Ingests
  BY <1>1, StartIngestTyped, Zenon
<1>3. /\ intents' = {} /\ ledger' = ledger
      /\ Claimed(a, k) \/ (job' = Replayed /\ attempt' = attempt)
      /\ at[a].pc = "start"
  BY Zenon DEF StartIngest
<1>4. Steady(a)
  <2>1. CASE job' = Replayed /\ attempt' = attempt
    BY <1>1, <1>3, <2>1, ReplaySteady, Zenon
  <2>2. CASE Claimed(a, k)
    <3>1. k \in Jobs /\ Replayed[k] = job[k] /\ job[k] # "failed"
      BY <1>1, <1>2, <1>3, ReplayedFacts, IngestAssumption, Zenon DEF Good
    <3>2. /\ job[k] = "queued" /\ Replayed[k] \in Active
          /\ job' = [Replayed EXCEPT ![k] = "running"] /\ attempt' = [attempt EXCEPT ![k] = a]
      BY <2>2, <3>1, StateNames, Zenon DEF Claimed
    <3>3. job'[k] = "running" /\ \A j \in Jobs : j # k => job'[j] = Replayed[j]
      <4>1. "running" \in States
        BY Zenon DEF States, Active
      <4> QED BY <1>1, <3>1, <3>2, <4>1, SetFacts, Zenon
    <3>4. \A j \in Ingests : j # k => attempt'[j] = attempt[j]
      BY <1>1, <3>2, Zenon DEF DataInv
    <3>5. \A j \in Ingests : j \in Jobs /\ (j # k => job'[j] = job[j])
      BY <1>1, <3>3, ReplayedFacts, IngestAssumption, Zenon
    <3>6. \A j \in Jobs : \/ job'[j] = Replayed[j]
                          \/ /\ Replayed[j] \in Active /\ job'[j] # "absent"
                             /\ j \in Ingests => job'[j] # "queued"
      BY <3>2, <3>3, Zenon
    <3>7. \A j \in Ingests : \/ attempt'[j] = attempt[j]
                             \/ job[j] = "queued" /\ job'[j] = "running"
      BY <3>2, <3>3, <3>4, Zenon
    <3>8. \A j \in Ingests : job'[j] = "failed" => job[j] = "failed"
      BY <3>3, <3>5, Zenon
    <3> QED BY <1>3, <3>6, <3>7, <3>8, Zenon DEF Steady
  <2> QED BY <1>3, <2>1, <2>2, Zenon
<1>5. Good(a)' /\ at'[a].pc \notin {"admit", "claim", "reconcile"}
  <2>1. at'[a].pc \notin {"release", "admit", "claim", "start", "verify", "reconcile"}
    BY <1>2, Zenon
  <2> QED BY <2>1, GoodOutside, Zenon
<1>6. ledger \subseteq ledger'
  BY <1>3, Zenon
<1> QED BY <1>2, <1>4, <1>5, <1>6, SteadyGrows, Zenon DEF Safe

LEMMA WriteSafe ==
    ASSUME ReserveInv, NEW a \in Actors, Write(a)
    PROVE  Safe
<1>1. DataInv /\ PlaceInv /\ JobInv
  BY Zenon DEF ReserveInv
<1>2. Typed(a) /\ at'[a].pc \in {"complete", "fail"}
  BY <1>1, WriteTyped, Zenon
<1>3. job' = Replayed /\ intents' = {} /\ attempt' = attempt /\ ledger \subseteq ledger'
  BY Zenon DEF Write
<1>4. at'[a].pc \notin {"release", "admit", "claim", "start", "verify", "reconcile"}
  BY <1>2, Zenon
<1> QED BY <1>1, <1>2, <1>3, <1>4, ReplaySteady, GoodOutside, SteadyGrows, Zenon DEF Safe

LEMMA CompleteSafe ==
    ASSUME ReserveInv, NEW a \in Actors, Complete(a)
    PROVE  Safe
<1> DEFINE k == at[a].job
<1>1. DataInv /\ PlaceInv /\ JobInv
  BY Zenon DEF ReserveInv
<1>2. /\ Typed(a)
      /\ \/ /\ at'[a].pc = "release" /\ at'[a].todo = {k}
            /\ admission = None /\ admission' = a
            /\ Owns(a, k) /\ job' = [Replayed EXCEPT ![k] = "succeeded"]
         \/ at'[a].pc = "fail" /\ job' = Replayed
      /\ k \in Ingests /\ UNCHANGED <<attempt, ledger>>
  BY <1>1, CompleteTyped, Zenon
<1>3. intents' = {} /\ ledger \subseteq ledger' /\ k \in Jobs
  BY <1>2, IngestAssumption, Zenon DEF Complete
<1>4. CASE /\ at'[a].pc = "release" /\ at'[a].todo = {k} /\ admission = None /\ admission' = a
           /\ Owns(a, k) /\ job' = [Replayed EXCEPT ![k] = "succeeded"]
  <2>1. "succeeded" \in States /\ "succeeded" \notin Active /\ Replayed[k] \in Active
    BY <1>4, Zenon DEF States, Terminal, Active, Owns
  <2>2. Steady(a)
    BY <1>1, <1>2, <1>3, <1>4, <2>1, SetSteady, Zenon
  <2>3. job'[k] = "succeeded"
    BY <1>1, <1>3, <1>4, <2>1, SetFacts, Zenon
  <2>4. \A j \in at'[a].todo : Settled(a, j)'
    BY <1>4, <2>1, <2>3, SettledInside, Zenon
  <2>5. Good(a)' /\ at'[a].pc \notin {"admit", "claim", "reconcile"}
    BY <1>4, <2>4, GoodRelease, Zenon
  <2> QED BY <1>2, <1>3, <2>2, <2>5, SteadyGrows, Zenon DEF Safe
<1>5. CASE at'[a].pc = "fail" /\ job' = Replayed
  BY <1>1, <1>2, <1>3, <1>5, ReplaySteady, GoodOutside, SteadyGrows, Zenon DEF Safe
<1> QED BY <1>2, <1>4, <1>5, Zenon

LEMMA FailSafe ==
    ASSUME ReserveInv, NEW a \in Actors, Fail(a)
    PROVE  Safe
<1> DEFINE k == at[a].job
<1>1. DataInv /\ PlaceInv /\ JobInv
  BY Zenon DEF ReserveInv
<1>2. /\ Typed(a)
      /\ \/ /\ at'[a].pc = "release" /\ at'[a].todo = {k}
            /\ admission = None /\ admission' = a /\ UNCHANGED attempt
            /\ \/ job' = Replayed /\ Replayed[k] \in Terminal
               \/ job' = [Replayed EXCEPT ![k] = "failed"] /\ Owns(a, k)
         \/ at'[a].pc = "idle" /\ job' = Replayed /\ attempt' = LetGo(a, attempt)
      /\ k \in Ingests /\ UNCHANGED ledger
  BY <1>1, FailTyped, Zenon
<1>3. intents' = {} /\ ledger \subseteq ledger' /\ k \in Jobs
  BY <1>2, IngestAssumption, Zenon DEF Fail
<1>4. CASE /\ at'[a].pc = "release" /\ at'[a].todo = {k} /\ admission = None /\ admission' = a
           /\ UNCHANGED attempt
           /\ \/ job' = Replayed /\ Replayed[k] \in Terminal
              \/ job' = [Replayed EXCEPT ![k] = "failed"] /\ Owns(a, k)
  <2>1. Steady(a) /\ job'[k] \notin Active
    <3>1. CASE job' = Replayed /\ Replayed[k] \in Terminal
      BY <1>1, <1>3, <1>4, <3>1, ReplaySteady, StateNames, Zenon
    <3>2. CASE job' = [Replayed EXCEPT ![k] = "failed"] /\ Owns(a, k)
      <4>1. "failed" \in States /\ "failed" # "absent" /\ "failed" # "queued" /\ Replayed[k] \in Active
        BY <3>2, Zenon DEF States, Terminal, Active, Owns
      <4>2. Steady(a)
        BY <1>1, <1>3, <1>4, <3>2, <4>1, SetSteady, Zenon
      <4>3. job'[k] = "failed"
        BY <1>1, <1>3, <3>2, <4>1, SetFacts, Zenon
      <4> QED BY <4>2, <4>3, StateNames, Zenon
    <3> QED BY <1>4, <3>1, <3>2, Zenon
  <2>2. \A j \in at'[a].todo : Settled(a, j)'
    BY <1>4, <2>1, SettledInside, Zenon
  <2>3. Good(a)' /\ at'[a].pc \notin {"admit", "claim", "reconcile"}
    BY <1>4, <2>2, GoodRelease, Zenon
  <2> QED BY <1>2, <1>3, <2>1, <2>3, SteadyGrows, Zenon DEF Safe
<1>5. CASE at'[a].pc = "idle" /\ job' = Replayed /\ attempt' = LetGo(a, attempt)
  BY <1>1, <1>2, <1>3, <1>5, ReplaySteady, GoodOutside, SteadyGrows, Zenon DEF Safe
<1> QED BY <1>2, <1>4, <1>5, Zenon

LEMMA GiveUpSafe ==
    ASSUME ReserveInv, NEW a \in Actors, GiveUp(a)
    PROVE  Safe
<1>1. Typed(a) /\ at'[a].pc = "idle"
  BY GiveUpTyped, Zenon DEF ReserveInv
<1>2. UNCHANGED <<job, intents, ledger>> /\ attempt' = LetGo(a, attempt)
  BY Zenon DEF GiveUp
<1> QED BY <1>1, <1>2, GoodOutside, MoveSafe, Zenon

LEMMA StopSafe ==
    ASSUME ReserveInv, NEW a \in Actors, Stop(a)
    PROVE  Safe
<1>1. Typed(a) /\ at'[a].pc = "off" /\ UNCHANGED <<job, intents, attempt, ledger>>
  BY StopTyped, Zenon DEF ReserveInv
<1> QED BY <1>1, GoodOutside, MoveSafe, Zenon

LEMMA CrashSafe ==
    ASSUME ReserveInv, NEW a \in Actors, Crash(a)
    PROVE  Safe
<1>1. DataInv /\ PlaceInv /\ JobInv
  BY Zenon DEF ReserveInv
<1>2. /\ Typed(a) /\ at'[a].pc = "off"
      /\ \/ UNCHANGED <<job, intents>>
         \/ job' = Replayed /\ \E j \in Workloads : Replayed[j] = "running" /\ intents' = {j}
      /\ attempt' = LetGo(a, attempt) /\ UNCHANGED ledger
  BY <1>1, CrashTyped, Zenon
<1>3. CASE UNCHANGED <<job, intents>>
  BY <1>2, <1>3, GoodOutside, MoveSafe, Zenon
<1>4. CASE job' = Replayed /\ \E j \in Workloads : Replayed[j] = "running" /\ intents' = {j}
  <2>1. \A j \in Ingests : attempt'[j] = attempt[j] \/ (attempt'[j] = Gone /\ attempt[j] # None)
    BY <1>1, <1>2, AttemptsEnd, Zenon
  <2>2. \A j \in Ingests : job'[j] = job[j]
    BY <1>1, <1>4, ReplayedFacts, Zenon
  <2>3. \A j \in intents' : job'[j] = "running"
    BY <1>4, Zenon
  <2>4. Steady(a)
    BY <1>4, <2>1, <2>2, <2>3, Zenon DEF Steady
  <2> QED BY <1>2, <2>4, GoodOutside, SteadyGrows, Zenon DEF Safe
<1> QED BY <1>2, <1>3, <1>4, Zenon

(* The admission of a job that a has reserved: nobody else is inside the   *)
(* admission lock, and no start is between its reading and its ledger.     *)
LEMMA EnterStep ==
    ASSUME ReserveInv, NEW a \in Actors, Typed(a), at[a].pc \in {"admit", "claim"},
           NEW k \in Jobs, k = at[a].job, NEW s \in {"queued", "running"},
           job' = [Replayed EXCEPT ![k] = s], intents' = {}, ledger' = ledger,
           \A j \in Ingests : j # k => attempt'[j] = attempt[j],
           k \in Ingests /\ s = "queued" => attempt'[k] = None,
           Good(a)', at'[a].pc \notin {"admit", "claim", "reconcile"}
    PROVE  Safe
<1>1. DataInv /\ PlaceInv /\ JobInv /\ Apart /\ Good(a) /\ Held \subseteq ledger
  BY Zenon DEF ReserveInv
<1>2. /\ admission = a /\ job[k] \in {"absent", "failed"}
      /\ k \in Workloads => job[k] = "absent"
  BY <1>1, Holds, Zenon DEF Good, Locked, Workloads, IngestSteps
<1>3. s \in States /\ s # "failed" /\ s # "absent"
  BY Zenon DEF States, Active
<1>4. job'[k] = s /\ \A j \in Jobs : j # k => job'[j] = Replayed[j]
  BY <1>1, <1>3, SetFacts, Zenon
<1>5. DataInv' /\ PlaceInv' /\ \A b \in Actors : b # a => at'[b] = at[b]
  BY Zenon DEF Typed, Others
<1>6. JobInv'
  <2>1. ASSUME NEW j \in Ingests, job'[j] \in {"absent", "queued"} PROVE attempt'[j] = None
    <3>1. CASE j = k
      BY <1>3, <1>4, <2>1, <3>1, Zenon
    <3>2. CASE j # k
      <4>1. job'[j] = job[j] /\ attempt'[j] = attempt[j]
        BY <1>1, <1>4, <3>2, ReplayedFacts, IngestAssumption, Zenon
      <4> QED BY <1>1, <2>1, <4>1, Zenon DEF JobInv
    <3> QED BY <3>1, <3>2, Zenon
  <2> QED BY <2>1, Zenon DEF JobInv
<1>7. ASSUME NEW b \in Actors, b # a PROVE Good(b)'
  <2>1. at'[b] = at[b] /\ Good(b) /\ at[b].pc \notin Locked
    BY <1>1, <1>2, <1>5, <1>7, Holds, Zenon DEF ReserveInv
  <2>2. at[b].pc # "reconcile"
    BY <1>1, Zenon DEF Apart
  <2>3. ASSUME at[b].pc = "release", NEW j \in at[b].todo PROVE Settled(b, j)'
    <3>1. j \in Workloads /\ job[j] \in Terminal /\ j \in Jobs
      BY <1>2, <1>7, <2>1, <2>3, Zenon DEF Good, Settled, Workloads
    <3>2. j # k
      BY <1>2, <3>1, StateNames, Zenon
    <3>3. job'[j] = job[j]
      BY <1>1, <1>4, <3>1, <3>2, ReplayedStates, Zenon
    <3> QED BY <3>1, <3>3, Zenon DEF Settled
  <2> QED BY <2>1, <2>2, <2>3, Zenon DEF Good, Locked
<1>8. Apart'
  <2>1. \A b \in Actors : at'[b].pc # "reconcile"
    BY <1>1, <1>5, Zenon DEF Apart
  <2> QED BY <2>1, Zenon DEF Apart
<1>9. Held' \subseteq Held
  <2> SUFFICES ASSUME NEW j \in Jobs, AtWork(j)' \/ Entering(j)' PROVE AtWork(j) \/ Entering(j)
    BY Zenon DEF Held
  <2>1. Entering(k)
    BY Zenon DEF Entering
  <2>2. CASE AtWork(j)' /\ j # k
    <3>1. job'[j] \in Active /\ job'[j] = Replayed[j]
      BY <1>4, <2>2, Zenon DEF AtWork
    <3>2. job[j] \in Active
      BY <1>1, <3>1, ReplayedStates, Zenon
    <3> QED BY <2>2, <3>2, Zenon DEF AtWork
  <2>3. CASE Entering(j)'
    <3>1. PICK b \in Actors : at'[b].pc \in {"admit", "claim"} /\ at'[b].job = j
      BY <2>3, Zenon DEF Entering
    <3>2. b # a /\ at'[b] = at[b]
      BY <3>1, <1>5, Zenon
    <3> QED BY <3>1, <3>2, Zenon DEF Entering
  <2> QED BY <2>1, <2>2, <2>3, Zenon
<1>10. Held' \subseteq ledger'
  BY <1>1, <1>9, Zenon
<1> QED BY <1>5, <1>6, <1>7, <1>8, <1>9, <1>10, Zenon DEF ReserveInv, Safe

LEMMA AdmitSafe ==
    ASSUME ReserveInv, NEW a \in Actors, Admit(a)
    PROVE  Safe
<1> DEFINE k == at[a].job
<1>1. DataInv /\ PlaceInv /\ JobInv /\ Good(a)
  BY Zenon DEF ReserveInv
<1>2. at[a].pc = "admit" /\ k \in Jobs /\ admission = a /\ job[k] = "absent"
  BY <1>1, Holds, Zenon DEF Admit, Good, Locked
<1>3. intents' = {} /\ attempt' = attempt /\ ledger' = ledger
  BY Zenon DEF Admit
<1>4. /\ Typed(a)
      /\ \/ /\ job' = [Replayed EXCEPT ![k] = "queued"] /\ at'[a].pc \in {"idle", "ingest"}
         \/ /\ job' = Replayed /\ UNCHANGED admission
            /\ at'[a].pc = "release" /\ at'[a].todo = {k}
  BY <1>1, AdmitTyped, Zenon
<1>5. CASE job' = [Replayed EXCEPT ![k] = "queued"] /\ at'[a].pc \in {"idle", "ingest"}
  <2>1. k \in Ingests => attempt[k] = None
    BY <1>1, <1>2, Zenon DEF JobInv
  <2>2. at'[a].pc \notin {"release", "admit", "claim", "start", "verify", "reconcile"}
    BY <1>5, Zenon
  <2>3. Good(a)' /\ at'[a].pc \notin {"admit", "claim", "reconcile"}
    BY <2>2, GoodOutside, Zenon
  <2> HIDE DEF k
  <2>4. at[a].pc \in {"admit", "claim"} /\ k = at[a].job
    BY <1>2, Zenon DEF k
  <2> QED BY <1>2, <1>3, <1>4, <1>5, <2>1, <2>3, <2>4, EnterStep, Zenon
<1>6. CASE job' = Replayed /\ UNCHANGED admission /\ at'[a].pc = "release" /\ at'[a].todo = {k}
  <2>1. job'[k] \notin Active
    BY <1>1, <1>2, <1>6, ReplayedStates, StateNames, Zenon
  <2>2. \A j \in at'[a].todo : Settled(a, j)'
    BY <1>2, <1>6, <2>1, SettledInside, Zenon
  <2>3. Good(a)' /\ at'[a].pc \notin {"admit", "claim", "reconcile"}
    BY <1>6, <2>2, GoodRelease, Zenon
  <2>4. Steady(a) /\ ledger \subseteq ledger'
    BY <1>1, <1>3, <1>6, ReplaySteady, Zenon
  <2> QED BY <1>4, <2>3, <2>4, SteadyGrows, Zenon DEF Safe
<1> QED BY <1>4, <1>5, <1>6, Zenon

LEMMA ClaimSafe ==
    ASSUME ReserveInv, NEW a \in Actors, Claim(a)
    PROVE  Safe
<1> DEFINE k == at[a].job
<1>1. DataInv /\ PlaceInv /\ JobInv /\ Good(a)
  BY Zenon DEF ReserveInv
<1>2. at[a].pc = "claim" /\ job[k] = "failed"
  BY <1>1, Zenon DEF Claim, Good
<1>3. intents' = {} /\ ledger' = ledger
  BY Zenon DEF Claim
<1>4. /\ Typed(a) /\ k \in Ingests /\ admission = a
      /\ \/ at'[a].pc = "write" /\ Claimed(a, k)
         \/ /\ at'[a].pc = "release" /\ at'[a].todo = {k} /\ admission' = a
            /\ \/ job' = Replayed /\ UNCHANGED attempt
               \/ /\ job' = [Replayed EXCEPT ![k] = "running"]
                  /\ attempt' = [attempt EXCEPT ![k] = Gone]
  BY <1>1, ClaimTyped, Zenon
<1>5. k \in Jobs
  BY <1>4, IngestAssumption, Zenon
<1>6. CASE at'[a].pc = "release" /\ at'[a].todo = {k} /\ admission' = a /\ job' = Replayed /\ UNCHANGED attempt
  <2>1. job'[k] \notin Active
    BY <1>1, <1>2, <1>5, <1>6, ReplayedStates, StateNames, Zenon
  <2>2. \A j \in at'[a].todo : Settled(a, j)'
    BY <1>6, <2>1, SettledInside, Zenon
  <2>3. Good(a)' /\ at'[a].pc \notin {"admit", "claim", "reconcile"}
    BY <1>6, <2>2, GoodRelease, Zenon
  <2>4. Steady(a) /\ ledger \subseteq ledger'
    BY <1>1, <1>3, <1>6, ReplaySteady, Zenon
  <2> QED BY <1>4, <2>3, <2>4, SteadyGrows, Zenon DEF Safe
<1>7. ASSUME NEW v \in Actors \cup {Gone}, attempt' = [attempt EXCEPT ![k] = v],
             job' = [Replayed EXCEPT ![k] = "running"],
             Good(a)', at'[a].pc \notin {"admit", "claim", "reconcile"}
      PROVE  Safe
  <2>1. \A j \in Ingests : j # k => attempt'[j] = attempt[j]
    BY <1>1, <1>7, Zenon DEF DataInv
  <2> HIDE DEF k
  <2>2. at[a].pc \in {"admit", "claim"} /\ k = at[a].job
    BY <1>2, Zenon DEF k
  <2>3. "running" \in {"queued", "running"} /\ "running" # "queued"
    BY Zenon
  <2> QED BY <1>3, <1>4, <1>5, <1>7, <2>1, <2>2, <2>3, EnterStep, Zenon
<1>8. CASE at'[a].pc = "write" /\ Claimed(a, k)
  <2>1. Good(a)' /\ at'[a].pc \notin {"admit", "claim", "reconcile"}
    BY <1>8, GoodOutside, Zenon
  <2> QED BY <1>7, <1>8, <2>1, Zenon DEF Claimed
<1>9. CASE /\ at'[a].pc = "release" /\ at'[a].todo = {k} /\ admission' = a
           /\ job' = [Replayed EXCEPT ![k] = "running"]
           /\ attempt' = [attempt EXCEPT ![k] = Gone]
  <2>1. attempt'[k] = Gone
    BY <1>1, <1>4, <1>9, Zenon DEF DataInv
  <2>2. \A j \in at'[a].todo : Settled(a, j)'
    BY <1>4, <1>9, <2>1, Zenon DEF Settled, AtWork
  <2>3. Good(a)' /\ at'[a].pc \notin {"admit", "claim", "reconcile"}
    BY <1>9, <2>2, GoodRelease, Zenon
  <2> QED BY <1>7, <1>9, <2>3, Zenon
<1> QED BY <1>4, <1>6, <1>8, <1>9, Zenon

(* A successful reservation: room was found for the ledger with the job.   *)
LEMMA ReserveSafe ==
    ASSUME ReserveInv, Overlap = FALSE, NEW a \in Actors, NEW next \in {"admit", "claim"},
           Reserve(a, next), at[a].pc \in {"submit", "retry"}, next = "claim" => at[a].pc = "retry",
           next = "admit" => job[at[a].job] = "absent",
           next = "claim" => job[at[a].job] = "failed",
           UNCHANGED <<job, intents, attempt, artifact, intake>>
    PROVE  \/ Safe
           \/ /\ ReserveInv'
              /\ at[a].job \in Jobs /\ Fits(at[a].job) /\ Held' \subseteq ledger \cup {at[a].job}
<1>1. DataInv /\ PlaceInv /\ JobInv /\ Held \subseteq ledger /\ at[a].job \in Jobs
  BY Holds, Zenon DEF ReserveInv, IngestSteps
<1>2. /\ Typed(a) /\ ledger \subseteq ledger'
      /\ \/ at'[a].pc = "idle"
         \/ /\ at'[a].pc = next /\ at'[a].job = at[a].job
            /\ ledger' = ledger \cup {at[a].job}
            /\ Fits(at[a].job) /\ Nobody({"reconcile"})
  BY <1>1, ReserveTyped, Zenon
<1>3. Steady(a)
  BY <1>1, SameSteady, Zenon
<1>4. CASE at'[a].pc = "idle"
  BY <1>2, <1>3, <1>4, GoodOutside, SteadyGrows, Zenon DEF Safe
<1>5. CASE /\ at'[a].pc = next /\ at'[a].job = at[a].job
           /\ ledger' = ledger \cup {at[a].job}
           /\ Fits(at[a].job) /\ Nobody({"reconcile"})
  <2>1. Kept(a) /\ JobInv' /\ DataInv' /\ PlaceInv' /\ \A b \in Actors : b # a => at'[b] = at[b]
    BY <1>1, <1>2, <1>3, SteadyKeeps, Zenon DEF Typed, Others
  <2>2. ASSUME NEW b \in Actors PROVE Good(b)'
    <3>1. CASE b # a
      BY <1>1, <1>2, <2>1, <3>1, KeptGood, Zenon DEF ReserveInv
    <3>2. Good(a)'
      BY <1>5, Zenon DEF Good
    <3> QED BY <3>1, <3>2, Zenon
  <2>3. Apart'
    <3>1. \A b \in Actors : at'[b].pc # "reconcile"
      BY <1>5, <2>1, Zenon DEF Nobody
    <3> QED BY <3>1, Zenon DEF Apart
  <2>4. Held' \subseteq ledger \cup {at[a].job}
    <3> SUFFICES ASSUME NEW j \in Jobs, AtWork(j)' \/ Entering(j)', j # at[a].job PROVE j \in Held
      BY <1>1, Zenon DEF Held
    <3>1. CASE AtWork(j)'
      BY <2>1, <3>1, Zenon DEF Kept, Held
    <3>2. CASE Entering(j)'
      <4>1. PICK b \in Actors : at'[b].pc \in {"admit", "claim"} /\ at'[b].job = j
        BY <3>2, Zenon DEF Entering
      <4>2. b # a /\ at'[b] = at[b]
        BY <1>5, <2>1, <4>1, Zenon
      <4> QED BY <4>1, <4>2, Zenon DEF Entering, Held
    <3> QED BY <3>1, <3>2, Zenon
  <2>5. Held' \subseteq ledger'
    BY <1>5, <2>4, Zenon
  <2>6. ReserveInv'
    BY <2>1, <2>2, <2>3, <2>5, Zenon DEF ReserveInv
  <2> QED BY <1>1, <1>5, <2>4, <2>6, Zenon
<1> QED BY <1>2, <1>4, <1>5, Zenon

(* One action of one process: the jobs held do not grow, or the ledger has *)
(* been found to have room for all of them.                                *)
LEMMA ReserveStep ==
    ASSUME ReserveInv, Overlap = FALSE, Cancelable \subseteq Workloads, Next
    PROVE  /\ ReserveInv'
           /\ \/ Held' \subseteq Held
              \/ \E j \in Jobs : Fits(j) /\ Held' \subseteq ledger \cup {j}
<1> DEFINE Grows == ReserveInv' /\ \E j \in Jobs : Fits(j) /\ Held' \subseteq ledger \cup {j}
<1> SUFFICES Safe \/ Grows
  BY Zenon DEF Safe
<1> HIDE DEF Grows
<1>0. PICK a \in Actors :
        \/ Start(a) \/ Reconcile(a) \/ Release(a) \/ Readmit(a) \/ Admit(a) \/ Verify(a)
        \/ RecoverStaleJobs(a) \/ Acquire(a)
        \/ RecoverAbandoned(a) \/ Begin(a) \/ Retry(a) \/ StartIngest(a) \/ Claim(a)
        \/ Write(a) \/ Complete(a) \/ Fail(a) \/ GiveUp(a) \/ Crash(a) \/ Stop(a)
        \/ \E j \in Jobs : Submit(a, j)
        \/ \E j \in Workloads : End(a, j)
        \/ \E j \in Cancelable : Cancel(a, j)
  BY Zenon DEF Next
<1>1. CASE Start(a) \/ Reconcile(a) \/ Release(a)
  BY <1>1, StartSafe, ReconcileSafe, ReleaseSafe, Zenon
<1>2. CASE Readmit(a)
  <2>1. at[a].pc = "submit" /\ at[a].job \in Jobs
    BY <1>2, Holds, Zenon DEF Readmit, ReserveInv
  <2>2. CASE Existing(a, at[a].job)
    BY <2>1, <2>2, ExistingSafe, Zenon
  <2>3. CASE /\ Reserve(a, "admit") /\ job[at[a].job] = "absent"
             /\ UNCHANGED <<job, intents, attempt, artifact, intake>>
    <3>1. \/ Safe
          \/ /\ ReserveInv'
             /\ at[a].job \in Jobs /\ Fits(at[a].job) /\ Held' \subseteq ledger \cup {at[a].job}
      BY <2>1, <2>3, ReserveSafe, Zenon
    <3> QED BY <3>1, Zenon DEF Grows
  <2> QED BY <1>2, <2>2, <2>3, Zenon DEF Readmit
<1>3. CASE Admit(a) \/ Verify(a)
  BY <1>3, AdmitSafe, VerifySafe, Zenon
<1>4. CASE RecoverStaleJobs(a) \/ Acquire(a)
  BY <1>4, RecoverStaleJobsSafe, AcquireSafe, Zenon
<1>5. CASE RecoverAbandoned(a)
  BY <1>5, RecoverAbandonedSafe, Zenon
<1>6. CASE Begin(a)
  <2>1. CASE ReadIngest(a)
    BY <1>6, <2>1, ReadIngestSafe, Zenon DEF Begin
  <2>2. CASE ~ ReadIngest(a)
    <3>1. Typed(a) /\ at'[a].pc = "retry" /\ UNCHANGED <<job, intents, attempt, ledger>>
      BY <1>6, <2>2, BeginTyped, Zenon DEF ReserveInv
    <3> QED BY <3>1, GoodOutside, MoveSafe, Zenon
  <2> QED BY <2>1, <2>2, Zenon
<1>7. CASE Retry(a)
  <2>1. at[a].pc = "retry"
    BY <1>7, Zenon DEF Retry
  <2>2. CASE ReadIngest(a)
    BY <2>1, <2>2, ReadIngestSafe, Zenon
  <2>3. CASE /\ Reserve(a, "claim") /\ job[at[a].job] = "failed"
             /\ UNCHANGED <<job, intents, attempt, artifact, intake>>
    <3>1. \/ Safe
          \/ /\ ReserveInv'
             /\ at[a].job \in Jobs /\ Fits(at[a].job) /\ Held' \subseteq ledger \cup {at[a].job}
      BY <2>1, <2>3, ReserveSafe, Zenon
    <3> QED BY <3>1, Zenon DEF Grows
  <2> QED BY <1>7, <2>2, <2>3, Zenon DEF Retry
<1>8. CASE StartIngest(a) \/ Claim(a) \/ Write(a)
  BY <1>8, StartIngestSafe, ClaimSafe, WriteSafe, Zenon
<1>9. CASE Complete(a) \/ Fail(a) \/ GiveUp(a)
  BY <1>9, CompleteSafe, FailSafe, GiveUpSafe, Zenon
<1>10. CASE Crash(a) \/ Stop(a)
  BY <1>10, CrashSafe, StopSafe, Zenon
<1>11. CASE \E j \in Jobs : Submit(a, j)
  BY <1>11, SubmitSafe, Zenon
<1>12. CASE \E j \in Workloads : End(a, j)
  BY <1>12, EndSafe, Zenon
<1>13. CASE \E j \in Cancelable : Cancel(a, j)
  BY <1>13, CancelSafe, Zenon
<1> QED BY <1>0, <1>1, <1>2, <1>3, <1>4, <1>5, <1>6, <1>7, <1>8, <1>9, <1>10, <1>11, <1>12, <1>13, Zenon

LEMMA ReserveStutter ==
    ASSUME ReserveInv, UNCHANGED vars
    PROVE  ReserveInv' /\ Held' = Held
<1>1. UNCHANGED <<job, intents, attempt, artifact, ledger, intake, admission, at, faults>>
  BY Zenon DEF vars
<1>2. Held' = Held
  BY <1>1, Zenon DEF Held, AtWork, Entering
<1>3. \A a \in Actors : Good(a)'
  BY <1>1, Zenon DEF ReserveInv, Good, Settled, AtWork
<1>4. DataInv' /\ PlaceInv' /\ JobInv' /\ Apart'
  BY <1>1, Zenon DEF ReserveInv, DataInv, PlaceInv, JobInv, Apart
<1>5. Held' \subseteq ledger'
  BY <1>1, <1>2, Zenon DEF ReserveInv
<1> QED BY <1>2, <1>3, <1>4, <1>5, Zenon DEF ReserveInv

LEMMA InitReserved ==
    ASSUME Init
    PROVE  ReserveInv /\ Held = {}
<1>1. DataInv /\ PlaceInv
  BY InitTyped, Zenon
<1>2. intents = {} /\ (\A j \in Ingests : attempt[j] = None)
  BY Zenon DEF Init
<1>3. \A a \in Actors : at[a].pc = "off"
  BY IdleFields, Zenon DEF Init
<1>4. \A j \in Jobs : ~ AtWork(j)
  BY StateNames, Zenon DEF Init, AtWork
<1>5. Held = {}
  BY <1>3, <1>4, Zenon DEF Held, Entering
<1>6. Apart /\ \A a \in Actors : Good(a)
  BY <1>3, Zenon DEF Good, Apart
<1> QED BY <1>1, <1>2, <1>5, <1>6, Zenon DEF ReserveInv, JobInv

(* When no process starts while another admits a job, and operators cancel *)
(* workloads only, every job at work keeps its reservation: for any jobs,  *)
(* processes, limits and number of crashes and input/output errors.        *)
THEOREM JobsAtWorkAreReserved ==
    ASSUME Overlap = FALSE, Cancelable \subseteq Workloads
    PROVE  Spec => []ActiveIsReserved
<1>1. Init => ReserveInv
  BY InitReserved, Zenon
<1>2. ReserveInv /\ [Next]_vars => ReserveInv'
  BY ReserveStep, ReserveStutter, Zenon
<1>3. ReserveInv => ActiveIsReserved
  BY Zenon DEF ReserveInv, Held, ActiveIsReserved
<1> QED BY <1>1, <1>2, <1>3, PTL DEF Spec

(***************************************************************************)
(* Bytes reserved: the sum of the estimates of a set of jobs               *)
(*                                                                         *)
(* The sum is a fold over the set, that is, a value of a function that is  *)
(* chosen to satisfy a recursive equation.  That such a function exists    *)
(* for every set of jobs, and that the order of the jobs does not matter,  *)
(* is shown by induction over the subsets of a finite set.                 *)
(***************************************************************************)
INSTANCE FiniteSetTheorems

(* F holds all subsets of a finite set if it holds each one whose proper   *)
(* subsets it holds: a minimal set outside F would contradict it.          *)
LEMMA SubsetInduction ==
    ASSUME NEW S, IsFiniteSet(S), NEW F,
           \A T \in SUBSET S : (\A U \in SUBSET T : U # T => U \in F) => T \in F
    PROVE  \A T \in SUBSET S : T \in F
<1> DEFINE Bad == {T \in SUBSET S : T \notin F}
<1> SUFFICES ASSUME Bad # {} PROVE FALSE
  BY Zenon
<1>1. IsWellFoundedOn(StrictSubsetOrdering(S), SUBSET S)
  <2>1. FiniteSubsetsOf(S) = SUBSET S
    BY FS_FiniteSubsetsOfFinite
  <2>2. IsWellFoundedOn(StrictSubsetOrdering(S), FiniteSubsetsOf(S))
    BY FS_StrictSubsetOrderingWellFounded
  <2> QED BY <2>1, <2>2, Zenon
<1>2. PICK T \in Bad : \A U \in Bad : ~ (<<U, T>> \in StrictSubsetOrdering(S))
  <2> HIDE DEF Bad
  <2>1. Bad \subseteq SUBSET S
    BY Zenon DEF Bad
  <2> QED BY <1>1, <2>1, WFMin
<1>3. \A U \in SUBSET T : U # T => U \in F
  <2> SUFFICES ASSUME NEW U \in SUBSET T, U # T, U \notin F PROVE FALSE
    BY Zenon
  <2>1. U \in Bad
    BY Zenon
  <2>2. <<U, T>> \in StrictSubsetOrdering(S)
    <3> HIDE DEF Bad
    <3>1. U \in SUBSET S /\ T \in SUBSET S
      BY Zenon DEF Bad
    <3> QED BY <3>1 DEF StrictSubsetOrdering
  <2> QED BY <1>2, <2>1, <2>2, Zenon
<1> QED BY <1>3, Zenon

LEMMA EstimateFacts == Estimate \in [Jobs -> Nat] /\ IsFiniteSet(Jobs)
  BY LimitAssumption, IngestAssumption, Zenon

(* The recursive equation of the fold. *)
Choice(s) == CHOOSE x \in s : TRUE
Solves(g, L) == g = [s \in SUBSET L |-> IF s = {} THEN 0 ELSE Estimate[Choice(s)] + g[s \ {Choice(s)}]]

LEMMA ReservedIs ==
    ASSUME NEW L
    PROVE  Reserved(L) = (CHOOSE g : Solves(g, L))[L]
  BY Zenon DEF Reserved, SumFunctionOnSet, FoldFunctionOnSet, MapThenFoldSet, Solves, Choice

(* Two solutions agree where both are defined. *)
LEMMA SumsUnique ==
    ASSUME NEW L \in SUBSET Jobs, NEW M \in SUBSET L, NEW g, NEW h, Solves(g, L), Solves(h, M)
    PROVE  \A s \in SUBSET M : g[s] = h[s]
<1> DEFINE F == {s \in SUBSET M : g[s] = h[s]}
<1>1. IsFiniteSet(M)
  BY EstimateFacts, FS_Subset, Zenon
<1>2. ASSUME NEW T \in SUBSET M, \A U \in SUBSET T : U # T => U \in F
      PROVE  T \in F
  <2>1. CASE T = {}
    <3>1. g[T] = 0
      BY <2>1, Zenon DEF Solves
    <3>2. h[T] = 0
      BY <2>1, Zenon DEF Solves
    <3> QED BY <3>1, <3>2
  <2>2. CASE T # {}
    <3> DEFINE x == Choice(T)
    <3>1. x \in T
      BY <2>2, Zenon DEF Choice
    <3>2. T \ {x} \in F
      BY <3>1, <1>2, Zenon
    <3>3. g[T] = Estimate[x] + g[T \ {x}]
      BY <2>2, Zenon DEF Solves
    <3>4. h[T] = Estimate[x] + h[T \ {x}]
      BY <2>2, Zenon DEF Solves
    <3>5. g[T \ {x}] = h[T \ {x}]
      BY <3>2, Zenon
    <3>6. g[T] = h[T]
      BY <3>3, <3>4, <3>5, Zenon
    <3> QED BY <3>6, Zenon
  <2> QED BY <2>1, <2>2, Zenon
<1>3. \A T \in SUBSET M : T \in F
  <2> HIDE DEF F
  <2> QED BY <1>1, <1>2, SubsetInduction, Zenon
<1> QED BY <1>3, Zenon

Sums(L) == CHOOSE g : Solves(g, L)

LEMMA SumsAgree ==
    ASSUME NEW T \in SUBSET Jobs, NEW U \in SUBSET T, Solves(Sums(T), T), Solves(Sums(U), U)
    PROVE  Sums(T)[U] = Sums(U)[U]
<1>1. \A r \in SUBSET U : Sums(T)[r] = Sums(U)[r]
  <2> DEFINE g == Sums(T)
             h == Sums(U)
  <2>1. Solves(g, T) /\ Solves(h, U)
    BY Zenon
  <2> HIDE DEF g, h
  <2>2. \A r \in SUBSET U : g[r] = h[r]
    BY <2>1, SumsUnique
  <2> QED BY <2>2, Zenon DEF g, h
<1> QED BY <1>1, Zenon

(* The solutions for smaller sets make up one for the set. *)
LEMMA SumsExist ==
    \A L \in SUBSET Jobs : Solves(Sums(L), L)
<1> DEFINE F == {L \in SUBSET Jobs : \E g : Solves(g, L)}
           V(s) == IF s = {} THEN 0 ELSE Estimate[Choice(s)] + Sums(s \ {Choice(s)})[s \ {Choice(s)}]
<1>1. ASSUME NEW L \in SUBSET Jobs, \A U \in SUBSET L : U # L => U \in F
      PROVE  L \in F
  <2> DEFINE g == [s \in SUBSET L |-> V(s)]
  <2>1. ASSUME NEW s \in SUBSET L, s # {}
        PROVE  Sums(s \ {Choice(s)})[s \ {Choice(s)}] = V(s \ {Choice(s)})
    <3> DEFINE t == s \ {Choice(s)}
    <3>1. Choice(s) \in s
      BY <2>1, Zenon DEF Choice
    <3>2. t \in SUBSET L /\ t # L /\ t \in SUBSET Jobs
      BY <3>1, <1>1, Zenon
    <3>3. Solves(Sums(t), t)
      <4>1. \E f : Solves(f, t)
        BY <3>2, <1>1, Zenon
      <4> QED BY <4>1, Zenon DEF Sums
    <3>4. CASE t = {}
      BY <3>3, <3>4, Zenon DEF Solves
    <3>5. CASE t # {}
      <4> DEFINE u == t \ {Choice(t)}
      <4>1. Choice(t) \in t
        BY <3>5, Zenon DEF Choice
      <4>2. u \in SUBSET L /\ u # L /\ u \in SUBSET t
        BY <4>1, <3>2, Zenon
      <4>3. Solves(Sums(u), u)
        <5>1. \E f : Solves(f, u)
          BY <4>2, <1>1, Zenon
        <5> QED BY <5>1, Zenon DEF Sums
      <4>4. Sums(t)[u] = Sums(u)[u]
        BY <3>2, <3>3, <4>2, <4>3, SumsAgree, Zenon
      <4>5. Sums(t)[t] = Estimate[Choice(t)] + Sums(t)[u]
        BY <3>3, <3>5, Zenon DEF Solves
      <4> QED BY <4>4, <4>5, <3>5, Zenon
    <3> QED BY <3>4, <3>5, Zenon
  <2>2. ASSUME NEW s \in SUBSET L
        PROVE  V(s) = IF s = {} THEN 0 ELSE Estimate[Choice(s)] + g[s \ {Choice(s)}]
    <3>1. s # {} => g[s \ {Choice(s)}] = V(s \ {Choice(s)})
      BY Zenon
    <3> QED BY <3>1, <2>1, Zenon
  <2>3. Solves(g, L)
    <3> HIDE DEF V
    <3> QED BY <2>2, Zenon DEF Solves
  <2> QED BY <2>3, <1>1, Zenon
<1>2. \A L \in SUBSET Jobs : L \in F
  <2> HIDE DEF F
  <2> QED BY <1>1, EstimateFacts, SubsetInduction, Zenon
<1> QED BY <1>2, Zenon DEF Sums

LEMMA ReservedStep ==
    ASSUME NEW T \in SUBSET Jobs, T # {}
    PROVE  /\ Choice(T) \in T
           /\ Reserved(T) = Estimate[Choice(T)] + Reserved(T \ {Choice(T)})
<1> DEFINE U == T \ {Choice(T)}
<1>1. Choice(T) \in T
  BY Zenon DEF Choice
<1>2. Solves(Sums(T), T) /\ Solves(Sums(U), U)
  BY SumsExist, Zenon
<1>3. Sums(T)[T] = Estimate[Choice(T)] + Sums(T)[U]
  BY <1>2, Zenon DEF Solves
<1>4. Sums(T)[U] = Sums(U)[U]
  BY <1>2, SumsAgree, Zenon
<1>5. Reserved(T) = Sums(T)[T] /\ Reserved(U) = Sums(U)[U]
  BY ReservedIs, Zenon DEF Sums
<1> QED BY <1>1, <1>3, <1>4, <1>5, Zenon

LEMMA ReservedEmpty == Reserved({}) = 0
<1>1. Solves(Sums({}), {})
  <2>1. {} \in SUBSET Jobs
    OBVIOUS
  <2> QED BY <2>1, SumsExist, Zenon
<1>2. Sums({})[{}] = 0
  BY <1>1, Zenon DEF Solves
<1> QED BY <1>2, ReservedIs, Zenon DEF Sums

LEMMA ReservedType ==
    \A T \in SUBSET Jobs : Reserved(T) \in Nat
<1> DEFINE F == {T \in SUBSET Jobs : Reserved(T) \in Nat}
<1>1. ASSUME NEW T \in SUBSET Jobs, \A U \in SUBSET T : U # T => U \in F
      PROVE  T \in F
  <2>1. CASE T = {}
    BY <2>1, ReservedEmpty
  <2>2. CASE T # {}
    <3> DEFINE x == Choice(T)
    <3>1. x \in T /\ Reserved(T) = Estimate[x] + Reserved(T \ {x})
      BY <2>2, ReservedStep, Zenon
    <3>2. Reserved(T \ {x}) \in Nat
      BY <3>1, <1>1, Zenon
    <3>3. Estimate[x] \in Nat
      BY <3>1, EstimateFacts, Zenon
    <3> HIDE DEF x
    <3> QED BY <3>1, <3>2, <3>3
  <2> QED BY <2>1, <2>2, Zenon
<1>2. \A T \in SUBSET Jobs : T \in F
  <2> HIDE DEF F
  <2> QED BY <1>1, EstimateFacts, SubsetInduction, Zenon
<1> QED BY <1>2, Zenon

(* Any job of the set may be taken out first. *)
LEMMA ReservedRemove ==
    \A T \in SUBSET Jobs : \A x \in T : Reserved(T) = Estimate[x] + Reserved(T \ {x})
<1> DEFINE F == {T \in SUBSET Jobs : \A x \in T : Reserved(T) = Estimate[x] + Reserved(T \ {x})}
<1>1. ASSUME NEW T \in SUBSET Jobs, \A U \in SUBSET T : U # T => U \in F
      PROVE  T \in F
  <2> SUFFICES ASSUME NEW x \in T PROVE Reserved(T) = Estimate[x] + Reserved(T \ {x})
    BY Zenon
  <2> DEFINE c == Choice(T)
  <2>1. c \in T /\ Reserved(T) = Estimate[c] + Reserved(T \ {c})
    BY ReservedStep, Zenon
  <2>2. CASE x # c
    <3>1. Reserved(T \ {c}) = Estimate[x] + Reserved((T \ {c}) \ {x})
      BY <2>1, <2>2, <1>1, Zenon
    <3>2. Reserved(T \ {x}) = Estimate[c] + Reserved((T \ {x}) \ {c})
      BY <2>1, <2>2, <1>1, Zenon
    <3>3. (T \ {x}) \ {c} = (T \ {c}) \ {x}
      BY Zenon
    <3>4. Estimate[x] \in Nat /\ Estimate[c] \in Nat /\ Reserved((T \ {c}) \ {x}) \in Nat
      BY <2>1, EstimateFacts, ReservedType, Zenon
    <3>5. \A a, b, r \in Nat : a + (b + r) = b + (a + r)
      OBVIOUS
    <3> DEFINE r == Reserved((T \ {c}) \ {x})
    <3>6. Estimate[c] + (Estimate[x] + r) = Estimate[x] + (Estimate[c] + r)
      BY <3>4, <3>5, Zenon
    <3> QED BY <2>1, <3>1, <3>2, <3>3, <3>6, Zenon
  <2> QED BY <2>1, <2>2, Zenon
<1>2. \A T \in SUBSET Jobs : T \in F
  <2> HIDE DEF F
  <2> QED BY <1>1, EstimateFacts, SubsetInduction, Zenon
<1> QED BY <1>2, Zenon

(* A part of a set of jobs needs no more than the set. *)
LEMMA ReservedMonotone ==
    ASSUME NEW B \in SUBSET Jobs, NEW A \in SUBSET B
    PROVE  Reserved(A) <= Reserved(B)
<1> DEFINE F == {T \in SUBSET Jobs : Reserved(T) >= Reserved(T \cap A)}
<1>1. ASSUME NEW T \in SUBSET Jobs, \A U \in SUBSET T : U # T => U \in F
      PROVE  T \in F
  <2>1. CASE T \subseteq A
    <3>1. T \cap A = T
      BY <2>1, Zenon
    <3> QED BY <3>1, ReservedType
  <2>2. CASE ~ (T \subseteq A)
    <3>1. PICK x \in T : x \notin A
      BY <2>2, Zenon
    <3>2. Reserved(T) = Estimate[x] + Reserved(T \ {x})
      BY ReservedRemove, Zenon
    <3>3. Reserved(T \ {x}) >= Reserved((T \ {x}) \cap A)
      BY <1>1, Zenon
    <3>4. (T \ {x}) \cap A = T \cap A
      BY <3>1, Zenon
    <3>5. Estimate[x] \in Nat /\ Reserved(T \ {x}) \in Nat /\ Reserved(T \cap A) \in Nat
      BY EstimateFacts, ReservedType, Zenon
    <3>6. Reserved(T) >= Reserved(T \cap A)
      BY <3>2, <3>3, <3>4, <3>5
    <3> QED BY <3>6, Zenon
  <2> QED BY <2>1, <2>2, Zenon
<1>2. \A T \in SUBSET Jobs : T \in F
  <2> HIDE DEF F
  <2> QED BY <1>1, EstimateFacts, SubsetInduction, Zenon
<1>3. B \cap A = A
  BY Zenon
<1>4. Reserved(A) \in Nat /\ Reserved(B) \in Nat
  BY ReservedType, Zenon
<1>5. Reserved(B) >= Reserved(B \cap A)
  BY <1>2, Zenon
<1> QED BY <1>3, <1>4, <1>5

(***************************************************************************)
(* The high-water mark                                                     *)
(***************************************************************************)
FitInv == ReserveInv /\ Reserved(Held) <= HighWater

LEMMA FitStep ==
    ASSUME FitInv, Overlap = FALSE, Cancelable \subseteq Workloads, [Next]_vars
    PROVE  FitInv'
<1>1. /\ ReserveInv'
      /\ \/ Held' \subseteq Held
         \/ \E j \in Jobs : Fits(j) /\ Held' \subseteq ledger \cup {j}
  BY ReserveStep, ReserveStutter, Zenon DEF FitInv
<1>2. Reserved(Held)' = Reserved(Held')
  BY Zenon DEF Reserved
<1>3. Held' \in SUBSET Jobs /\ Held \in SUBSET Jobs /\ ledger \in SUBSET Jobs /\ HighWater \in Nat
  BY LimitAssumption, Zenon DEF FitInv, ReserveInv, DataInv, Held
<1>4. ASSUME NEW S \in SUBSET Jobs, Held' \subseteq S, Reserved(S) <= HighWater
      PROVE  Reserved(Held') <= HighWater
  <2>1. Reserved(Held') <= Reserved(S) /\ Reserved(Held') \in Nat /\ Reserved(S) \in Nat
    <3>1. \A A \in SUBSET S : Reserved(A) <= Reserved(S)
      BY ReservedMonotone, Zenon
    <3> QED BY <1>3, <1>4, <3>1, ReservedType, Zenon
  <2> QED BY <1>3, <1>4, <2>1
<1>5. CASE Held' \subseteq Held
  BY <1>1, <1>2, <1>3, <1>4, <1>5, Zenon DEF FitInv
<1>6. CASE \E j \in Jobs : Fits(j) /\ Held' \subseteq ledger \cup {j}
  <2>1. PICK j \in Jobs : Fits(j) /\ Held' \subseteq ledger \cup {j}
    BY <1>6, Zenon
  <2>2. ledger \cup {j} \in SUBSET Jobs /\ Reserved(ledger \cup {j}) <= HighWater
    BY <1>3, <2>1, Zenon DEF Fits
  <2> QED BY <1>1, <1>2, <1>4, <2>1, <2>2, Zenon DEF FitInv
<1> QED BY <1>1, <1>5, <1>6, Zenon

(* Under the same two conditions the jobs at work never need more than     *)
(* total_high_water_bytes, whatever the estimates are and however many     *)
(* processes admit, retry and end jobs at the same time.                   *)
THEOREM JobsAtWorkFit ==
    ASSUME Overlap = FALSE, Cancelable \subseteq Workloads
    PROVE  Spec => []NeverOvercommitted
<1>1. Init => FitInv
  <2> SUFFICES ASSUME Init PROVE FitInv
    BY Zenon
  <2>1. ReserveInv /\ Held = {}
    BY InitReserved, Zenon
  <2>2. Reserved({}) <= HighWater
    BY ReservedEmpty, LimitAssumption
  <2> QED BY <2>1, <2>2, Zenon DEF FitInv
<1>2. FitInv /\ [Next]_vars => FitInv'
  BY FitStep, Zenon
<1>3. FitInv => NeverOvercommitted
  <2> SUFFICES ASSUME FitInv PROVE NeverOvercommitted
    BY Zenon
  <2> DEFINE W == {j \in Jobs : AtWork(j)}
  <2>1. W \in SUBSET Held /\ Held \in SUBSET Jobs /\ W \in SUBSET Jobs /\ HighWater \in Nat
    BY LimitAssumption, Zenon DEF Held
  <2> HIDE DEF W
  <2>2. Reserved(W) <= Reserved(Held) /\ Reserved(W) \in Nat /\ Reserved(Held) \in Nat
    BY <2>1, ReservedMonotone, ReservedType, Zenon
  <2>3. Reserved(W) <= HighWater
    BY <2>1, <2>2 DEF FitInv
  <2> QED BY <2>3, Zenon DEF W, NeverOvercommitted
<1> QED BY <1>1, <1>2, <1>3, PTL DEF Spec
=============================================================================
