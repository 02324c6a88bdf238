----------------------- MODULE JobLifecycleProcesses ------------------------
(***************************************************************************)
(* Every step of JobLifecycle keeps what the invariant says of processes,  *)
(* of observed scheduler work, of markers and of leases, and choosing the  *)
(* next marker what it says of the visit.                                  *)
(***************************************************************************)
EXTENDS JobLifecycleInvariant

USE Holders

-----------------------------------------------------------------------------
(* What leaving a marker does to the slots.                                *)
LEMMA LeaveSlots ==
    ASSUME TypeOK, NEW s \in Slots, Leave(s)
    PROVE  /\ pc'[s] = "pick" /\ pc'[s] \notin WorkSteps
           /\ \A q \in Slots : q # s => pc'[q] = pc[q] /\ at'[q] = at[q] /\ mine'[q] = mine[q]
<1>1. /\ pc \in [Slots -> Steps] /\ pc' = [pc EXCEPT ![s] = "pick"]
      /\ at \in [Slots -> Jobs \cup {NoJob}] /\ at' = [at EXCEPT ![s] = NoJob]
      /\ mine \in [Slots -> Tasks \cup {NoTask}] /\ mine' = [mine EXCEPT ![s] = NoTask]
  BY Zenon DEF TypeOK, SlotTypes, Leave, Goto
<1>2. /\ pc'[s] = "pick"
      /\ \A q \in Slots : q # s => pc'[q] = pc[q] /\ at'[q] = at[q] /\ mine'[q] = mine[q]
  BY Zenon, <1>1
<1> QED BY Zenon, <1>2 DEF WorkSteps, RunSteps, UndoSteps

(* A slot that does not watch a process, and leaves the jobs of the        *)
(* running ones alone, keeps what is said of processes.                    *)
LEMMA ProcessAway ==
    ASSUME ProcessInv, NEW s \in Slots, pc'[s] # "gate", pc[s] \notin {"gate", "running"},
           \A q \in Slots : q # s => pc'[q] = pc[q] /\ mine'[q] = mine[q],
           \A t \in Alive : /\ t \in markers'
                            /\ state'[taskJob[t]] = state[taskJob[t]]
                            /\ holder'[taskJob[t]] = holder[taskJob[t]],
           taskJob' = taskJob, owned' = owned, proc' = proc
    PROVE  ProcessInv'
<1>1. Alive' = Alive
  BY Zenon DEF Alive
<1>2. ASSUME NEW t \in Alive
      PROVE  /\ t \in markers' /\ t \in owned' /\ state'[taskJob'[t]] = "running"
             /\ \/ holder'[taskJob'[t]] = Crashed
                \/ \E q \in Slots : /\ holder'[taskJob'[t]] = q
                                    /\ mine'[q] = t /\ pc'[q] \in {"gate", "running"}
  <2>1. /\ t \in owned /\ state[taskJob[t]] = "running"
        /\ \/ holder[taskJob[t]] = Crashed
           \/ \E q \in Slots : /\ holder[taskJob[t]] = q
                               /\ mine[q] = t /\ pc[q] \in {"gate", "running"}
    BY Zenon, <1>2 DEF ProcessInv
  <2> QED BY Zenon, <1>2, <2>1
<1>3. ASSUME NEW q \in Slots, pc'[q] = "gate"
      PROVE  proc'[mine'[q]] \in {"gated", "dead"}
  <2>1. pc[q] = "gate" /\ mine'[q] = mine[q]
    BY Zenon, <1>3
  <2> QED BY Zenon, <2>1 DEF ProcessInv
<1> QED BY Zenon, <1>1, <1>2, <1>3 DEF ProcessInv

(* In particular one whose step changes nothing but itself.                *)
LEMMA ProcessFrame ==
    ASSUME TypeOK, ProcessInv, NEW s \in Slots, NEW step, Goto(s, step),
           step # "gate", pc[s] \notin {"gate", "running"},
           \A q \in Slots : q # s => mine'[q] = mine[q],
           state' = state, holder' = holder, taskJob' = taskJob,
           markers \subseteq markers', owned' = owned, proc' = proc
    PROVE  ProcessInv'
<1>1. pc'[s] = step /\ \A q \in Slots : q # s => pc'[q] = pc[q]
  BY Zenon DEF TypeOK, SlotTypes, Goto
<1>2. \A t \in Alive : t \in markers'
  BY Zenon DEF ProcessInv
<1> QED BY Zenon, <1>1, <1>2, ProcessAway

(* Processes: what every step starts, stops and leaves alone.              *)
LEMMA ProcessStep ==
    ASSUME Steady, IInv, Next
    PROVE  ProcessInv'
<1>1. CASE RecoverStaleJobs
    BY Zenon, <1>1, RecoveryStep DEF RecoverStaleJobs, taskVars, local
<1>2. ASSUME NEW s \in Slots, StartPass(s)
      PROVE  ProcessInv'
    BY Zenon, <1>2, RecoveryStep DEF StartPass, Goto, taskVars, local, IInv, TypeOK, SlotTypes
<1>3. ASSUME NEW s \in Slots, Acquire(s)
      PROVE  ProcessInv'
    BY Zenon, <1>3, AcquireStep
<1>4. ASSUME NEW j \in Jobs, RecoverStaleJob(j) \/ Expire(j) \/ Cancel(j)
      PROVE  ProcessInv'
  <2>1. CASE RecoverStaleJob(j)
      BY SMTT(30), <2>1 DEF RecoverStaleJob, IInv, ProcessInv, Reclaimed, local,
          taskVars, Alive, Held, Marked, TasksOf
  <2>2. CASE Expire(j)
      BY Zenon, <2>2 DEF Expire, IInv, ProcessInv, local, taskVars, Alive
  <2>3. CASE Cancel(j)
      BY SMTT(30), <2>3 DEF Cancel, IInv, ProcessInv, local, taskVars, Alive
  <2> QED BY Zenon, <1>4, <2>1, <2>2, <2>3
<1>5. ASSUME NEW t \in Tasks, ProcessExits(t)
      PROVE  ProcessInv'
    BY SMTT(30), <1>5 DEF ProcessExits, IInv, ProcessInv, Stop, durable, local,
        taskVars, Alive
<1>6. ASSUME NEW s \in Slots, Attempt(s)
      PROVE  ProcessInv'
  <2>1. CASE \/ CheckCancel(s) \/ Undo(s) \/ UndoTask(s)
             \/ UndoAck(s) \/ Acknowledge(s)
    <3>1. CASE CheckCancel(s)
        BY Zenon, <3>1, ProcessFrame DEF CheckCancel, durable, local, taskVars, IInv
    <3>2. CASE Undo(s)
        BY SMTT(30), <3>2 DEF Undo, IInv, TypeOK, NameInv, TaskTypes, SlotTypes,
            ProcessInv, Goto, Raise, SameJobs, SameTasks, Stop, Named, Alive, durable,
            taskVars, Launched
    <3>3. CASE UndoTask(s)
        BY Zenon, <3>3, ProcessFrame DEF UndoTask, SameJobs, durable, local, IInv
    <3>4. CASE UndoAck(s)
        BY SMTT(30), <3>4 DEF UndoAck, IInv, LeaseInv, NameInv, ProcessInv, Goto,
            SameJobs, WorkSteps, Named, Alive, durable, UndoSteps
    <3>5. CASE Acknowledge(s)
        BY SMTT(30), <3>5 DEF Acknowledge, IInv, TypeOK, LeaseInv, NameInv, JobTypes,
            SlotTypes, ProcessInv, Goto, Raise, SameLocal, SameTasks, PassSteps, Steps,
            Alive, taskVars
    <3> QED BY Zenon, <2>1, <3>1, <3>2, <3>3, <3>4, <3>5
  <2>2. CASE \/ Begin(s) \/ OpenTask(s) \/ Register(s)
             \/ Spawn(s) \/ ReleaseGate(s) \/ StepFails(s)
    <3>1. CASE Begin(s)
        BY SMTT(30), <3>1 DEF Begin, IInv, TypeOK, NameInv, JobTypes, SlotTypes,
            ProcessInv, Goto, Raise, SameLocal, SameTasks, Alive, taskVars
    <3>2. CASE OpenTask(s)
        BY SMTT(30), <3>2 DEF OpenTask, IInv, NameInv, ProcessInv, Goto, SameJobs,
            Alive, durable
    <3>3. CASE Register(s)
        BY Zenon, <3>3, ProcessFrame DEF Register, SameJobs, durable, local, IInv
    <3>4. CASE Spawn(s)
        BY SMTT(30), <3>4 DEF Spawn, IInv, TypeOK, LeaseInv, NameInv, MarkerInv,
            StateInv, TaskTypes, SlotTypes, ProcessInv, Goto, SameJobs, local, Named,
            PassSteps, Launched, Alive, Steps, durable
    <3>5. CASE ReleaseGate(s)
        BY SMTT(30), <3>5 DEF ReleaseGate, IInv, TypeOK, LeaseInv, NameInv, TaskTypes,
            SlotTypes, ProcessInv, Goto, Raise, SameJobs, SameLocal, SameTasks, Named,
            Steps, Alive, durable, taskVars, Launched
    <3>6. CASE StepFails(s)
        BY SMTT(30), <3>6 DEF StepFails, IInv, TypeOK, NameInv, TaskTypes, SlotTypes,
            ProcessInv, Raise, SameJobs, SameLocal, SameTasks, Stop, UndoSteps, Named,
            Alive, Goto, durable, taskVars, Launched
    <3> QED BY Zenon, <2>2, <3>1, <3>2, <3>3, <3>4, <3>5, <3>6
  <2>3. CASE \/ PollExit(s) \/ PollCancel(s) \/ Heartbeat(s)
             \/ ObserveScheduler(s) \/ PollFails(s)
    <3>1. CASE PollExit(s)
        BY SMTT(30), <3>1 DEF PollExit, IInv, ProcessInv, Goto, durable, local,
            taskVars, Alive
    <3>2. CASE PollCancel(s)
        BY SMTT(30), <3>2 DEF PollCancel, IInv, TypeOK, TaskTypes, ProcessInv, Goto,
            Stop, durable, local, taskVars, Alive
    <3>3. CASE Heartbeat(s)
        BY Zenon, <3>3, NoLateHeartbeat
    <3>4. CASE ObserveScheduler(s)
        BY Zenon, <3>4 DEF ObserveScheduler, IInv, ProcessInv, local, taskVars, Alive
    <3>5. CASE PollFails(s)
        BY SMTT(30), <3>5 DEF PollFails, IInv, TypeOK, NameInv, TaskTypes, ProcessInv,
            Mishap, Raise, SameJobs, SameLocal, SameTasks, Stop, Named, Alive, Goto,
            durable, taskVars, Launched, Steady
    <3> QED BY Zenon, <2>3, <3>1, <3>2, <3>3, <3>4, <3>5
  <2>4. CASE Resolve(s) \/ ResolveFails(s) \/ CloseTask(s) \/ CloseJob(s)
    <3>1. CASE Resolve(s)
        BY Zenon, <3>1, ProcessFrame DEF Resolve, SameJobs, SameLocal, durable, IInv
    <3>2. CASE ResolveFails(s)
        BY Zenon, <3>2, ProcessFrame DEF ResolveFails, Raise, SameJobs, SameLocal,
            SameTasks, durable, taskVars, IInv
    <3>3. CASE CloseTask(s)
        BY Zenon, <3>3, ProcessFrame DEF CloseTask, SameJobs, durable, local, IInv
    <3>4. CASE CloseJob(s)
        BY SMTT(30), <3>4 DEF CloseJob, IInv, TypeOK, LeaseInv, NameInv, JobTypes,
            SlotTypes, ProcessInv, Goto, Raise, SameLocal, SameTasks, PassSteps, Steps,
            Alive, taskVars
    <3> QED BY Zenon, <2>4, <3>1, <3>2, <3>3, <3>4
  <2>5. CASE AckMarker(s) \/ FailTasks(s) \/ FailJob(s) \/ ReleaseLease(s)
    <3>1. CASE AckMarker(s)
        BY SMTT(30), <3>1 DEF AckMarker, IInv, TypeOK, LeaseInv, NameInv, SlotTypes,
            ProcessInv, Goto, Raise, SameJobs, SameLocal, Named, PassSteps, Steps,
            Alive, durable
    <3>2. CASE FailTasks(s)
        BY Zenon, <3>2, ProcessFrame DEF FailTasks, Escape, SameJobs, SameLocal,
            durable, IInv
    <3>3. CASE FailJob(s)
        BY SMTT(30), <3>3 DEF FailJob, IInv, TypeOK, LeaseInv, NameInv, JobTypes,
            SlotTypes, ProcessInv, Escape, Goto, SameLocal, SameTasks, PassSteps, Steps,
            Alive, taskVars
    <3>4. CASE ReleaseLease(s)
        BY SMTT(30), <3>4 DEF ReleaseLease, IInv, TypeOK, NameInv, JobTypes, ProcessInv,
            Goto, taskVars, Alive
    <3> QED BY Zenon, <2>5, <3>1, <3>2, <3>3, <3>4
  <2> QED
      BY Zenon, <1>6, <1>3, <2>1, <2>2, <2>3, <2>4, <2>5
      DEF Attempt
<1>7. ASSUME NEW s \in Slots, Pass(s)
      PROVE  ProcessInv'
  <2>1. CASE ScanMarkers(s) \/ PickMarker(s) \/ EndPass(s) \/ VisitFails(s)
    <3>1. CASE ScanMarkers(s)
        BY Zenon, <3>1, ProcessFrame DEF ScanMarkers, SameJobs, SameTasks, durable,
            taskVars, IInv
    <3>2. CASE PickMarker(s)
        BY SMTT(30), <3>2 DEF PickMarker, IInv, TypeOK, SlotTypes, ProcessInv, Goto,
            SameJobs, SameTasks, Alive, durable, taskVars
    <3>3. CASE EndPass(s)
        BY Zenon, <3>3, ProcessFrame DEF EndPass, SameJobs, SameTasks, durable,
            taskVars, IInv
    <3>4. CASE VisitFails(s)
        BY Zenon, <3>4, LeaveSlots, ProcessFrame DEF VisitFails, Leave, PassSteps,
            SameJobs, SameTasks, durable, taskVars, IInv
    <3> QED BY Zenon, <2>1, <3>1, <3>2, <3>3, <3>4
  <2>2. CASE StopRecorded(s) \/ ResolveRecorded(s) \/ CloseRecorded(s)
    <3>1. CASE StopRecorded(s)
        BY SMTT(30), <3>1 DEF StopRecorded, IInv, TypeOK, NameInv, TaskTypes,
            ProcessInv, Goto, Stop, durable, local, taskVars, Named, Alive, Launched
    <3>2. CASE ResolveRecorded(s)
        BY Zenon, <3>2, ProcessFrame DEF ResolveRecorded, SameLocal, IInv
    <3>3. CASE CloseRecorded(s)
        BY Zenon, <3>3, ProcessFrame DEF CloseRecorded, SameJobs, durable, local, IInv
    <3> QED BY Zenon, <2>2, <3>1, <3>2, <3>3
  <2>3. CASE EndRecorded(s) \/ AckRecorded(s) \/ CancelRecorded(s)
    <3>1. CASE EndRecorded(s)
      <4>1. \A t \in Alive :
                t \in markers /\ taskJob[t] \in Jobs /\ state[taskJob[t]] = "running"
          BY Zenon DEF IInv, NameInv, ProcessInv
      <4>2. /\ pc[s] = "rjob" /\ at[s] \in Jobs /\ taskJob[mine[s]] = at[s]
            /\ mine[s] \notin Alive
            /\ mine[s] \in markers \/ state[at[s]] \in Terminal
          BY Zenon, <3>1 DEF EndRecorded, IInv, NameInv, VisitInv, PassSteps, Visit
      <4>3. \A t \in Alive : taskJob[t] # at[s]
          BY Zenon, <4>1, <4>2 DEF IInv, MarkerInv, Terminal
      <4>4. \A j \in Jobs : j # at[s] => state'[j] = state[j]
          BY Zenon, <3>1 DEF EndRecorded, IInv, TypeOK, JobTypes
      <4>5. /\ pc'[s] # "gate"
            /\ \A q \in Slots : q # s => pc'[q] = pc[q] /\ mine'[q] = mine[q]
        <5>1. CASE Leave(s)
            BY Zenon, <5>1, LeaveSlots DEF IInv
        <5>2. CASE Goto(s, "rack") /\ mine' = mine
            BY Zenon, <5>2 DEF Goto, IInv, TypeOK, SlotTypes
        <5> QED BY Zenon, <3>1, <5>1, <5>2 DEF EndRecorded, local
      <4>6. /\ ProcessInv /\ pc[s] \notin {"gate", "running"}
            /\ holder' = holder /\ proc' = proc
            /\ taskJob' = taskJob /\ owned' = owned /\ markers' = markers
          BY Zenon, <3>1 DEF EndRecorded, SameTasks, taskVars, IInv
      <4> QED BY Zenon, <4>1, <4>3, <4>4, <4>5, <4>6, ProcessAway
    <3>2. CASE AckRecorded(s)
      <4>1. \A t \in Alive : t \in markers
          BY Zenon DEF IInv, ProcessInv
      <4>2. mine[s] \notin Alive
          BY Zenon, <3>2 DEF AckRecorded, IInv, VisitInv, PassSteps, Visit
      <4>3. /\ pc'[s] # "gate"
            /\ \A q \in Slots : q # s => pc'[q] = pc[q] /\ mine'[q] = mine[q]
        <5>1. CASE Leave(s)
            BY Zenon, <5>1, LeaveSlots DEF IInv
        <5>2. CASE Goto(s, "rcancel") /\ mine' = mine
            BY Zenon, <5>2 DEF Goto, IInv, TypeOK, SlotTypes
        <5> QED BY Zenon, <3>2, <5>1, <5>2 DEF AckRecorded, local
      <4>4. /\ ProcessInv /\ pc[s] \notin {"gate", "running"}
            /\ state' = state /\ holder' = holder /\ proc' = proc
            /\ taskJob' = taskJob /\ owned' = owned /\ markers' = markers \ {mine[s]}
          BY Zenon, <3>2 DEF AckRecorded, SameJobs, durable, IInv
      <4> QED BY Zenon, <4>1, <4>2, <4>3, <4>4, ProcessAway
    <3>3. CASE CancelRecorded(s)
      <4>1. \A t \in Alive : t \in markers /\ taskJob[t] \in Jobs /\ taskJob[t] # at[s]
          BY Zenon, <3>3 DEF CancelRecorded, IInv, NameInv, ProcessInv, VisitInv
      <4>2. \A j \in Jobs : j # at[s] => state'[j] = state[j]
          BY Zenon, <3>3 DEF CancelRecorded, IInv, TypeOK, JobTypes
      <4>3. /\ TypeOK /\ ProcessInv /\ Leave(s) /\ pc[s] \notin {"gate", "running"}
            /\ holder' = holder /\ proc' = proc
            /\ taskJob' = taskJob /\ owned' = owned /\ markers' = markers
          BY Zenon, <3>3 DEF CancelRecorded, SameTasks, taskVars, IInv
      <4> QED BY Zenon, <4>1, <4>2, <4>3, LeaveSlots, ProcessAway
    <3> QED BY Zenon, <2>3, <3>1, <3>2, <3>3
  <2> QED
      BY Zenon, <1>7, <1>2, <2>1, <2>2, <2>3
      DEF Pass
<1>8. CASE Crash
    BY SMTT(30), <1>8 DEF Crash, IInv, NameInv, ProcessInv, taskVars, Alive
<1> QED BY Zenon, <1>1, <1>4, <1>5, <1>6, <1>7, <1>8 DEF Next

-----------------------------------------------------------------------------
(* Queued jobs have no scheduler observation and no marker, and an attempt  *)
(* up to its launch is for a job without observation.                       *)
ObservedInv ==
    /\ \A j \in Jobs : state[j] = "queued" => j \notin observed /\ ~Marked(j)
    /\ \A s \in Slots : pc[s] \in Fresh \cup {"spawn"} => at[s] \notin observed

(* A slot that moves on towards its launch, or away from it, and queues no  *)
(* job keeps that.                                                         *)
LEMMA ObservedFrame ==
    ASSUME TypeOK, ObservedInv, NEW s \in Slots, NEW step, Goto(s, step),
           step \in Fresh \cup {"spawn"} => pc[s] \in Fresh \cup {"spawn"} /\ at'[s] = at[s],
           \A q \in Slots : q # s => at'[q] = at[q],
           \A j \in Jobs : state'[j] = "queued" => state[j] = "queued",
           markers' \subseteq markers, taskJob' = taskJob, observed' = observed
    PROVE  ObservedInv'
<1>1. /\ pc'[s] = step
      /\ \A q \in Slots : q # s => pc'[q] = pc[q]
  BY Zenon DEF TypeOK, SlotTypes, Goto
<1>2. \A j : Marked(j)' => Marked(j)
  BY Zenon DEF Marked, TasksOf
<1> QED BY Zenon, <1>1, <1>2 DEF ObservedInv

(* Observations: what every step does to them and to the queue. *)
LEMMA ObservedStep ==
    ASSUME Steady, IInv, ObservedInv, Next
    PROVE  ObservedInv'
<1>1. CASE RecoverStaleJobs
    BY Zenon, <1>1 DEF RecoverStaleJobs, ObservedInv, Reclaimed, RecoveredState, local,
        taskVars, Marked, TasksOf
<1>2. ASSUME NEW j \in Jobs, RecoverStaleJob(j) \/ Expire(j) \/ Cancel(j)
      PROVE  ObservedInv'
  <2>1. CASE RecoverStaleJob(j)
      BY SMTT(30), <2>1 DEF RecoverStaleJob, ObservedInv, Reclaimed, RecoveredState,
          local, taskVars, Marked, TasksOf
  <2>2. CASE Expire(j)
      BY Zenon, <2>2 DEF Expire, ObservedInv, local, taskVars, Marked, TasksOf
  <2>3. CASE Cancel(j)
      BY SMTT(30), <2>3 DEF Cancel, ObservedInv, local, taskVars, Marked, TasksOf
  <2> QED BY Zenon, <1>2, <2>1, <2>2, <2>3
<1>3. ASSUME NEW t \in Tasks, ProcessExits(t)
      PROVE  ObservedInv'
    BY Zenon, <1>3 DEF ProcessExits, ObservedInv, durable, local, taskVars, Marked,
        TasksOf
<1>4. ASSUME NEW s \in Slots, Attempt(s)
      PROVE  ObservedInv'
  <2>1. CASE \/ Acquire(s) \/ CheckCancel(s) \/ Undo(s)
             \/ UndoTask(s) \/ UndoAck(s) \/ Acknowledge(s)
    <3>1. CASE Acquire(s)
        BY SMTT(30), <3>1 DEF Acquire, IInv, TypeOK, SlotTypes, ObservedInv, Eligible,
            Reclaimed, RecoveredState, taskVars, Marked, TasksOf
    <3>2. CASE CheckCancel(s)
        BY Zenon, <3>2, ObservedFrame DEF CheckCancel, durable, local, taskVars,
            Fresh, UndoSteps, IInv
    <3>3. CASE Undo(s)
        BY Zenon, <3>3, ObservedFrame DEF Undo, SameJobs, SameTasks, Raise, durable,
            taskVars, Fresh, UndoSteps, IInv
    <3>4. CASE UndoTask(s)
        BY Zenon, <3>4, ObservedFrame DEF UndoTask, SameJobs, durable, local, Fresh,
            UndoSteps, IInv
    <3>5. CASE UndoAck(s)
        BY Zenon, <3>5, ObservedFrame DEF UndoAck, SameJobs, durable, Fresh,
            UndoSteps, IInv
    <3>6. CASE Acknowledge(s)
        BY SMTT(30), <3>6 DEF Acknowledge, IInv, TypeOK, JobTypes, SlotTypes,
            ObservedInv, Goto, Raise, SameLocal, SameTasks, Fresh, Marked, taskVars,
            UndoSteps, TasksOf
    <3> QED BY Zenon, <2>1, <3>1, <3>2, <3>3, <3>4, <3>5, <3>6
  <2>2. CASE \/ Begin(s) \/ OpenTask(s) \/ Register(s)
             \/ Spawn(s) \/ ReleaseGate(s) \/ StepFails(s)
    <3>1. CASE Begin(s)
        BY Zenon, <3>1 DEF Begin, IInv, TypeOK, JobTypes, SlotTypes, ObservedInv, Goto,
            Raise, SameLocal, SameTasks, Fresh, Marked, taskVars, TasksOf
    <3>2. CASE OpenTask(s)
        BY SMTT(30), <3>2 DEF OpenTask, IInv, LeaseInv, ObservedInv, Goto, SameJobs,
            WorkSteps, Fresh, Marked, durable, RunSteps, TasksOf
    <3>3. CASE Register(s)
        BY SMTT(30), <3>3 DEF Register, IInv, LeaseInv, NameInv, ObservedInv, Goto,
            SameJobs, local, WorkSteps, Named, Fresh, Marked, durable, RunSteps, TasksOf
    <3>4. CASE Spawn(s)
        BY Zenon, <3>4, ObservedFrame DEF Spawn, SameJobs, durable, local, Fresh,
            UndoSteps, IInv
    <3>5. CASE ReleaseGate(s)
        BY Zenon, <3>5, ObservedFrame DEF ReleaseGate, Raise, SameJobs, SameLocal,
            SameTasks, durable, taskVars, Fresh, UndoSteps, IInv
    <3>6. CASE StepFails(s)
        BY Zenon, <3>6, ObservedFrame DEF StepFails, Raise, SameJobs, SameLocal,
            SameTasks, durable, taskVars, Fresh, UndoSteps, IInv
    <3> QED BY Zenon, <2>2, <3>1, <3>2, <3>3, <3>4, <3>5, <3>6
  <2>3. CASE \/ PollExit(s) \/ PollCancel(s) \/ Heartbeat(s)
             \/ ObserveScheduler(s) \/ PollFails(s)
    <3>1. CASE PollExit(s)
        BY Zenon, <3>1, ObservedFrame DEF PollExit, durable, local, taskVars, Fresh,
            UndoSteps, IInv
    <3>2. CASE PollCancel(s)
        BY Zenon, <3>2, ObservedFrame DEF PollCancel, durable, local, taskVars, Fresh,
            UndoSteps, IInv
    <3>3. CASE Heartbeat(s)
        BY Zenon, <3>3, NoLateHeartbeat
    <3>4. CASE ObserveScheduler(s)
        BY SMTT(30), <3>4 DEF ObserveScheduler, IInv, LeaseInv, ObservedInv, local,
            taskVars, WorkSteps, Fresh, Marked, RunSteps, UndoSteps, TasksOf
    <3>5. CASE PollFails(s)
        BY Zenon, <3>5, ObservedFrame DEF PollFails, Raise, SameJobs, SameLocal,
            SameTasks, durable, taskVars, Fresh, UndoSteps, IInv
    <3> QED BY Zenon, <2>3, <3>1, <3>2, <3>3, <3>4, <3>5
  <2>4. CASE Resolve(s) \/ ResolveFails(s) \/ CloseTask(s) \/ CloseJob(s)
    <3>1. CASE Resolve(s)
        BY Zenon, <3>1, ObservedFrame DEF Resolve, SameJobs, SameLocal, durable,
            Fresh, UndoSteps, IInv
    <3>2. CASE ResolveFails(s)
        BY Zenon, <3>2, ObservedFrame DEF ResolveFails, Raise, SameJobs, SameLocal,
            SameTasks, durable, taskVars, Fresh, UndoSteps, IInv
    <3>3. CASE CloseTask(s)
        BY Zenon, <3>3, ObservedFrame DEF CloseTask, SameJobs, durable, local, Fresh,
            UndoSteps, IInv
    <3>4. CASE CloseJob(s)
        BY SMTT(30), <3>4 DEF CloseJob, IInv, TypeOK, JobTypes, SlotTypes, ObservedInv,
            Goto, Raise, SameLocal, SameTasks, Terminal, Notes, Fresh, Marked, taskVars,
            UndoSteps, TasksOf
    <3> QED BY Zenon, <2>4, <3>1, <3>2, <3>3, <3>4
  <2>5. CASE AckMarker(s) \/ FailTasks(s) \/ FailJob(s) \/ ReleaseLease(s)
    <3>1. CASE AckMarker(s)
        BY Zenon, <3>1, ObservedFrame DEF AckMarker, Raise, SameJobs, SameLocal,
            durable, Fresh, UndoSteps, IInv
    <3>2. CASE FailTasks(s)
        BY Zenon, <3>2, ObservedFrame DEF FailTasks, Escape, SameJobs, SameLocal,
            durable, Fresh, UndoSteps, IInv
    <3>3. CASE FailJob(s)
        BY SMTT(30), <3>3 DEF FailJob, IInv, TypeOK, JobTypes, SlotTypes, ObservedInv,
            Escape, Goto, SameLocal, SameTasks, Fresh, Marked, taskVars, UndoSteps,
            TasksOf
    <3>4. CASE ReleaseLease(s)
        BY SMTT(30), <3>4 DEF ReleaseLease, ObservedInv, Goto, taskVars, Fresh, Marked,
            UndoSteps, TasksOf
    <3> QED BY Zenon, <2>5, <3>1, <3>2, <3>3, <3>4
  <2> QED
      BY Zenon, <1>4, <2>1, <2>2, <2>3, <2>4, <2>5
      DEF Attempt
<1>5. ASSUME NEW s \in Slots, Pass(s)
      PROVE  ObservedInv'
  <2>1. CASE \/ StartPass(s) \/ ScanMarkers(s) \/ PickMarker(s)
             \/ EndPass(s) \/ VisitFails(s)
    <3>1. CASE StartPass(s)
        BY SMTT(30), <3>1 DEF StartPass, ObservedInv, Goto, Reclaimed, RecoveredState,
            local, taskVars, Fresh, Marked, UndoSteps, TasksOf
    <3>2. CASE ScanMarkers(s)
        BY Zenon, <3>2, ObservedFrame DEF ScanMarkers, SameJobs, SameTasks, durable,
            taskVars, Fresh, UndoSteps, IInv
    <3>3. CASE PickMarker(s)
        BY SMTT(30), <3>3 DEF PickMarker, IInv, TypeOK, SlotTypes, ObservedInv, Goto,
            SameJobs, SameTasks, Fresh, Marked, durable, taskVars, UndoSteps, TasksOf
    <3>4. CASE EndPass(s)
        BY Zenon, <3>4, ObservedFrame DEF EndPass, SameJobs, SameTasks, durable,
            taskVars, Fresh, UndoSteps, IInv
    <3>5. CASE VisitFails(s)
        BY Zenon, <3>5, LeaveSlots, ObservedFrame DEF VisitFails, Leave, SameJobs,
            SameTasks, durable, taskVars, Fresh, UndoSteps, IInv
    <3> QED BY Zenon, <2>1, <3>1, <3>2, <3>3, <3>4, <3>5
  <2>2. CASE StopRecorded(s) \/ ResolveRecorded(s) \/ CloseRecorded(s)
    <3>1. CASE StopRecorded(s)
        BY Zenon, <3>1, ObservedFrame DEF StopRecorded, durable, taskVars, local,
            Fresh, UndoSteps, IInv
    <3>2. CASE ResolveRecorded(s)
      <4>1. /\ pc[s] = "rresolve" /\ state' = state /\ markers' = markers
            /\ taskJob' = taskJob /\ at' = at /\ observed' \subseteq observed \cup {at[s]}
          BY Zenon, <3>2 DEF ResolveRecorded, SameLocal
      <4>2. /\ pc'[s] \notin Fresh \cup {"spawn"}
            /\ \A q \in Slots : q # s => pc'[q] = pc[q]
          BY Zenon, <3>2 DEF ResolveRecorded, Goto, IInv, TypeOK, SlotTypes, Fresh, UndoSteps
      <4>3. /\ at[s] \in Jobs /\ holder[at[s]] \notin Slots /\ mine[s] \in Tasks
            /\ taskJob[mine[s]] = at[s] /\ (mine[s] \in markers \/ state[at[s]] \in Terminal)
          BY Zenon, <4>1 DEF IInv, NameInv, VisitInv, PassSteps, Visit
      <4>4. state[at[s]] # "queued"
          BY Zenon, <4>3 DEF ObservedInv, Marked, TasksOf, Terminal
      <4>5. \A q \in Slots : pc[q] \in Fresh \cup {"spawn"} => at[q] # at[s]
        <5>1. \A q \in Slots : pc[q] \in Fresh \cup {"spawn"} => pc[q] \in WorkSteps
            BY Zenon DEF Fresh, WorkSteps, RunSteps
        <5>2. \A q \in Slots : pc[q] \in WorkSteps => holder[at[q]] = q
            BY Zenon DEF IInv, LeaseInv
        <5> QED BY Zenon, <4>3, <5>1, <5>2
      <4>6. \A j : Marked(j)' <=> Marked(j)
          BY Zenon, <4>1 DEF Marked, TasksOf
      <4>7. \A j \in Jobs : state'[j] = "queued" => j \notin observed' /\ ~Marked(j)'
          BY Zenon, <4>1, <4>4, <4>6 DEF ObservedInv
      <4>8. \A q \in Slots : pc'[q] \in Fresh \cup {"spawn"} => at'[q] \notin observed'
          BY Zenon, <4>1, <4>2, <4>5 DEF ObservedInv
      <4> QED BY Zenon, <4>7, <4>8 DEF ObservedInv
    <3>3. CASE CloseRecorded(s)
        BY Zenon, <3>3, ObservedFrame DEF CloseRecorded, SameJobs, durable, local,
            Fresh, UndoSteps, IInv
    <3> QED BY Zenon, <2>2, <3>1, <3>2, <3>3
  <2>3. CASE EndRecorded(s) \/ AckRecorded(s) \/ CancelRecorded(s)
    <3>1. CASE EndRecorded(s)
      <4>1. \A j \in Jobs : state'[j] = "queued" => state[j] = "queued"
          BY Zenon, <3>1 DEF EndRecorded, IInv, TypeOK, JobTypes
      <4>2. CASE Leave(s)
          BY Zenon, <3>1, <4>1, <4>2, LeaveSlots, ObservedFrame DEF EndRecorded, Leave,
              SameTasks, taskVars, Fresh, UndoSteps, IInv
      <4>3. CASE Goto(s, "rack") /\ UNCHANGED local
          BY Zenon, <3>1, <4>1, <4>3, ObservedFrame DEF EndRecorded, local, SameTasks,
              taskVars, Fresh, UndoSteps, IInv
      <4> QED BY Zenon, <3>1, <4>2, <4>3 DEF EndRecorded
    <3>2. CASE AckRecorded(s)
        BY SMTT(30), <3>2 DEF AckRecorded, IInv, TypeOK, SlotTypes, ObservedInv, Goto,
            Leave, SameJobs, local, Fresh, Marked, durable, UndoSteps, TasksOf
    <3>3. CASE CancelRecorded(s)
      <4>1. \A j \in Jobs : state'[j] = "queued" => state[j] = "queued"
          BY Zenon, <3>3 DEF CancelRecorded, IInv, TypeOK, JobTypes
      <4> QED BY Zenon, <3>3, <4>1, LeaveSlots, ObservedFrame DEF CancelRecorded, Leave,
              SameTasks, taskVars, Fresh, UndoSteps, IInv
    <3> QED BY Zenon, <2>3, <3>1, <3>2, <3>3
  <2> QED
      BY Zenon, <1>5, <2>1, <2>2, <2>3
      DEF Pass
<1>6. CASE Crash
    BY Zenon, <1>6 DEF Crash, ObservedInv, taskVars, Fresh, Marked, UndoSteps, TasksOf
<1> QED BY Zenon, <1>1, <1>2, <1>3, <1>4, <1>5, <1>6 DEF Next

-----------------------------------------------------------------------------
(* A slot that moves on within its attempt, or leaves it, keeps what is said *)
(* of markers.                                                             *)
LEMMA MarkerFrame ==
    ASSUME TypeOK, MarkerInv, NEW s \in Slots, NEW step, Goto(s, step),
           step \in Fresh => pc[s] \in Fresh, step \in Launched => pc[s] \in Launched,
           markers' = markers, proven' = proven, taskJob' = taskJob,
           at' = at, mine' = mine
    PROVE  MarkerInv'
<1>1. /\ pc'[s] = step
      /\ \A q \in Slots : q # s => pc'[q] = pc[q]
  BY Zenon DEF TypeOK, SlotTypes, Goto
<1>2. \A j : Marked(j)' <=> Marked(j)
  BY Zenon DEF Marked, TasksOf
<1> QED
  BY Zenon, <1>1, <1>2 DEF MarkerInv

(* Markers: what every step does to the pending cleanups.                  *)
LEMMA MarkerStep ==
    ASSUME Steady, IInv, Next
    PROVE  MarkerInv'
<1>1. CASE RecoverStaleJobs
    BY Zenon, <1>1 DEF RecoverStaleJobs, IInv, MarkerInv, local, taskVars, Marked,
        TasksOf
<1>2. ASSUME NEW j \in Jobs, RecoverStaleJob(j) \/ Expire(j) \/ Cancel(j)
      PROVE  MarkerInv'
  <2>1. CASE RecoverStaleJob(j)
      BY Zenon, <2>1 DEF RecoverStaleJob, IInv, MarkerInv, local, taskVars, Marked,
          TasksOf
  <2>2. CASE Expire(j)
      BY Zenon, <2>2 DEF Expire, IInv, MarkerInv, local, taskVars, Marked, TasksOf
  <2>3. CASE Cancel(j)
      BY Zenon, <2>3 DEF Cancel, IInv, MarkerInv, local, taskVars, Marked, TasksOf
  <2> QED BY Zenon, <1>2, <2>1, <2>2, <2>3
<1>3. ASSUME NEW t \in Tasks, ProcessExits(t)
      PROVE  MarkerInv'
    BY Zenon, <1>3 DEF ProcessExits, IInv, MarkerInv, local, taskVars, Marked, TasksOf
<1>4. ASSUME NEW s \in Slots, Attempt(s)
      PROVE  MarkerInv'
  <2>1. CASE \/ Acquire(s) \/ CheckCancel(s) \/ Undo(s)
             \/ UndoTask(s) \/ UndoAck(s) \/ Acknowledge(s)
    <3>1. CASE Acquire(s)
        BY SMTT(30), <3>1 DEF Acquire, IInv, TypeOK, SlotTypes, MarkerInv, Eligible,
            taskVars, Launched, Marked, TasksOf
    <3>2. CASE CheckCancel(s)
        BY Zenon, <3>2, MarkerFrame DEF CheckCancel, IInv, local, taskVars, Fresh,
            Launched, UndoSteps
    <3>3. CASE Undo(s)
        BY SMTT(30), <3>3 DEF Undo, IInv, TypeOK, SlotTypes, MarkerInv, Goto, Raise,
            SameTasks, Fresh, Launched, Marked, TasksOf, taskVars, UndoSteps
    <3>4. CASE UndoTask(s)
        BY Zenon, <3>4, MarkerFrame DEF UndoTask, IInv, local, Fresh, Launched,
            UndoSteps
    <3>5. CASE UndoAck(s)
        BY SMTT(30), <3>5 DEF UndoAck, IInv, NameInv, MarkerInv, Goto, Named, Fresh,
            Launched, Marked, UndoSteps, TasksOf
    <3>6. CASE Acknowledge(s)
        BY Zenon, <3>6, MarkerFrame DEF Acknowledge, IInv, Raise, SameLocal,
            SameTasks, Fresh, Launched, taskVars, UndoSteps
    <3> QED BY Zenon, <2>1, <3>1, <3>2, <3>3, <3>4, <3>5, <3>6
  <2>2. CASE \/ Begin(s) \/ OpenTask(s) \/ Register(s)
             \/ Spawn(s) \/ ReleaseGate(s) \/ StepFails(s)
    <3>1. CASE Begin(s)
        BY Zenon, <3>1, MarkerFrame DEF Begin, IInv, Raise, SameLocal, SameTasks,
            Fresh, Launched, taskVars, UndoSteps
    <3>2. CASE OpenTask(s)
        BY SMTT(30), <3>2 DEF OpenTask, IInv, NameInv, MarkerInv, Goto, Fresh, Launched,
            Marked, TasksOf
    <3>3. CASE Register(s)
        BY SMTT(30), <3>3 DEF Register, IInv, TypeOK, LeaseInv, NameInv, TaskTypes,
            SlotTypes, MarkerInv, Goto, local, Named, PassSteps, Steps, Fresh, Marked,
            UndoSteps, TasksOf
    <3>4. CASE Spawn(s)
        BY Zenon, <3>4, MarkerFrame DEF Spawn, IInv, local, Fresh, Launched,
            UndoSteps
    <3>5. CASE ReleaseGate(s)
        BY Zenon, <3>5, MarkerFrame DEF ReleaseGate, IInv, Raise, SameLocal,
            SameTasks, Fresh, Launched, taskVars, UndoSteps
    <3>6. CASE StepFails(s)
        BY Zenon, <3>6, MarkerFrame DEF StepFails, IInv, Raise, SameLocal,
            SameTasks, UndoSteps, Fresh, Launched, taskVars
    <3> QED BY Zenon, <2>2, <3>1, <3>2, <3>3, <3>4, <3>5, <3>6
  <2>3. CASE \/ PollExit(s) \/ PollCancel(s) \/ Heartbeat(s)
             \/ ObserveScheduler(s) \/ PollFails(s)
    <3>1. CASE PollExit(s)
        BY Zenon, <3>1, MarkerFrame DEF PollExit, IInv, local, taskVars, Fresh,
            Launched, UndoSteps
    <3>2. CASE PollCancel(s)
        BY Zenon, <3>2, MarkerFrame DEF PollCancel, IInv, local, taskVars, Fresh,
            Launched, UndoSteps
    <3>3. CASE Heartbeat(s)
        BY Zenon, <3>3, NoLateHeartbeat
    <3>4. CASE ObserveScheduler(s)
        BY Zenon, <3>4 DEF ObserveScheduler, IInv, MarkerInv, local, taskVars, Marked,
            TasksOf
    <3>5. CASE PollFails(s)
        BY Zenon, <3>5, MarkerFrame DEF PollFails, IInv, Raise, SameLocal,
            SameTasks, Fresh, Launched, taskVars, UndoSteps
    <3> QED BY Zenon, <2>3, <3>1, <3>2, <3>3, <3>4, <3>5
  <2>4. CASE Resolve(s) \/ ResolveFails(s) \/ CloseTask(s) \/ CloseJob(s)
    <3>1. CASE Resolve(s)
        BY Zenon, <3>1, MarkerFrame DEF Resolve, IInv, SameLocal, Fresh, Launched,
            UndoSteps
    <3>2. CASE ResolveFails(s)
        BY Zenon, <3>2, MarkerFrame DEF ResolveFails, IInv, Raise, SameLocal,
            SameTasks, Fresh, Launched, taskVars, UndoSteps
    <3>3. CASE CloseTask(s)
        BY Zenon, <3>3, MarkerFrame DEF CloseTask, IInv, local, Fresh, Launched,
            UndoSteps
    <3>4. CASE CloseJob(s)
        BY Zenon, <3>4, MarkerFrame DEF CloseJob, IInv, Raise, SameLocal, SameTasks,
            Fresh, Launched, taskVars, UndoSteps
    <3> QED BY Zenon, <2>4, <3>1, <3>2, <3>3, <3>4
  <2>5. CASE AckMarker(s) \/ FailTasks(s) \/ FailJob(s) \/ ReleaseLease(s)
    <3>1. CASE AckMarker(s)
      <4>1. /\ pc[s] = "ackmarker" /\ markers' \in {markers, markers \ {mine[s]}}
            /\ proven' = proven /\ taskJob' = taskJob /\ at' = at /\ mine' = mine
          BY Zenon, <3>1 DEF AckMarker, SameLocal
      <4>2. /\ pc'[s] \in {"failtasks", "release"}
            /\ \A q \in Slots : q # s => pc'[q] = pc[q]
          BY Zenon, <3>1 DEF AckMarker, Goto, Raise, IInv, TypeOK, SlotTypes
      <4>3. /\ \A q \in Slots : pc[q] \in Launched => pc[q] \in WorkSteps /\ pc[q] \in Named
            /\ pc[s] \in WorkSteps /\ pc[s] \in Named
          BY Zenon, <4>1 DEF Launched, WorkSteps, RunSteps, Named
      <4>4. \A q \in Slots : pc[q] \in Launched => holder[at[q]] = q /\ taskJob[mine[q]] = at[q]
          BY Zenon, <4>3 DEF IInv, LeaseInv, NameInv
      <4>5. holder[at[s]] = s /\ taskJob[mine[s]] = at[s]
          BY Zenon, <4>3 DEF IInv, LeaseInv, NameInv
      <4>6. \A q \in Slots : q # s /\ pc[q] \in Launched => mine[q] # mine[s]
          BY <4>4, <4>5
      <4>7. \A j : Marked(j)' => Marked(j)
          BY Zenon, <4>1 DEF Marked, TasksOf
      <4>8. pc'[s] \notin Fresh /\ pc'[s] \notin Launched
          BY Zenon, <4>2 DEF Fresh, Launched, UndoSteps
      <4>9. markers' \subseteq markers /\ \A t \in markers : t # mine[s] => t \in markers'
          BY Zenon, <4>1
      <4>10. \A q \in Slots : pc'[q] \in Launched => mine'[q] \in markers'
          BY Zenon, <4>1, <4>2, <4>6, <4>8, <4>9 DEF IInv, MarkerInv
      <4>11. \A q \in Slots : pc'[q] \in Fresh => ~Marked(at[q])'
        <5>1. ASSUME NEW q \in Slots, pc'[q] \in Fresh
              PROVE  ~Marked(at[q]) /\ at'[q] = at[q]
            BY Zenon, <4>1, <4>2, <4>8, <5>1 DEF IInv, MarkerInv
        <5> QED BY Zenon, <4>7, <5>1
      <4>12. /\ \A t, u \in markers' : taskJob'[t] = taskJob'[u] => t = u
             /\ markers' \cap proven' = {}
          BY Zenon, <4>1, <4>9 DEF IInv, MarkerInv
      <4> QED BY Zenon, <4>10, <4>11, <4>12 DEF MarkerInv
    <3>2. CASE FailTasks(s)
        BY Zenon, <3>2, MarkerFrame DEF FailTasks, IInv, Escape, SameLocal, Fresh,
            Launched, UndoSteps
    <3>3. CASE FailJob(s)
        BY Zenon, <3>3, MarkerFrame DEF FailJob, IInv, Escape, SameLocal, SameTasks,
            Fresh, Launched, taskVars, UndoSteps
    <3>4. CASE ReleaseLease(s)
        BY SMTT(30), <3>4 DEF ReleaseLease, IInv, MarkerInv, Goto, taskVars, Fresh,
            Launched, Marked, UndoSteps, TasksOf
    <3> QED BY Zenon, <2>5, <3>1, <3>2, <3>3, <3>4
  <2> QED
      BY Zenon, <1>4, <2>1, <2>2, <2>3, <2>4, <2>5
      DEF Attempt
<1>5. ASSUME NEW s \in Slots, Pass(s)
      PROVE  MarkerInv'
  <2>1. CASE \/ StartPass(s) \/ ScanMarkers(s) \/ PickMarker(s)
             \/ EndPass(s) \/ VisitFails(s)
    <3>1. CASE StartPass(s)
        BY Zenon, <3>1, MarkerFrame DEF StartPass, IInv, local, taskVars, Fresh,
            Launched, UndoSteps
    <3>2. CASE ScanMarkers(s)
        BY Zenon, <3>2, MarkerFrame DEF ScanMarkers, IInv, SameTasks, Fresh,
            Launched, taskVars, UndoSteps
    <3>3. CASE PickMarker(s)
        BY SMTT(30), <3>3 DEF PickMarker, IInv, TypeOK, SlotTypes, MarkerInv, Goto,
            SameTasks, Fresh, Launched, Marked, taskVars, UndoSteps, TasksOf
    <3>4. CASE EndPass(s)
        BY Zenon, <3>4, MarkerFrame DEF EndPass, IInv, SameTasks, Fresh, Launched,
            taskVars, UndoSteps
    <3>5. CASE VisitFails(s)
        BY SMTT(30), <3>5 DEF VisitFails, IInv, MarkerInv, Leave, PassSteps, SameTasks,
            Fresh, Launched, Marked, Goto, taskVars, UndoSteps, TasksOf
    <3> QED BY Zenon, <2>1, <3>1, <3>2, <3>3, <3>4, <3>5
  <2>2. CASE StopRecorded(s) \/ ResolveRecorded(s) \/ CloseRecorded(s)
    <3>1. CASE StopRecorded(s)
        BY Zenon, <3>1, MarkerFrame DEF StopRecorded, IInv, local, taskVars, Fresh,
            Launched, UndoSteps
    <3>2. CASE ResolveRecorded(s)
        BY Zenon, <3>2, MarkerFrame DEF ResolveRecorded, IInv, SameLocal, Fresh,
            Launched, UndoSteps
    <3>3. CASE CloseRecorded(s)
        BY Zenon, <3>3, MarkerFrame DEF CloseRecorded, IInv, local, Fresh, Launched,
            UndoSteps
    <3> QED BY Zenon, <2>2, <3>1, <3>2, <3>3
  <2>3. CASE EndRecorded(s) \/ AckRecorded(s) \/ CancelRecorded(s)
    <3>1. CASE EndRecorded(s)
        BY SMTT(30), <3>1 DEF EndRecorded, IInv, TypeOK, SlotTypes, MarkerInv, Goto,
            Leave, SameTasks, local, Fresh, Launched, Marked, taskVars, UndoSteps,
            TasksOf
    <3>2. CASE AckRecorded(s)
      <4>1. /\ pc[s] = "rack" /\ markers' = markers \ {mine[s]}
            /\ proven' = proven \cup {mine[s]} /\ taskJob' = taskJob
            /\ (Goto(s, "rcancel") /\ UNCHANGED local) \/ Leave(s)
            /\ LeaseInv /\ NameInv /\ MarkerInv /\ VisitInv
            /\ pc \in [Slots -> Steps] /\ at \in [Slots -> Jobs \cup {NoJob}]
            /\ mine \in [Slots -> Tasks \cup {NoTask}]
          BY Zenon, <3>2 DEF AckRecorded, IInv, TypeOK, SlotTypes
      <4>2. /\ pc'[s] \in {"rcancel", "pick"}
            /\ \A q \in Slots : q # s =>
                  pc'[q] = pc[q] /\ at'[q] = at[q] /\ mine'[q] = mine[q]
          BY Zenon, <4>1 DEF Goto, Leave, local
      <4>3. holder[at[s]] \notin Slots /\ taskJob[mine[s]] = at[s]
          BY Zenon, <4>1 DEF VisitInv, NameInv, Visit, PassSteps
      <4>4. \A q \in Slots : pc[q] \in Launched => mine[q] # mine[s]
        <5>1. \A q \in Slots : pc[q] \in Launched => pc[q] \in WorkSteps /\ pc[q] \in Named
            BY Zenon DEF Launched, WorkSteps, RunSteps, Named
        <5>2. \A q \in Slots : pc[q] \in Launched => holder[at[q]] = q
            BY Zenon, <4>1, <5>1 DEF LeaseInv
        <5>3. \A q \in Slots : pc[q] \in Launched => taskJob[mine[q]] = at[q]
            BY Zenon, <4>1, <5>1 DEF NameInv
        <5> QED BY <4>3, <5>2, <5>3
      <4>5. \A j : Marked(j)' => Marked(j)
          BY Zenon, <4>1 DEF Marked, TasksOf
      <4>6. pc'[s] \notin Fresh /\ pc'[s] \notin Launched
          BY Zenon, <4>2 DEF Fresh, Launched, UndoSteps
      <4> QED BY Zenon, <4>1, <4>2, <4>4, <4>5, <4>6 DEF MarkerInv
    <3>3. CASE CancelRecorded(s)
        BY SMTT(30), <3>3 DEF CancelRecorded, IInv, MarkerInv, Leave, SameTasks, Fresh,
            Launched, Marked, Goto, taskVars, UndoSteps, TasksOf
    <3> QED BY Zenon, <2>3, <3>1, <3>2, <3>3
  <2> QED
      BY Zenon, <1>5, <2>1, <2>2, <2>3
      DEF Pass
<1>6. CASE Crash
    BY Zenon, <1>6 DEF Crash, IInv, MarkerInv, taskVars, Fresh, Launched, UndoSteps
<1> QED BY Zenon, <1>1, <1>2, <1>3, <1>4, <1>5, <1>6 DEF Next

-----------------------------------------------------------------------------
(* A slot that stays at work, or leaves it, keeps what is said of leases.  *)
LEMMA LeaseFrame ==
    ASSUME TypeOK, LeaseInv, NEW s \in Slots, NEW step, Goto(s, step),
           step \in WorkSteps => pc[s] \in WorkSteps,
           state' = state, holder' = holder, expired' = expired,
           at' = at
    PROVE  LeaseInv'
<1>1. /\ pc'[s] = step
      /\ \A q \in Slots : q # s => pc'[q] = pc[q]
  BY Zenon DEF TypeOK, SlotTypes, Goto
<1> QED
  BY Zenon, <1>1 DEF LeaseInv

(* So does a slot at a pass whose step queues no job.                      *)
LEMMA LeaseAway ==
    ASSUME LeaseInv, NEW s \in Slots, pc'[s] \notin WorkSteps,
           \A q \in Slots : q # s => pc'[q] = pc[q] /\ at'[q] = at[q],
           \A j \in Jobs : state'[j] = "queued" => state[j] = "queued",
           holder' = holder, expired' = expired
    PROVE  LeaseInv'
BY Zenon DEF LeaseInv

(* Stale recovery, alone or before a pass, keeps what is said of leases.   *)
LEMMA LeaseRecovered ==
    ASSUME IInv, state' = RecoveredState, holder' = RecoveredHolder,
           expired' = expired \ Reclaimed, at' = at,
           \A q \in Slots : pc'[q] \in WorkSteps => pc[q] \in WorkSteps
    PROVE  LeaseInv'
<1>1. \A j \in expired' : j \in Jobs /\ holder'[j] = Crashed
  BY Zenon, RecoveryFrame DEF IInv, TypeOK, JobTypes
<1>2. \A j \in Jobs : state'[j] = "queued" => holder'[j] = Nobody
  BY Zenon, RecoveryFrame
<1>3. \A q \in Slots : pc[q] \in WorkSteps => at[q] \in Jobs /\ holder[at[q]] = q
  BY Zenon DEF IInv, LeaseInv
<1>4. \A q \in Slots : pc[q] \in WorkSteps => holder'[at[q]] = q
  BY Zenon, <1>3, RecoveryFrame
<1> QED BY Zenon, <1>1, <1>2, <1>3, <1>4 DEF LeaseInv

(* Leases: what every step does to holders, expiry and queued jobs.        *)
LEMMA LeaseStep ==
    ASSUME Steady, IInv, Next
    PROVE  LeaseInv'
<1>1. CASE RecoverStaleJobs
    BY Zenon, <1>1, LeaseRecovered DEF RecoverStaleJobs, local
<1>2. ASSUME NEW j \in Jobs, RecoverStaleJob(j) \/ Expire(j) \/ Cancel(j)
      PROVE  LeaseInv'
  <2>1. CASE RecoverStaleJob(j)
      BY SMTT(30), <2>1 DEF RecoverStaleJob, IInv, TypeOK, JobTypes, LeaseInv,
          Reclaimed, local
  <2>2. CASE Expire(j)
      BY Zenon, <2>2 DEF Expire, IInv, LeaseInv, local, Steady
  <2>3. CASE Cancel(j)
      BY SMTT(30), <2>3 DEF Cancel, IInv, LeaseInv, local
  <2> QED BY Zenon, <1>2, <2>1, <2>2, <2>3
<1>3. ASSUME NEW t \in Tasks, ProcessExits(t)
      PROVE  LeaseInv'
    BY Zenon, <1>3 DEF ProcessExits, IInv, LeaseInv, durable, local
<1>4. ASSUME NEW s \in Slots, Attempt(s)
      PROVE  LeaseInv'
  <2>1. CASE \/ Acquire(s) \/ CheckCancel(s) \/ Undo(s)
             \/ UndoTask(s) \/ UndoAck(s) \/ Acknowledge(s)
    <3>1. CASE Acquire(s)
      <4>1. PICK j \in Eligible :
                /\ state' = [RecoveredState EXCEPT ![j] = "leased"]
                /\ holder' = [RecoveredHolder EXCEPT ![j] = s]
                /\ at' = [at EXCEPT ![s] = j]
          BY Zenon, <3>1 DEF Acquire
      <4>2. /\ pc' = [pc EXCEPT ![s] = "leased"]
            /\ expired' = expired \ Reclaimed
          BY Zenon, <3>1 DEF Acquire
      <4>3. j \in Jobs /\ RecoveredState[j] = "queued" /\ RecoveredHolder[j] = Nobody
          BY Zenon, <4>1, RecoveryFrame DEF Eligible
      <4>4. /\ state'[j] = "leased" /\ holder'[j] = s
            /\ \A i \in Jobs : i # j =>
                  state'[i] = RecoveredState[i] /\ holder'[i] = RecoveredHolder[i]
          BY Zenon, <4>1, <4>3 DEF RecoveredState, RecoveredHolder
      <4>5. /\ at'[s] = j
            /\ \A q \in Slots : q # s => pc'[q] = pc[q] /\ at'[q] = at[q]
          BY Zenon, <4>1, <4>2 DEF IInv, TypeOK, SlotTypes
      <4>6. \A i \in expired \ Reclaimed :
                i \in Jobs /\ RecoveredHolder[i] = Crashed
          BY Zenon, RecoveryFrame DEF IInv, TypeOK, JobTypes
      <4>7. \A q \in Slots : pc[q] \in WorkSteps =>
                at[q] \in Jobs /\ RecoveredHolder[at[q]] = q
          BY Zenon, RecoveryFrame DEF IInv, LeaseInv
      <4>8. /\ \A i \in expired' : holder'[i] = Crashed
            /\ \A i \in Jobs : state'[i] = "queued" => holder'[i] = Nobody
          BY Zenon, <4>2, <4>3, <4>4, <4>6, RecoveryFrame
      <4>9. \A q \in Slots : pc'[q] \in WorkSteps => at'[q] \in Jobs /\ holder'[at'[q]] = q
        <5>1. ASSUME NEW q \in Slots, q # s, pc'[q] \in WorkSteps
              PROVE  at'[q] \in Jobs /\ holder'[at'[q]] = q
          <6>1. at'[q] \in Jobs /\ RecoveredHolder[at'[q]] = q
              BY Zenon, <4>5, <4>7, <5>1
          <6>2. at'[q] # j
              BY Zenon, <4>3, <6>1
          <6> QED BY Zenon, <4>4, <6>1, <6>2
        <5>2. at'[s] \in Jobs /\ holder'[at'[s]] = s
            BY Zenon, <4>3, <4>4, <4>5
        <5> QED BY Zenon, <5>1, <5>2
      <4> QED BY Zenon, <4>8, <4>9 DEF LeaseInv
    <3>2. CASE CheckCancel(s)
        BY Zenon, <3>2, LeaseFrame DEF CheckCancel, IInv, durable, local, WorkSteps,
            RunSteps, UndoSteps
    <3>3. CASE Undo(s)
        BY Zenon, <3>3, LeaseFrame DEF Undo, IInv, Raise, SameJobs, WorkSteps,
            durable, UndoSteps, RunSteps
    <3>4. CASE UndoTask(s)
        BY Zenon, <3>4, LeaseFrame DEF UndoTask, IInv, SameJobs, local, WorkSteps,
            durable, UndoSteps, RunSteps
    <3>5. CASE UndoAck(s)
        BY Zenon, <3>5, LeaseFrame DEF UndoAck, IInv, SameJobs, WorkSteps, durable,
            UndoSteps, RunSteps
    <3>6. CASE Acknowledge(s)
        BY SMTT(30), <3>6 DEF Acknowledge, IInv, TypeOK, JobTypes, SlotTypes, LeaseInv,
            Goto, Raise, SameLocal, WorkSteps, UndoSteps
    <3> QED BY Zenon, <2>1, <3>1, <3>2, <3>3, <3>4, <3>5, <3>6
  <2>2. CASE \/ Begin(s) \/ OpenTask(s) \/ Register(s)
             \/ Spawn(s) \/ ReleaseGate(s) \/ StepFails(s)
    <3>1. CASE Begin(s)
        BY SMTT(30), <3>1 DEF Begin, IInv, TypeOK, JobTypes, SlotTypes, LeaseInv, Goto,
            Raise, SameLocal, WorkSteps
    <3>2. CASE OpenTask(s)
        BY Zenon, <3>2, LeaseFrame DEF OpenTask, IInv, SameJobs, WorkSteps, durable,
            RunSteps, UndoSteps
    <3>3. CASE Register(s)
        BY Zenon, <3>3, LeaseFrame DEF Register, IInv, SameJobs, local, WorkSteps,
            durable, RunSteps, UndoSteps
    <3>4. CASE Spawn(s)
        BY Zenon, <3>4, LeaseFrame DEF Spawn, IInv, SameJobs, local, WorkSteps,
            durable, RunSteps, UndoSteps
    <3>5. CASE ReleaseGate(s)
        BY Zenon, <3>5, LeaseFrame DEF ReleaseGate, IInv, Raise, SameJobs,
            SameLocal, WorkSteps, durable, RunSteps, UndoSteps
    <3>6. CASE StepFails(s)
        BY Zenon, <3>6, LeaseFrame DEF StepFails, IInv, Raise, SameJobs, SameLocal,
            WorkSteps, durable, RunSteps, UndoSteps
    <3> QED BY Zenon, <2>2, <3>1, <3>2, <3>3, <3>4, <3>5, <3>6
  <2>3. CASE \/ PollExit(s) \/ PollCancel(s) \/ Heartbeat(s)
             \/ ObserveScheduler(s) \/ PollFails(s)
    <3>1. CASE PollExit(s)
        BY Zenon, <3>1, LeaseFrame DEF PollExit, IInv, durable, local, WorkSteps,
            RunSteps, UndoSteps
    <3>2. CASE PollCancel(s)
        BY Zenon, <3>2, LeaseFrame DEF PollCancel, IInv, durable, local, WorkSteps,
            RunSteps, UndoSteps
    <3>3. CASE Heartbeat(s)
        BY Zenon, <3>3, NoLateHeartbeat
    <3>4. CASE ObserveScheduler(s)
        BY Zenon, <3>4 DEF ObserveScheduler, IInv, LeaseInv, local
    <3>5. CASE PollFails(s)
        BY Zenon, <3>5, LeaseFrame DEF PollFails, IInv, Raise, SameJobs, SameLocal,
            WorkSteps, durable, RunSteps, UndoSteps
    <3> QED BY Zenon, <2>3, <3>1, <3>2, <3>3, <3>4, <3>5
  <2>4. CASE Resolve(s) \/ ResolveFails(s) \/ CloseTask(s) \/ CloseJob(s)
    <3>1. CASE Resolve(s)
        BY Zenon, <3>1, LeaseFrame DEF Resolve, IInv, SameJobs, SameLocal,
            WorkSteps, durable, RunSteps, UndoSteps
    <3>2. CASE ResolveFails(s)
        BY Zenon, <3>2, LeaseFrame DEF ResolveFails, IInv, Raise, SameJobs,
            SameLocal, WorkSteps, durable, RunSteps, UndoSteps
    <3>3. CASE CloseTask(s)
        BY Zenon, <3>3, LeaseFrame DEF CloseTask, IInv, SameJobs, local, WorkSteps,
            durable, RunSteps, UndoSteps
    <3>4. CASE CloseJob(s)
        BY SMTT(30), <3>4 DEF CloseJob, IInv, TypeOK, JobTypes, SlotTypes, LeaseInv,
            Goto, Raise, SameLocal, Terminal, Notes, WorkSteps, RunSteps
    <3> QED BY Zenon, <2>4, <3>1, <3>2, <3>3, <3>4
  <2>5. CASE AckMarker(s) \/ FailTasks(s) \/ FailJob(s) \/ ReleaseLease(s)
    <3>1. CASE AckMarker(s)
        BY Zenon, <3>1, LeaseFrame DEF AckMarker, IInv, Raise, SameJobs, SameLocal,
            WorkSteps, durable, RunSteps, UndoSteps
    <3>2. CASE FailTasks(s)
        BY Zenon, <3>2 DEF FailTasks, IInv, TypeOK, SlotTypes, LeaseInv, Escape, Goto,
            SameJobs, SameLocal, WorkSteps, durable
    <3>3. CASE FailJob(s)
        BY Zenon, <3>3 DEF FailJob, IInv, TypeOK, JobTypes, SlotTypes, LeaseInv, Escape,
            Goto, SameLocal, WorkSteps
    <3>4. CASE ReleaseLease(s)
        BY SMTT(30), <3>4 DEF ReleaseLease, IInv, TypeOK, JobTypes, SlotTypes, LeaseInv,
            Goto, WorkSteps, RunSteps, UndoSteps
    <3> QED BY Zenon, <2>5, <3>1, <3>2, <3>3, <3>4
  <2> QED
      BY Zenon, <1>4, <2>1, <2>2, <2>3, <2>4, <2>5
      DEF Attempt
<1>5. ASSUME NEW s \in Slots, Pass(s)
      PROVE  LeaseInv'
  <2>1. CASE \/ StartPass(s) \/ ScanMarkers(s) \/ PickMarker(s)
             \/ EndPass(s) \/ VisitFails(s)
    <3>1. CASE StartPass(s)
      <4>1. \A q \in Slots : pc'[q] \in WorkSteps => pc[q] \in WorkSteps
          BY Zenon, <3>1 DEF StartPass, Goto, IInv, TypeOK, SlotTypes, WorkSteps,
              RunSteps, UndoSteps
      <4> QED BY Zenon, <3>1, <4>1, LeaseRecovered DEF StartPass, local
    <3>2. CASE ScanMarkers(s)
        BY Zenon, <3>2, LeaseFrame DEF ScanMarkers, IInv, SameJobs, WorkSteps,
            durable, RunSteps, UndoSteps
    <3>3. CASE PickMarker(s)
      <4>1. /\ pc[s] = "pick" /\ state' = state /\ holder' = holder /\ expired' = expired
            /\ \/ pc' = pc /\ at' = at
               \/ \E j : pc' = [pc EXCEPT ![s] = "rstop"] /\ at' = [at EXCEPT ![s] = j]
          BY Zenon, <3>3 DEF PickMarker, Goto, SameJobs, durable
      <4>2. /\ pc'[s] \in {"pick", "rstop"}
            /\ \A q \in Slots : q # s => pc'[q] = pc[q] /\ at'[q] = at[q]
          BY Zenon, <4>1 DEF IInv, TypeOK, SlotTypes
      <4>3. pc'[s] \notin WorkSteps
          BY Zenon, <4>2 DEF WorkSteps, RunSteps, UndoSteps
      <4> QED BY Zenon, <4>1, <4>2, <4>3, LeaseAway DEF IInv
    <3>4. CASE EndPass(s)
        BY Zenon, <3>4, LeaseFrame DEF EndPass, IInv, SameJobs, WorkSteps, durable,
            RunSteps, UndoSteps
    <3>5. CASE VisitFails(s)
        BY Zenon, <3>5, LeaveSlots, LeaseAway DEF VisitFails, IInv, SameJobs, durable
    <3> QED BY Zenon, <2>1, <3>1, <3>2, <3>3, <3>4, <3>5
  <2>2. CASE StopRecorded(s) \/ ResolveRecorded(s) \/ CloseRecorded(s)
    <3>1. CASE StopRecorded(s)
        BY Zenon, <3>1, LeaseFrame DEF StopRecorded, IInv, durable, local,
            WorkSteps, RunSteps, UndoSteps
    <3>2. CASE ResolveRecorded(s)
        BY Zenon, <3>2, LeaseFrame DEF ResolveRecorded, IInv, SameLocal, WorkSteps,
            RunSteps, UndoSteps
    <3>3. CASE CloseRecorded(s)
        BY Zenon, <3>3, LeaseFrame DEF CloseRecorded, IInv, SameJobs, local,
            WorkSteps, durable, RunSteps, UndoSteps
    <3> QED BY Zenon, <2>2, <3>1, <3>2, <3>3
  <2>3. CASE EndRecorded(s) \/ AckRecorded(s) \/ CancelRecorded(s)
    <3>1. CASE EndRecorded(s)
      <4>1. \A j \in Jobs : state'[j] = "queued" => state[j] = "queued"
          BY Zenon, <3>1 DEF EndRecorded, IInv, TypeOK, JobTypes
      <4>2. /\ pc'[s] \notin WorkSteps
            /\ \A q \in Slots : q # s => pc'[q] = pc[q] /\ at'[q] = at[q]
        <5>1. CASE Leave(s)
            BY Zenon, <5>1, LeaveSlots DEF IInv
        <5>2. CASE Goto(s, "rack") /\ at' = at
            BY Zenon, <5>2 DEF Goto, IInv, TypeOK, SlotTypes, WorkSteps, RunSteps, UndoSteps
        <5> QED BY Zenon, <3>1, <5>1, <5>2 DEF EndRecorded, local
      <4> QED BY Zenon, <3>1, <4>1, <4>2, LeaseAway DEF EndRecorded, IInv
    <3>2. CASE AckRecorded(s)
      <4>1. CASE Leave(s)
          BY Zenon, <3>2, <4>1, LeaveSlots, LeaseAway DEF AckRecorded, IInv, SameJobs,
              durable
      <4>2. CASE Goto(s, "rcancel") /\ UNCHANGED local
          BY Zenon, <3>2, <4>2, LeaseFrame DEF AckRecorded, IInv, SameJobs, durable,
              local, WorkSteps, RunSteps, UndoSteps
      <4> QED BY Zenon, <3>2, <4>1, <4>2 DEF AckRecorded
    <3>3. CASE CancelRecorded(s)
      <4>1. \A j \in Jobs : state'[j] = "queued" => state[j] = "queued"
          BY Zenon, <3>3 DEF CancelRecorded, IInv, TypeOK, JobTypes
      <4> QED BY Zenon, <3>3, <4>1, LeaveSlots, LeaseAway DEF CancelRecorded, IInv
    <3> QED BY Zenon, <2>3, <3>1, <3>2, <3>3
  <2> QED
      BY Zenon, <1>5, <2>1, <2>2, <2>3
      DEF Pass
<1>6. CASE Crash
    BY Zenon, <1>6 DEF Crash, IInv, TypeOK, JobTypes, LeaseInv, WorkSteps, RunSteps,
        UndoSteps
<1> QED BY Zenon, <1>1, <1>2, <1>3, <1>4, <1>5, <1>6 DEF Next

-----------------------------------------------------------------------------
(* A visit begins at a job nobody holds. *)
LEMMA PickMarkerStep ==
    ASSUME IInv, NEW s \in Slots, PickMarker(s)
    PROVE  VisitInv'
<1> USE DEF WorkSteps, RunSteps, UndoSteps, PassSteps
<1>1. /\ pc[s] = "pick" /\ pc'[s] \in {"pick", "rstop"}
      /\ \A q \in Slots : q # s => /\ pc'[q] = pc[q] /\ at'[q] = at[q]
                                   /\ mine'[q] = mine[q] /\ seen'[q] = seen[q]
      /\ UNCHANGED <<state, holder, cancel, taskJob, markers, proc>>
    BY DEF PickMarker, Goto, SameJobs, SameTasks, durable, taskVars, IInv, TypeOK, SlotTypes
<1>2. Alive' = Alive
    BY Zenon, <1>1 DEF Alive
<1>3. \A q \in Slots : q # s => pc[q] \notin PassSteps
    BY Zenon, <1>1 DEF IInv, NameInv
<1>4. ASSUME pc'[s] = "rstop"
      PROVE  /\ holder[at'[s]] \notin Slots
             /\ mine'[s] \in markers \/ state[at'[s]] \in Terminal
             /\ seen'[s] = "cancel" => at'[s] \in cancel
  <2>1. PICK t \in batch :
            /\ ~(holder[taskJob[t]] # Nobody /\ taskJob[t] \notin expired)
            /\ at' = [at EXCEPT ![s] = taskJob[t]]
            /\ mine' = [mine EXCEPT ![s] = t]
            /\ seen' = [seen EXCEPT ![s] =
                          IF state[taskJob[t]] = "canceled" THEN "canceled"
                          ELSE IF taskJob[t] \in cancel THEN "cancel" ELSE "plain"]
      BY Zenon, <1>1, <1>4 DEF PickMarker
  <2>2. at'[s] = taskJob[t] /\ mine'[s] = t /\ (seen'[s] = "cancel" => taskJob[t] \in cancel)
      BY Zenon, <2>1 DEF IInv, TypeOK, SlotTypes
  <2>3. holder[taskJob[t]] \notin Slots
      BY Zenon, <2>1 DEF IInv, LeaseInv
  <2>4. t \in markers \/ state[taskJob[t]] \in Terminal
      BY Zenon, <2>3 DEF IInv, StateInv
  <2> QED BY Zenon, <2>2, <2>3, <2>4
<1> QED BY Zenon, <1>1, <1>2, <1>3, <1>4 DEF VisitInv, Visit
=============================================================================
