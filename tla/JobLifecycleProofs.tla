------------------------- MODULE JobLifecycleProofs -------------------------
(***************************************************************************)
(* The safety of JobLifecycle: from the inductive invariant it follows     *)
(* that no job is executed twice at once, that a requeued or ended job has *)
(* no process, that a proven cleanup stays true, that no held job is       *)
(* forgotten and that observed scheduler work is not submitted again, for  *)
(* any number of jobs, slots, tasks, attempts, crashes and errors.         *)
(***************************************************************************)
EXTENDS JobLifecycleProcesses

USE Holders

-----------------------------------------------------------------------------
(* Where an attempt may be while the cancellation of its job is acknowledged. *)
Calm == {"leased"} \cup UndoSteps \cup Ending

(* A slot outside a pass that stays outside, starts nothing, takes no lease *)
(* and reopens no job keeps what is said of the visit.                     *)
LEMMA VisitAway ==
    ASSUME TypeOK, NameInv, VisitInv, NEW s \in Slots, NEW step, Goto(s, step),
           pc[s] \notin PassSteps, step \notin PassSteps,
           step \in WorkSteps =>
               pc[s] \in WorkSteps /\ at'[s] = at[s] /\ (step \in Calm \/ pc[s] \notin Calm),
           \A q \in Slots : q # s => at'[q] = at[q] /\ mine'[q] = mine[q] /\ seen'[q] = seen[q],
           \A j \in Jobs : state[j] \in Terminal => state'[j] \in Terminal,
           \A j \in Jobs : holder[j] \notin Slots => holder'[j] \notin Slots,
           cancel' = cancel, taskJob' = taskJob,
           markers \subseteq markers', Alive' \subseteq Alive
    PROVE  VisitInv'
<1>1. /\ pc'[s] = step
      /\ \A q \in Slots : q # s => pc'[q] = pc[q]
  BY Zenon DEF TypeOK, SlotTypes, Goto
<1>2. \A q \in Slots : pc'[q] \in PassSteps =>
          /\ pc'[q] = pc[q] /\ at'[q] = at[q] /\ mine'[q] = mine[q] /\ seen'[q] = seen[q]
          /\ at[q] \in Jobs
  BY Zenon, <1>1 DEF NameInv
<1>3. Visit \subseteq PassSteps /\ "rcancel" \in PassSteps
  BY Zenon DEF Visit, PassSteps
<1>4. ASSUME NEW q \in Slots, pc'[q] \in Visit
      PROVE  /\ holder'[at'[q]] \notin Slots
             /\ mine'[q] \in markers' \/ state'[at'[q]] \in Terminal
  <2>1. pc[q] \in Visit /\ at[q] \in Jobs /\ at'[q] = at[q] /\ mine'[q] = mine[q]
    BY Zenon, <1>2, <1>3, <1>4
  <2>2. holder[at[q]] \notin Slots /\ (mine[q] \in markers \/ state[at[q]] \in Terminal)
    BY Zenon, <2>1 DEF VisitInv
  <2> QED BY Zenon, <2>1, <2>2
<1>5. ASSUME NEW q \in Slots, pc'[q] \in Visit \ {"rstop"}
      PROVE  mine'[q] \notin Alive'
  <2>1. pc[q] \in Visit \ {"rstop"} /\ mine'[q] = mine[q]
    BY Zenon, <1>2, <1>3, <1>5
  <2> QED BY Zenon, <2>1 DEF VisitInv
<1>6. ASSUME NEW q \in Slots, pc'[q] \in PassSteps, seen'[q] = "cancel"
      PROVE  at'[q] \in cancel'
  BY Zenon, <1>2, <1>6 DEF VisitInv
<1>7. ASSUME NEW q \in Slots, pc'[q] = "rcancel"
      PROVE  /\ at'[q] \in cancel'
             /\ \A t \in Alive' : taskJob'[t] # at'[q]
             /\ \A r \in Slots : pc'[r] \in WorkSteps /\ at'[r] = at'[q] => pc'[r] \in Calm
  <2>1. pc[q] = "rcancel" /\ at'[q] = at[q]
    BY Zenon, <1>2, <1>3, <1>7
  <2>2. /\ at[q] \in cancel /\ \A t \in Alive : taskJob[t] # at[q]
        /\ \A r \in Slots : pc[r] \in WorkSteps /\ at[r] = at[q] => pc[r] \in Calm
    BY Zenon, <2>1 DEF VisitInv, Calm
  <2>3. ASSUME NEW r \in Slots, pc'[r] \in WorkSteps, at'[r] = at'[q]
        PROVE  pc'[r] \in Calm
    <3>1. CASE r = s
      <4>1. pc'[s] = step /\ pc'[s] \in WorkSteps /\ at'[s] = at'[q]
        BY Zenon, <1>1, <2>3, <3>1
      <4>2. pc[s] \in WorkSteps /\ at[s] = at[q]
        BY Zenon, <2>1, <4>1
      <4>3. pc[s] \in Calm
        BY Zenon, <2>2, <4>2
      <4> QED BY Zenon, <3>1, <4>1, <4>3
    <3>2. CASE r # s
      BY Zenon, <1>1, <2>1, <2>2, <2>3, <3>2
    <3> QED BY Zenon, <3>1, <3>2
  <2> QED BY Zenon, <2>1, <2>2, <2>3
<1> QED BY Zenon, <1>4, <1>5, <1>6, <1>7 DEF VisitInv, Calm

(* In particular one whose step leaves the jobs alone.                     *)
LEMMA VisitFrame ==
    ASSUME TypeOK, NameInv, VisitInv, NEW s \in Slots, NEW step, Goto(s, step),
           pc[s] \notin PassSteps, step \notin PassSteps,
           step \in WorkSteps => pc[s] \in WorkSteps /\ (step \in Calm \/ pc[s] \notin Calm),
           at' = at, mine' = mine, seen' = seen, state' = state, holder' = holder,
           cancel' = cancel, taskJob' = taskJob,
           markers \subseteq markers', Alive' \subseteq Alive
    PROVE  VisitInv'
BY Zenon, VisitAway

(* Stopping a process starts none.                                         *)
LEMMA StopAlive ==
    ASSUME TypeOK, NEW t, Stop(t)
    PROVE  Alive' \subseteq Alive
<1>1. \A u \in Tasks : proc'[u] = "dead" \/ proc'[u] = proc[u]
  BY Zenon DEF TypeOK, TaskTypes, Stop
<1> QED BY Zenon, <1>1 DEF Alive

(* Visits: what every step does to the job the reconciler is at.           *)
LEMMA VisitStep ==
    ASSUME Steady, IInv, Next
    PROVE  VisitInv'
<1>1. ASSUME NEW s \in Slots, PickMarker(s)
      PROVE  VisitInv'
    BY Zenon, <1>1, PickMarkerStep
<1>2. CASE RecoverStaleJobs
    BY Zenon, <1>2 DEF RecoverStaleJobs, IInv, NameInv, VisitInv, RecoveredHolder,
        RecoveredState, local, taskVars, Terminal, Alive, Visit, Held
<1>3. ASSUME NEW j \in Jobs, RecoverStaleJob(j) \/ Expire(j) \/ Cancel(j)
      PROVE  VisitInv'
  <2>1. CASE RecoverStaleJob(j)
      BY SMTT(30), <2>1 DEF RecoverStaleJob, IInv, VisitInv, RecoveredState, local,
          taskVars, Terminal, Alive, Held
  <2>2. CASE Expire(j)
      BY Zenon, <2>2 DEF Expire, IInv, VisitInv, local, taskVars, Alive
  <2>3. CASE Cancel(j)
      BY SMTT(30), <2>3 DEF Cancel, IInv, VisitInv, local, taskVars, Alive
  <2> QED BY Zenon, <1>3, <2>1, <2>2, <2>3
<1>4. ASSUME NEW t \in Tasks, ProcessExits(t)
      PROVE  VisitInv'
    BY SMTT(30), <1>4 DEF ProcessExits, IInv, VisitInv, Stop, durable, local, taskVars,
        Alive
<1>5. ASSUME NEW s \in Slots, Pass(s)
      PROVE  VisitInv'
  <2>1. CASE StartPass(s) \/ ScanMarkers(s) \/ EndPass(s) \/ VisitFails(s)
    <3>1. CASE StartPass(s)
        BY SMTT(30), <3>1 DEF StartPass, IInv, NameInv, VisitInv, Goto, PassSteps, Visit
    <3>2. CASE ScanMarkers(s)
        BY Zenon, <3>2, VisitFrame DEF ScanMarkers, SameJobs, SameTasks, durable,
            taskVars, PassSteps, WorkSteps, RunSteps, UndoSteps, Ending, Calm, Alive, IInv
    <3>3. CASE EndPass(s)
        BY Zenon, <3>3, VisitFrame DEF EndPass, SameJobs, SameTasks, durable,
            taskVars, PassSteps, WorkSteps, RunSteps, UndoSteps, Ending, Calm, Alive, IInv
    <3>4. CASE VisitFails(s)
        BY SMTT(30), <3>4 DEF VisitFails, IInv, TypeOK, SlotTypes, VisitInv, Leave,
            PassSteps, SameJobs, SameTasks, Alive, Visit, WorkSteps, Goto, durable,
            taskVars, RunSteps
    <3> QED BY Zenon, <2>1, <3>1, <3>2, <3>3, <3>4
  <2>2. CASE StopRecorded(s) \/ ResolveRecorded(s) \/ CloseRecorded(s)
    <3>1. CASE StopRecorded(s)
        BY SMTT(30), <3>1 DEF StopRecorded, IInv, TypeOK, ProcessInv, TaskTypes,
            VisitInv, Goto, Stop, durable, local, taskVars, Alive, PassSteps, Visit,
            WorkSteps, RunSteps
    <3>2. CASE ResolveRecorded(s)
        BY SMTT(30), <3>2 DEF ResolveRecorded, IInv, VisitInv, Goto, SameLocal, Alive,
            PassSteps, Visit, WorkSteps, RunSteps
    <3>3. CASE CloseRecorded(s)
        BY SMTT(30), <3>3 DEF CloseRecorded, IInv, VisitInv, Goto, SameJobs, local,
            Alive, PassSteps, Visit, WorkSteps, durable, RunSteps
    <3> QED BY Zenon, <2>2, <3>1, <3>2, <3>3
  <2>3. CASE EndRecorded(s) \/ AckRecorded(s) \/ CancelRecorded(s)
    <3>1. CASE EndRecorded(s)
        BY SMTT(30), <3>1 DEF EndRecorded, IInv, TypeOK, NameInv, SlotTypes, VisitInv,
            Goto, Leave, SameTasks, local, PassSteps, Alive, Visit, taskVars
    <3>2. CASE AckRecorded(s)
        BY SMTT(30), <3>2 DEF AckRecorded, IInv, TypeOK, LeaseInv, NameInv, MarkerInv,
            ProcessInv, SlotTypes, VisitInv, Goto, Leave, SameJobs, local, WorkSteps,
            PassSteps, Terminal, Alive, Visit, durable, RunSteps
    <3>3. CASE CancelRecorded(s)
        BY SMTT(30), <3>3 DEF CancelRecorded, IInv, TypeOK, SlotTypes, VisitInv, Leave,
            SameTasks, Terminal, Alive, PassSteps, Visit, WorkSteps, Goto, taskVars,
            RunSteps
    <3> QED BY Zenon, <2>3, <3>1, <3>2, <3>3
  <2> QED
      BY Zenon, <1>5, <1>1, <2>1, <2>2, <2>3
      DEF Pass
<1>6. ASSUME NEW s \in Slots, Attempt(s)
      PROVE  VisitInv'
  <2>1. CASE \/ Acquire(s) \/ CheckCancel(s) \/ Undo(s)
             \/ UndoTask(s) \/ UndoAck(s) \/ Acknowledge(s)
    <3>1. CASE Acquire(s)
        BY SMTT(30), <3>1 DEF Acquire, IInv, NameInv, VisitInv, Eligible,
            RecoveredHolder, RecoveredState, taskVars, PassSteps, Terminal, Alive,
            Visit, WorkSteps, Marked, Held, RunSteps, TasksOf
    <3>2. CASE CheckCancel(s)
        BY SMTT(30), <3>2 DEF CheckCancel, IInv, VisitInv, Goto, durable, local,
            taskVars, Alive, PassSteps, Visit, WorkSteps, RunSteps
    <3>3. CASE Undo(s)
        BY SMTT(30), <3>3 DEF Undo, IInv, TypeOK, TaskTypes, SlotTypes, VisitInv, Goto,
            Raise, SameJobs, SameTasks, Stop, Alive, Ending, PassSteps, Visit,
            WorkSteps, durable, taskVars, RunSteps
    <3>4. CASE UndoTask(s)
        BY Zenon, <3>4, VisitFrame DEF UndoTask, SameJobs, durable, local, PassSteps,
            WorkSteps, RunSteps, UndoSteps, Ending, Calm, Alive, IInv
    <3>5. CASE UndoAck(s)
        BY SMTT(30), <3>5 DEF UndoAck, IInv, LeaseInv, NameInv, VisitInv, Goto,
            SameJobs, WorkSteps, Named, PassSteps, Alive, UndoSteps, Visit, durable
    <3>6. CASE Acknowledge(s)
      <4>1. \A j \in Jobs : state[j] \in Terminal => state'[j] \in Terminal
          BY Zenon, <3>6 DEF Acknowledge, IInv, TypeOK, JobTypes, Terminal
      <4> QED BY Zenon, <3>6, <4>1, VisitAway DEF Acknowledge, Raise, SameLocal, SameTasks,
              taskVars, PassSteps, WorkSteps, RunSteps, UndoSteps, Ending, Calm, Alive, IInv
    <3> QED BY Zenon, <2>1, <3>1, <3>2, <3>3, <3>4, <3>5, <3>6
  <2>2. CASE \/ Begin(s) \/ OpenTask(s) \/ Register(s)
             \/ Spawn(s) \/ ReleaseGate(s) \/ StepFails(s)
    <3>1. CASE Begin(s)
        BY SMTT(30), <3>1 DEF Begin, IInv, TypeOK, NameInv, JobTypes, SlotTypes,
            VisitInv, CanWrite, Goto, Raise, SameLocal, SameTasks, PassSteps, Alive,
            Ending, UndoSteps, Visit, WorkSteps, taskVars
    <3>2. CASE OpenTask(s)
        BY SMTT(30), <3>2 DEF OpenTask, IInv, VisitInv, Goto, SameJobs, Alive, Ending,
            PassSteps, UndoSteps, Visit, WorkSteps, durable, RunSteps
    <3>3. CASE Register(s)
        BY Zenon, <3>3, VisitFrame DEF Register, SameJobs, durable, local, PassSteps,
            WorkSteps, RunSteps, UndoSteps, Ending, Calm, Alive, IInv
    <3>4. CASE Spawn(s)
        BY SMTT(30), <3>4 DEF Spawn, IInv, LeaseInv, NameInv, VisitInv, Goto, SameJobs,
            local, WorkSteps, Named, PassSteps, Alive, Ending, UndoSteps, Visit,
            durable, RunSteps, Launched
    <3>5. CASE ReleaseGate(s)
      <4>1. Alive' \subseteq Alive
          BY Zenon, <3>5 DEF ReleaseGate, Alive, IInv, TypeOK, TaskTypes
      <4> QED BY Zenon, <3>5, <4>1, VisitFrame DEF ReleaseGate, Raise, SameJobs,
              SameTasks, SameLocal, durable, taskVars, local, PassSteps, WorkSteps,
              RunSteps, UndoSteps, Ending, Calm, IInv
    <3>6. CASE StepFails(s)
      <4>1. Alive' \subseteq Alive
          BY Zenon, <3>6, StopAlive DEF StepFails, Alive, IInv
      <4> QED BY Zenon, <3>6, <4>1, VisitFrame DEF StepFails, Raise, SameJobs,
              SameTasks, SameLocal, durable, taskVars, local, PassSteps, WorkSteps,
              RunSteps, UndoSteps, Ending, Calm, IInv
    <3> QED BY Zenon, <2>2, <3>1, <3>2, <3>3, <3>4, <3>5, <3>6
  <2>3. CASE \/ PollExit(s) \/ PollCancel(s) \/ Heartbeat(s)
             \/ ObserveScheduler(s) \/ PollFails(s)
    <3>1. CASE PollExit(s)
        BY Zenon, <3>1, VisitFrame DEF PollExit, durable, local, taskVars, PassSteps,
            WorkSteps, RunSteps, UndoSteps, Ending, Calm, Alive, IInv
    <3>2. CASE PollCancel(s)
      <4>1. Alive' \subseteq Alive
          BY Zenon, <3>2, StopAlive DEF PollCancel, Alive, IInv
      <4> QED BY Zenon, <3>2, <4>1, VisitFrame DEF PollCancel, SameJobs, SameTasks,
              SameLocal, durable, taskVars, local, PassSteps, WorkSteps, RunSteps,
              UndoSteps, Ending, Calm, IInv
    <3>3. CASE Heartbeat(s)
        BY Zenon, <3>3, NoLateHeartbeat
    <3>4. CASE ObserveScheduler(s)
        BY Zenon, <3>4 DEF ObserveScheduler, IInv, VisitInv, local, taskVars, Alive
    <3>5. CASE PollFails(s)
      <4>1. Alive' \subseteq Alive
          BY Zenon, <3>5, StopAlive DEF PollFails, Alive, IInv
      <4> QED BY Zenon, <3>5, <4>1, VisitFrame DEF PollFails, Raise, SameJobs,
              SameTasks, SameLocal, durable, taskVars, local, PassSteps, WorkSteps,
              RunSteps, UndoSteps, Ending, Calm, IInv
    <3> QED BY Zenon, <2>3, <3>1, <3>2, <3>3, <3>4, <3>5
  <2>4. CASE Resolve(s) \/ ResolveFails(s) \/ CloseTask(s) \/ CloseJob(s)
    <3>1. CASE Resolve(s)
        BY Zenon, <3>1, VisitFrame DEF Resolve, SameJobs, SameLocal, durable,
            PassSteps, WorkSteps, RunSteps, UndoSteps, Ending, Calm, Alive, IInv
    <3>2. CASE ResolveFails(s)
        BY Zenon, <3>2, VisitFrame DEF ResolveFails, Raise, SameJobs, SameLocal,
            SameTasks, durable, taskVars, PassSteps, WorkSteps, RunSteps, UndoSteps,
            Ending, Calm, Alive, IInv
    <3>3. CASE CloseTask(s)
        BY Zenon, <3>3, VisitFrame DEF CloseTask, SameJobs, durable, local, PassSteps,
            WorkSteps, RunSteps, UndoSteps, Ending, Calm, Alive, IInv
    <3>4. CASE CloseJob(s)
      <4>1. note[s] \in Terminal
          BY Zenon, <3>4 DEF CloseJob, IInv, NameInv
      <4>2. \A j \in Jobs : state[j] \in Terminal => state'[j] \in Terminal
          BY Zenon, <3>4, <4>1 DEF CloseJob, IInv, TypeOK, JobTypes
      <4> QED BY Zenon, <3>4, <4>2, VisitAway DEF CloseJob, Raise, SameLocal, SameTasks,
              taskVars, PassSteps, WorkSteps, RunSteps, UndoSteps, Ending, Calm, Alive, IInv
    <3> QED BY Zenon, <2>4, <3>1, <3>2, <3>3, <3>4
  <2>5. CASE AckMarker(s) \/ FailTasks(s) \/ FailJob(s) \/ ReleaseLease(s)
    <3>1. CASE AckMarker(s)
        BY SMTT(30), <3>1 DEF AckMarker, IInv, TypeOK, LeaseInv, NameInv, SlotTypes,
            VisitInv, Goto, Raise, SameJobs, SameLocal, Named, PassSteps, Steps, Alive,
            Ending, Visit, durable
    <3>2. CASE FailTasks(s)
        BY Zenon, <3>2, VisitFrame DEF FailTasks, Escape, SameJobs, SameLocal,
            durable, PassSteps, WorkSteps, RunSteps, UndoSteps, Ending, Calm, Alive, IInv
    <3>3. CASE FailJob(s)
      <4>1. \A j \in Jobs : state[j] \in Terminal => state'[j] \in Terminal
          BY Zenon, <3>3 DEF FailJob, IInv, TypeOK, JobTypes, Terminal
      <4> QED BY Zenon, <3>3, <4>1, VisitAway DEF FailJob, Escape, SameLocal, SameTasks,
              taskVars, PassSteps, WorkSteps, RunSteps, UndoSteps, Ending, Calm, Alive, IInv
    <3>4. CASE ReleaseLease(s)
      <4>1. \A j \in Jobs : holder[j] \notin Slots => holder'[j] \notin Slots
          BY Zenon, <3>4 DEF ReleaseLease, IInv, TypeOK, JobTypes
      <4>2. \A q \in Slots : q # s => at'[q] = at[q] /\ mine'[q] = mine[q] /\ seen'[q] = seen[q]
          BY Zenon, <3>4 DEF ReleaseLease, IInv, TypeOK, SlotTypes
      <4>3. /\ pc[s] = "release" /\ Goto(s, "idle") /\ state' = state /\ cancel' = cancel
            /\ taskJob' = taskJob /\ markers' = markers /\ Alive' = Alive
          BY Zenon, <3>4 DEF ReleaseLease, taskVars, Alive
      <4> QED BY Zenon, <4>1, <4>2, <4>3, VisitAway DEF PassSteps, WorkSteps, RunSteps,
              UndoSteps, IInv
    <3> QED BY Zenon, <2>5, <3>1, <3>2, <3>3, <3>4
  <2> QED
      BY Zenon, <1>6, <2>1, <2>2, <2>3, <2>4, <2>5
      DEF Attempt
<1>7. CASE Crash
    BY Zenon, <1>7 DEF Crash, VisitInv, PassSteps, Visit
<1> QED BY Zenon, <1>2, <1>3, <1>4, <1>5, <1>6, <1>7 DEF Next

-----------------------------------------------------------------------------
(* The invariant is inductive. *)
LEMMA LifecycleInvariant ==
    ASSUME Steady
    PROVE  Spec => []IInv
<1>1. Init => IInv
  <2> SUFFICES ASSUME Init PROVE IInv
      BY Zenon
  <2> USE DEF Init, Alive
  <2>1. TypeOK
      BY LifecycleAssumption DEF TypeOK, JobTypes, TaskTypes, SlotTypes, JobStates, Steps, Notes
  <2>2. LeaseInv /\ NameInv
      BY Zenon DEF LeaseInv, NameInv, WorkSteps, RunSteps, UndoSteps, PassSteps, Named, Launched
  <2>3. MarkerInv /\ StateInv
      BY Zenon DEF MarkerInv, StateInv, Fresh, UndoSteps, Launched
  <2>4. ProcessInv /\ VisitInv
      BY Zenon DEF ProcessInv, VisitInv, PassSteps, Visit
  <2> QED BY Zenon, <2>1, <2>2, <2>3, <2>4 DEF IInv
<1>2. IInv /\ TypeOK' /\ [Next]_vars => IInv'
  <2> SUFFICES ASSUME IInv, TypeOK', [Next]_vars PROVE IInv'
      BY Zenon
  <2>1. CASE Next
      BY Zenon, <2>1, LeaseStep, NameStep, MarkerStep, StateStep, ProcessStep, VisitStep DEF IInv
  <2>2. CASE UNCHANGED vars
    <3> USE <2>2 DEF vars, durable, taskVars, local
    <3>1. LeaseInv' /\ NameInv'
        BY Zenon DEF IInv, LeaseInv, NameInv
    <3>2. MarkerInv' /\ StateInv'
        BY DEF IInv, MarkerInv, StateInv, Marked, TasksOf
    <3>3. ProcessInv' /\ VisitInv'
        BY DEF IInv, ProcessInv, VisitInv, Alive
    <3> QED BY Zenon, <3>1, <3>2, <3>3 DEF IInv
  <2> QED BY Zenon, <2>1, <2>2
<1> QED BY <1>1, <1>2, LifecycleTypeCorrect, PTL DEF Spec

(* No job is executed twice at once (spawn_owned_process for two tasks of   *)
(* one job), however often its leases expire, its daemons crash and its     *)
(* attempts are repeated: every process has a marker, a job has one marker  *)
(* at most, and a marked job is neither requeued nor leased.                *)
THEOREM LifecycleOneExecution ==
    ASSUME Steady
    PROVE  Spec => []OneExecution
<1>1. IInv => OneExecution
    BY DEF IInv, ProcessInv, MarkerInv, OneExecution
<1> QED BY <1>1, LifecycleInvariant, PTL

(* A requeued or ended job has no process: recovery, cancellation, failure  *)
(* and restart cleanup all write the state after the process tree stopped.  *)
THEOREM LifecycleIdleJobIsStopped ==
    ASSUME Steady
    PROVE  Spec => []IdleJobIsStopped
<1>1. IInv => IdleJobIsStopped
    BY Zenon DEF IInv, ProcessInv, IdleJobIsStopped
<1> QED BY <1>1, LifecycleInvariant, PTL

(* What restart cleanup reported as proven clean (execution.cleaned) never  *)
(* runs again.                                                              *)
THEOREM LifecycleProvenStaysStopped ==
    ASSUME Steady
    PROVE  Spec => []ProvenStaysStopped
<1>1. IInv => ProvenStaysStopped
    BY Zenon DEF IInv, ProcessInv, MarkerInv, ProvenStaysStopped
<1> QED BY <1>1, LifecycleInvariant, PTL

(* Both together: one process at most, and none for an idle job. *)
THEOREM LifecycleExclusiveExecution ==
    ASSUME Steady
    PROVE  Spec => []ExclusiveExecution
BY LifecycleOneExecution, LifecycleIdleJobIsStopped, PTL DEF ExclusiveExecution
-----------------------------------------------------------------------------
(* No task goes from never launched to held at the gate. *)
NoLaunch == \A u \in Tasks : proc'[u] = "gated" => proc[u] = "gated"

(* Only Spawn starts a process. *)
LEMMA SpawnOnly ==
    ASSUME TypeOK, Next
    PROVE  NoLaunch \/ \E q \in Slots : Spawn(q)
<1>1. CASE RecoverStaleJobs
    BY Zenon, <1>1 DEF RecoverStaleJobs, NoLaunch
<1>2. ASSUME NEW j \in Jobs, RecoverStaleJob(j) \/ Expire(j) \/ Cancel(j)
      PROVE  NoLaunch
  <2>1. CASE RecoverStaleJob(j)
      BY Zenon, <2>1 DEF RecoverStaleJob, NoLaunch
  <2>2. CASE Expire(j)
      BY Zenon, <2>2 DEF Expire, NoLaunch
  <2>3. CASE Cancel(j)
      BY Zenon, <2>3 DEF Cancel, NoLaunch
  <2> QED BY Zenon, <1>2, <2>1, <2>2, <2>3
<1>3. ASSUME NEW t \in Tasks, ProcessExits(t)
      PROVE  NoLaunch
    BY Zenon, <1>3 DEF ProcessExits, Stop, TypeOK, TaskTypes, NoLaunch
<1>4. ASSUME NEW s \in Slots, Attempt(s)
      PROVE  NoLaunch \/ Spawn(s)
  <2>1. CASE Acquire(s)
      BY Zenon, <2>1 DEF Acquire, NoLaunch
  <2>2. CASE CheckCancel(s)
      BY Zenon, <2>2 DEF CheckCancel, NoLaunch
  <2>3. CASE Undo(s)
      BY Zenon, <2>3 DEF Undo, Stop, TypeOK, TaskTypes, NoLaunch
  <2>4. CASE UndoTask(s)
      BY Zenon, <2>4 DEF UndoTask, NoLaunch
  <2>5. CASE UndoAck(s)
      BY Zenon, <2>5 DEF UndoAck, NoLaunch
  <2>6. CASE Acknowledge(s)
      BY Zenon, <2>6 DEF Acknowledge, NoLaunch
  <2>7. CASE Begin(s)
      BY Zenon, <2>7 DEF Begin, NoLaunch
  <2>8. CASE OpenTask(s)
      BY Zenon, <2>8 DEF OpenTask, NoLaunch
  <2>9. CASE Register(s)
      BY Zenon, <2>9 DEF Register, NoLaunch
  <2>10. CASE ReleaseGate(s)
      BY Zenon, <2>10 DEF ReleaseGate, TypeOK, TaskTypes, NoLaunch
  <2>11. CASE StepFails(s)
      BY Zenon, <2>11 DEF StepFails, Stop, TypeOK, TaskTypes, NoLaunch
  <2>12. CASE PollExit(s)
      BY Zenon, <2>12 DEF PollExit, NoLaunch
  <2>13. CASE PollCancel(s)
      BY Zenon, <2>13 DEF PollCancel, Stop, TypeOK, TaskTypes, NoLaunch
  <2>14. CASE Heartbeat(s)
      BY Zenon, <2>14 DEF Heartbeat, Stop, TypeOK, TaskTypes, NoLaunch
  <2>15. CASE ObserveScheduler(s)
      BY Zenon, <2>15 DEF ObserveScheduler, NoLaunch
  <2>16. CASE PollFails(s)
      BY Zenon, <2>16 DEF PollFails, Stop, TypeOK, TaskTypes, NoLaunch
  <2>17. CASE Resolve(s)
      BY Zenon, <2>17 DEF Resolve, NoLaunch
  <2>18. CASE ResolveFails(s)
      BY Zenon, <2>18 DEF ResolveFails, NoLaunch
  <2>19. CASE CloseTask(s)
      BY Zenon, <2>19 DEF CloseTask, NoLaunch
  <2>20. CASE CloseJob(s)
      BY Zenon, <2>20 DEF CloseJob, NoLaunch
  <2>21. CASE AckMarker(s)
      BY Zenon, <2>21 DEF AckMarker, NoLaunch
  <2>22. CASE FailTasks(s)
      BY Zenon, <2>22 DEF FailTasks, NoLaunch
  <2>23. CASE FailJob(s)
      BY Zenon, <2>23 DEF FailJob, NoLaunch
  <2>24. CASE ReleaseLease(s)
      BY Zenon, <2>24 DEF ReleaseLease, NoLaunch
  <2> QED
      BY Zenon, <1>4, <2>1, <2>2, <2>3, <2>4, <2>5, <2>6, <2>7, <2>8, <2>9, <2>10, <2>11,
         <2>12, <2>13, <2>14, <2>15, <2>16, <2>17, <2>18, <2>19, <2>20, <2>21, <2>22,
         <2>23, <2>24
      DEF Attempt
<1>5. ASSUME NEW s \in Slots, Pass(s)
      PROVE  NoLaunch
  <2>1. CASE StartPass(s)
      BY Zenon, <2>1 DEF StartPass, NoLaunch
  <2>2. CASE ScanMarkers(s)
      BY Zenon, <2>2 DEF ScanMarkers, NoLaunch
  <2>3. CASE PickMarker(s)
      BY Zenon, <2>3 DEF PickMarker, NoLaunch
  <2>4. CASE EndPass(s)
      BY Zenon, <2>4 DEF EndPass, NoLaunch
  <2>5. CASE VisitFails(s)
      BY Zenon, <2>5 DEF VisitFails, NoLaunch
  <2>6. CASE StopRecorded(s)
      BY Zenon, <2>6 DEF StopRecorded, Stop, TypeOK, TaskTypes, NoLaunch
  <2>7. CASE ResolveRecorded(s)
      BY Zenon, <2>7 DEF ResolveRecorded, NoLaunch
  <2>8. CASE CloseRecorded(s)
      BY Zenon, <2>8 DEF CloseRecorded, NoLaunch
  <2>9. CASE EndRecorded(s)
      BY Zenon, <2>9 DEF EndRecorded, NoLaunch
  <2>10. CASE AckRecorded(s)
      BY Zenon, <2>10 DEF AckRecorded, NoLaunch
  <2>11. CASE CancelRecorded(s)
      BY Zenon, <2>11 DEF CancelRecorded, NoLaunch
  <2> QED
      BY Zenon, <1>5, <2>1, <2>2, <2>3, <2>4, <2>5, <2>6, <2>7, <2>8, <2>9, <2>10, <2>11
      DEF Pass
<1>6. CASE Crash
    BY Zenon, <1>6 DEF Crash, NoLaunch
<1> QED BY Zenon, <1>1, <1>2, <1>3, <1>4, <1>5, <1>6 DEF Next

(* Scheduler work is never submitted twice: once a scheduler identity was   *)
(* observed for a job, stale recovery (_recover_expired_leases_unlocked)    *)
(* keeps its lease and no further process is started for it.                *)
THEOREM LifecycleObservedNeverRelaunched ==
    ASSUME Steady
    PROVE  Spec => ObservedNeverRelaunched
<1>1. Init => ObservedInv
    BY DEF Init, ObservedInv, Marked, Fresh, UndoSteps
<1>2. IInv /\ ObservedInv /\ [Next]_vars => ObservedInv'
  <2>1. ASSUME IInv, ObservedInv, UNCHANGED vars PROVE ObservedInv'
      BY Zenon, <2>1 DEF ObservedInv, Marked, TasksOf, vars, durable, taskVars, local
  <2> QED BY Zenon, <2>1, ObservedStep
<1>3. IInv /\ ObservedInv /\ [Next]_vars =>
        [\A t \in Tasks : proc[t] = "none" /\ proc'[t] = "gated"
            => taskJob[t] \notin observed]_vars
  <2> SUFFICES ASSUME IInv, ObservedInv, Next, NEW t \in Tasks,
                      proc[t] = "none", proc'[t] = "gated"
               PROVE  taskJob[t] \notin observed
      BY Zenon
  <2>1. PICK s \in Slots : Spawn(s)
      BY Zenon, SpawnOnly DEF IInv, NoLaunch
  <2>2. mine[s] = t
      BY Zenon, <2>1 DEF Spawn, IInv, TypeOK, TaskTypes
  <2>3. pc[s] = "spawn" /\ taskJob[t] = at[s]
      BY Zenon, <2>1, <2>2 DEF Spawn, IInv, NameInv, Named, Launched
  <2> QED BY Zenon, <2>3 DEF ObservedInv
<1> QED BY <1>1, <1>2, <1>3, LifecycleInvariant, PTL
        DEF Spec, ObservedNeverRelaunched

-----------------------------------------------------------------------------
(* Without JARVIS jobs: a leased or running job keeps its lease, and a lease *)
(* is released only for a job that has ended.                                *)
HeldInv ==
    /\ \A j \in Jobs : state[j] \in Held => holder[j] # Nobody
    /\ \A t \in Tasks : recovery[t] = "none"
    /\ \A s \in Slots : pc[s] = "release" => state[at[s]] \in Terminal

(* A step that moves one slot elsewhere than to the release of its lease, and *)
(* leaves jobs and recoveries alone, keeps HeldInv.                           *)
LEMMA HeldFrame ==
    ASSUME TypeOK, HeldInv, NEW s \in Slots, NEW step, step # "release",
           pc' = [pc EXCEPT ![s] = step],
           state' = state, holder' = holder, recovery' = recovery, at' = at
    PROVE  HeldInv'
BY Zenon DEF TypeOK, SlotTypes, HeldInv

(* Nor does a recovery that leaves the task it visits. *)
LEMMA LeaveFrame ==
    ASSUME TypeOK, HeldInv, NEW s \in Slots, Leave(s),
           state' = state, holder' = holder, recovery' = recovery
    PROVE  HeldInv'
<1>1. /\ pc \in [Slots -> Steps] /\ at \in [Slots -> Jobs \cup {NoJob}]
      /\ pc' = [pc EXCEPT ![s] = "pick"] /\ at' = [at EXCEPT ![s] = NoJob]
  BY Zenon DEF TypeOK, SlotTypes, Leave, Goto
<1>2. \A q \in Slots : q # s => pc'[q] = pc[q] /\ at'[q] = at[q]
  BY Zenon, <1>1
<1>3. pc'[s] = "pick"
  BY Zenon, <1>1
<1> QED
  BY Zenon, <1>2, <1>3 DEF HeldInv

(* Held jobs: what every step does to their leases. *)
LEMMA HeldStep ==
    ASSUME Steady, Recoverable = {}, IInv, HeldInv, Next
    PROVE  HeldInv'
<1>1. ASSUME NEW s \in Slots, Acquire(s)
      PROVE  HeldInv'
  <2>1. PICK j \in Eligible :
            /\ state' = [RecoveredState EXCEPT ![j] = "leased"]
            /\ holder' = [RecoveredHolder EXCEPT ![j] = s]
            /\ at' = [at EXCEPT ![s] = j]
      BY Zenon, <1>1 DEF Acquire
  <2>2. j \in Jobs /\ RecoveredState[j] = "queued"
      BY Zenon, <2>1 DEF Eligible
  <2>3. /\ state'[j] = "leased" /\ holder'[j] = s
        /\ \A i \in Jobs : i # j => /\ state'[i] = RecoveredState[i]
                                    /\ holder'[i] = RecoveredHolder[i]
      BY Zenon, <2>1, <2>2 DEF RecoveredState, RecoveredHolder
  <2>4. \A i \in Jobs : RecoveredState[i] \in Held => RecoveredHolder[i] # Nobody
      BY Zenon DEF RecoveredState, RecoveredHolder, Reclaimed, Held, HeldInv
  <2>5. \A i \in Jobs : state'[i] \in Held => holder'[i] # Nobody
      BY Zenon, <2>3, <2>4
  <2>6. ASSUME NEW q \in Slots, pc'[q] = "release"
        PROVE  state'[at'[q]] \in Terminal
    <3>1. q # s /\ pc[q] = "release" /\ at'[q] = at[q]
        BY Zenon, <1>1, <2>1, <2>6 DEF Acquire, IInv, TypeOK, SlotTypes
    <3>2. at[q] \in Jobs /\ state[at[q]] \in Terminal
        BY Zenon, <3>1 DEF WorkSteps, IInv, LeaseInv, HeldInv
    <3>3. RecoveredState[at[q]] = state[at[q]]
        BY Zenon, <3>2, RecoveryFrame
    <3>4. at[q] # j
        BY Zenon, <2>2, <3>2, <3>3 DEF Terminal
    <3> QED BY Zenon, <2>3, <3>1, <3>2, <3>3, <3>4
  <2>7. recovery' = recovery
      BY Zenon, <1>1 DEF Acquire, taskVars
  <2> QED BY Zenon, <2>5, <2>6, <2>7 DEF HeldInv
<1>2. ASSUME NEW s \in Slots, EndRecorded(s)
      PROVE  HeldInv'
  <2>1. /\ UNCHANGED <<holder, recovery>> /\ pc[s] = "rjob" /\ pc'[s] \in {"rack", "pick"}
        /\ \A q \in Slots : q # s => pc'[q] = pc[q] /\ at'[q] = at[q]
      BY <1>2 DEF EndRecorded, Leave, Goto, SameTasks, taskVars, local, IInv, TypeOK, SlotTypes
  <2>2. at[s] \in Jobs
      BY Zenon, <2>1 DEF IInv, NameInv, PassSteps
  <2>3. \A i \in Jobs : state'[i] = state[i] \/ (i = at[s] /\ state[i] \notin Terminal
                                                 /\ state'[i] \in Terminal)
      BY Zenon, <1>2, <2>2 DEF EndRecorded, Leave, Terminal, IInv, TypeOK, JobTypes
  <2>4. \A i \in Jobs : state'[i] \in Held => holder'[i] # Nobody
      BY Zenon, <2>1, <2>3 DEF HeldInv, Held, Terminal
  <2>5. ASSUME NEW q \in Slots, pc'[q] = "release"
        PROVE  state'[at'[q]] \in Terminal
    <3>1. pc[q] = "release" /\ at'[q] = at[q]
        BY Zenon, <2>1, <2>5
    <3>2. at[q] \in Jobs /\ state[at[q]] \in Terminal
        BY Zenon, <3>1 DEF WorkSteps, IInv, LeaseInv, HeldInv
    <3> QED BY Zenon, <2>3, <3>1, <3>2
  <2> QED BY Zenon, <2>1, <2>4, <2>5 DEF HeldInv
<1>3. ASSUME NEW s \in Slots, AckMarker(s) \/ FailTasks(s)
      PROVE  HeldInv'
  <2>1. UNCHANGED <<state, holder, recovery, at>>
      BY Zenon, <1>3 DEF AckMarker, FailTasks, SameJobs, SameLocal, durable
  <2>2. \A q \in Slots : q # s => pc'[q] = pc[q]
      BY Zenon, <1>3 DEF AckMarker, FailTasks, Goto, Raise, Escape, Stop, IInv, TypeOK, SlotTypes
  <2>3. ASSUME pc'[s] = "release"
        PROVE  state[at[s]] \in Terminal
    <3>1. CASE AckMarker(s)
      <4>1. pc[s] = "ackmarker" /\ note[s] # "error"
          BY Zenon, <2>3, <3>1 DEF AckMarker, Goto, Raise, IInv, TypeOK, SlotTypes
      <4> QED BY Zenon, <4>1 DEF IInv, StateInv
    <3>2. CASE FailTasks(s)
      <4>1. Deferred(s) \/ pc' = [pc EXCEPT ![s] = "failjob"]
          BY Zenon, <3>2 DEF FailTasks, Goto, Escape, Mishap, Steady
      <4>2. Deferred(s)
          BY Zenon, <2>3, <4>1 DEF IInv, TypeOK, SlotTypes
      <4> QED BY Zenon, <4>2 DEF Deferred, TasksOf, HeldInv, Terminal
    <3> QED BY Zenon, <1>3, <3>1, <3>2
  <2> QED BY Zenon, <2>1, <2>2, <2>3 DEF HeldInv
<1>4. CASE RecoverStaleJobs
    BY Zenon, <1>4 DEF RecoverStaleJobs, IInv, LeaseInv, HeldInv, RecoveredHolder,
        RecoveredState, local, taskVars, WorkSteps, Terminal, Held
<1>5. ASSUME NEW j \in Jobs, RecoverStaleJob(j) \/ Expire(j) \/ Cancel(j)
      PROVE  HeldInv'
  <2>1. CASE RecoverStaleJob(j)
      BY SMTT(30), <2>1 DEF RecoverStaleJob, IInv, TypeOK, JobTypes, HeldInv,
          RecoveredState, local, taskVars, Terminal, Held
  <2>2. CASE Expire(j)
      BY Zenon, <2>2 DEF Expire, HeldInv, local, taskVars
  <2>3. CASE Cancel(j)
      BY SMTT(30), <2>3 DEF Cancel, HeldInv, local, taskVars, Held
  <2> QED BY Zenon, <1>5, <2>1, <2>2, <2>3
<1>6. ASSUME NEW t \in Tasks, ProcessExits(t)
      PROVE  HeldInv'
    BY Zenon, <1>6 DEF ProcessExits, HeldInv, durable, local, taskVars
<1>7. ASSUME NEW s \in Slots, Pass(s)
      PROVE  HeldInv'
  <2>1. CASE \/ StartPass(s) \/ ScanMarkers(s) \/ PickMarker(s)
             \/ EndPass(s) \/ VisitFails(s)
    <3>1. CASE StartPass(s)
        BY SMTT(30), <3>1 DEF StartPass, IInv, LeaseInv, HeldInv, Goto, RecoveredHolder,
            RecoveredState, local, taskVars, WorkSteps, Terminal, Held
    <3>2. CASE ScanMarkers(s)
        BY Zenon, <3>2, HeldFrame DEF ScanMarkers, Goto, SameJobs, SameTasks, durable, taskVars, IInv
    <3>3. CASE PickMarker(s)
        BY SMTT(30), <3>3 DEF PickMarker, IInv, TypeOK, SlotTypes, HeldInv, Goto,
            SameJobs, SameTasks, durable, taskVars
    <3>4. CASE EndPass(s)
        BY Zenon, <3>4, HeldFrame DEF EndPass, Goto, SameJobs, SameTasks, durable, taskVars, IInv
    <3>5. CASE VisitFails(s)
        BY Zenon, <3>5, LeaveFrame DEF VisitFails, SameJobs, SameTasks, durable, taskVars, IInv
    <3> QED BY Zenon, <2>1, <3>1, <3>2, <3>3, <3>4, <3>5
  <2>2. CASE StopRecorded(s) \/ ResolveRecorded(s) \/ CloseRecorded(s)
    <3>1. CASE StopRecorded(s)
        BY Zenon, <3>1, HeldFrame DEF StopRecorded, Goto, durable, taskVars, local, Stop, IInv
    <3>2. CASE ResolveRecorded(s)
        BY SMTT(30), <3>2 DEF ResolveRecorded, IInv, TypeOK, TaskTypes, HeldInv, Goto,
            SameLocal
    <3>3. CASE CloseRecorded(s)
        BY Zenon, <3>3, HeldFrame DEF CloseRecorded, Goto, SameJobs, local, durable, IInv
    <3> QED BY Zenon, <2>2, <3>1, <3>2, <3>3
  <2>3. CASE AckRecorded(s) \/ CancelRecorded(s)
    <3>1. CASE AckRecorded(s)
        BY Zenon, <3>1, HeldFrame, LeaveFrame DEF AckRecorded, Goto, SameJobs, local, durable, IInv
    <3>2. CASE CancelRecorded(s)
      <4>1. /\ state' = [state EXCEPT ![at[s]] = IF CanAcknowledge(at[s]) THEN "canceled" ELSE @]
            /\ Leave(s) /\ UNCHANGED <<holder, recovery>>
            /\ LeaseInv /\ state \in [Jobs -> JobStates]
            /\ pc \in [Slots -> Steps] /\ at \in [Slots -> Jobs \cup {NoJob}]
          BY Zenon, <3>2 DEF CancelRecorded, SameTasks, taskVars, IInv, TypeOK, JobTypes, SlotTypes
      <4>2. /\ pc'[s] = "pick"
            /\ \A q \in Slots : q # s => pc'[q] = pc[q] /\ at'[q] = at[q]
          BY Zenon, <4>1 DEF Goto, Leave
      <4>3. \A i \in Jobs : state'[i] = state[i] \/ state'[i] = "canceled"
          BY Zenon, <4>1
      <4>4. \A q \in Slots : pc[q] = "release" => at[q] \in Jobs
          BY Zenon, <4>1 DEF LeaseInv, WorkSteps
      <4> QED BY <4>1, <4>2, <4>3, <4>4 DEF HeldInv, Terminal, Held
    <3> QED BY Zenon, <2>3, <3>1, <3>2
  <2> QED
      BY Zenon, <1>7, <1>2, <2>1, <2>2, <2>3
      DEF Pass
<1>8. ASSUME NEW s \in Slots, Attempt(s)
      PROVE  HeldInv'
  <2>1. CASE \/ CheckCancel(s) \/ Undo(s) \/ UndoTask(s)
             \/ UndoAck(s) \/ Acknowledge(s)
    <3>1. CASE CheckCancel(s)
        BY SMTT(30), <3>1 DEF CheckCancel, HeldInv, Goto, durable, local, taskVars
    <3>2. CASE Undo(s)
        BY Zenon, <3>2 DEF Undo, IInv, TypeOK, SlotTypes, HeldInv, Goto, Raise,
            SameJobs, SameTasks, durable, taskVars
    <3>3. CASE UndoTask(s)
        BY Zenon, <3>3, HeldFrame DEF UndoTask, Goto, SameJobs, local, durable, IInv
    <3>4. CASE UndoAck(s)
        BY SMTT(30), <3>4 DEF UndoAck, HeldInv, Goto, SameJobs, durable
    <3>5. CASE Acknowledge(s)
        BY SMTT(30), <3>5 DEF Acknowledge, IInv, TypeOK, LeaseInv, JobTypes, SlotTypes,
            HeldInv, Goto, Raise, SameLocal, SameTasks, Terminal, Steps, taskVars,
            PassSteps
    <3> QED BY Zenon, <2>1, <3>1, <3>2, <3>3, <3>4, <3>5
  <2>2. CASE \/ Begin(s) \/ OpenTask(s) \/ Register(s)
             \/ Spawn(s) \/ ReleaseGate(s) \/ StepFails(s)
    <3>1. CASE Begin(s)
        BY SMTT(30), <3>1 DEF Begin, IInv, TypeOK, LeaseInv, JobTypes, SlotTypes,
            HeldInv, Goto, Raise, SameLocal, SameTasks, Steps, taskVars, PassSteps
    <3>2. CASE OpenTask(s)
        BY Zenon, <3>2, HeldFrame DEF OpenTask, Goto, SameJobs, durable, IInv
    <3>3. CASE Register(s)
        BY SMTT(30), <3>3 DEF Register, HeldInv, Goto, SameJobs, local, durable
    <3>4. CASE Spawn(s)
        BY Zenon, <3>4, HeldFrame DEF Spawn, Goto, SameJobs, local, durable, IInv
    <3>5. CASE ReleaseGate(s)
        BY Zenon, <3>5 DEF ReleaseGate, IInv, TypeOK, SlotTypes, HeldInv, Goto, Raise,
            SameJobs, SameLocal, SameTasks, durable, taskVars
    <3>6. CASE StepFails(s)
        BY Zenon, <3>6 DEF StepFails, IInv, TypeOK, SlotTypes, HeldInv, Raise, SameJobs,
            SameLocal, SameTasks, Goto, durable, taskVars
    <3> QED BY Zenon, <2>2, <3>1, <3>2, <3>3, <3>4, <3>5, <3>6
  <2>3. CASE \/ PollExit(s) \/ PollCancel(s) \/ Heartbeat(s)
             \/ ObserveScheduler(s) \/ PollFails(s)
    <3>1. CASE PollExit(s)
        BY Zenon, <3>1, HeldFrame DEF PollExit, Goto, durable, taskVars, local, IInv
    <3>2. CASE PollCancel(s)
        BY SMTT(30), <3>2 DEF PollCancel, HeldInv, Goto, durable, local, taskVars
    <3>3. CASE Heartbeat(s)
        BY Zenon, <3>3, NoLateHeartbeat
    <3>4. CASE ObserveScheduler(s)
        BY Zenon, <3>4 DEF ObserveScheduler, HeldInv, local, taskVars
    <3>5. CASE PollFails(s)
        BY SMTT(30), <3>5 DEF PollFails, HeldInv, Raise, SameJobs, SameLocal, SameTasks,
            Goto, durable, taskVars
    <3> QED BY Zenon, <2>3, <3>1, <3>2, <3>3, <3>4, <3>5
  <2>4. CASE Resolve(s) \/ ResolveFails(s) \/ CloseTask(s) \/ CloseJob(s)
    <3>1. CASE Resolve(s)
        BY SMTT(30), <3>1 DEF Resolve, HeldInv, Goto, SameJobs, SameLocal, durable
    <3>2. CASE ResolveFails(s)
        BY Zenon, <3>2 DEF ResolveFails, IInv, TypeOK, SlotTypes, HeldInv, Goto, Raise,
            SameJobs, SameLocal, SameTasks, durable, taskVars
    <3>3. CASE CloseTask(s)
        BY Zenon, <3>3, HeldFrame DEF CloseTask, Goto, SameJobs, local, durable, IInv
    <3>4. CASE CloseJob(s)
        BY SMTT(30), <3>4 DEF CloseJob, IInv, TypeOK, LeaseInv, JobTypes, SlotTypes,
            HeldInv, Goto, Raise, SameLocal, SameTasks, Steps, taskVars, PassSteps
    <3> QED BY Zenon, <2>4, <3>1, <3>2, <3>3, <3>4
  <2>5. CASE FailJob(s) \/ ReleaseLease(s)
    <3>1. CASE FailJob(s)
        BY SMTT(30), <3>1 DEF FailJob, IInv, TypeOK, LeaseInv, JobTypes, SlotTypes,
            HeldInv, CanWrite, Escape, Goto, SameLocal, SameTasks, Terminal, Steps,
            Mishap, taskVars, PassSteps, Steady
    <3>2. CASE ReleaseLease(s)
        BY Zenon, <3>2 DEF ReleaseLease, IInv, TypeOK, JobTypes, SlotTypes, HeldInv,
            Goto, taskVars, Terminal, Held
    <3> QED BY Zenon, <2>5, <3>1, <3>2
  <2> QED
      BY Zenon, <1>8, <1>1, <1>3, <2>1, <2>2, <2>3, <2>4, <2>5
      DEF Attempt
<1>9. CASE Crash
    BY Zenon, <1>9 DEF Crash, HeldInv, taskVars
<1> QED BY Zenon, <1>4, <1>5, <1>6, <1>7, <1>8, <1>9 DEF Next

(* A leased or running job is never forgotten, without JARVIS recovery: it  *)
(* keeps a lease until a terminal state is written or stale recovery has    *)
(* requeued it, through every error path of run_once.                       *)
THEOREM LifecycleNeverAbandoned ==
    ASSUME Steady, Recoverable = {}
    PROVE  Spec => []NeverAbandoned
<1>1. Init => HeldInv
    BY DEF Init, HeldInv, Held
<1>2. IInv /\ HeldInv /\ [Next]_vars => HeldInv'
  <2>1. ASSUME HeldInv, UNCHANGED vars PROVE HeldInv'
      BY Zenon, <2>1 DEF HeldInv, vars, durable, taskVars, local
  <2> QED BY Zenon, <2>1, HeldStep
<1>3. HeldInv => NeverAbandoned
    BY Zenon DEF HeldInv, NeverAbandoned
<1> QED BY <1>1, <1>2, <1>3, LifecycleInvariant, PTL DEF Spec

-----------------------------------------------------------------------------
(* Success: a recovery intent belongs to a JARVIS job, and only a visit of  *)
(* such a job finds it recovered; a slot that is about to write the outcome *)
(* of a task does not take a success back, and one that is about to write   *)
(* the success of a job has written that of its task.                       *)
SuccessInv ==
    /\ \A t \in Tasks : recovery[t] # "none" =>
          taskJob[t] \in Recoverable /\ taskState[t] # "absent"
    /\ \A s \in Slots : note[s] = "recovered" => pc[s] \in PassSteps /\ at[s] \in Recoverable
    /\ \A s \in Slots : pc[s] \in {"rtask", "undotask"} => taskState[mine[s]] # "succeeded"
    /\ \A s \in Slots : pc[s] = "closejob" /\ note[s] = "succeeded" =>
          taskState[mine[s]] = "succeeded"
    /\ SuccessHasTask

Others(s) ==
    \A q \in Slots : q # s =>
       /\ pc'[q] = pc[q] /\ at'[q] = at[q] /\ mine'[q] = mine[q] /\ note'[q] = note[q]

(* A job succeeds in this step only if a task of it has. *)
Earned ==
    \A j \in Jobs \ Recoverable : state'[j] = "succeeded" =>
       state[j] = "succeeded" \/ \E t \in Tasks : taskJob[t] = j /\ taskState[t] = "succeeded"

LEMMA SuccessNext ==
    ASSUME \A j \in Jobs \ Recoverable : state'[j] = "succeeded" =>
              \E t \in Tasks : taskJob'[t] = j /\ taskState'[t] = "succeeded"
    PROVE  SuccessHasTask'
BY DEF SuccessHasTask, TasksOf

(* Steps of nobody, steps of a slot that leave tasks alone, and those that  *)
(* leave recoveries alone too and lead to no step SuccessInv speaks of.     *)
LEMMA SuccessSame ==
    ASSUME SuccessInv, UNCHANGED <<taskJob, taskState, recovery, pc, at, mine, note>>, Earned
    PROVE  SuccessInv'
<1>1. SuccessHasTask'
  <2>1. SUFFICES ASSUME NEW j \in Jobs \ Recoverable, state'[j] = "succeeded"
                 PROVE  \E t \in Tasks : taskJob'[t] = j /\ taskState'[t] = "succeeded"
      BY Zenon, SuccessNext
  <2>2. PICK t \in Tasks : taskJob[t] = j /\ taskState[t] = "succeeded"
      BY Zenon, <2>1 DEF SuccessInv, SuccessHasTask, Earned, TasksOf
  <2> QED BY Zenon, <2>2
<1> QED BY Zenon, <1>1 DEF SuccessInv

LEMMA SuccessMoves ==
    ASSUME SuccessInv, NEW s \in Slots, Others(s), UNCHANGED <<taskJob, taskState>>, Earned,
           \A t \in Tasks : recovery'[t] # "none" =>
              taskJob[t] \in Recoverable /\ taskState[t] # "absent",
           pc'[s] # "closejob",
           pc'[s] \in {"rtask", "undotask"} => taskState[mine'[s]] # "succeeded",
           note'[s] = "recovered" => pc'[s] \in PassSteps /\ at'[s] \in Recoverable
    PROVE  SuccessInv'
<1>1. SuccessHasTask'
  <2>1. SUFFICES ASSUME NEW j \in Jobs \ Recoverable, state'[j] = "succeeded"
                 PROVE  \E t \in Tasks : taskJob'[t] = j /\ taskState'[t] = "succeeded"
      BY Zenon, SuccessNext
  <2>2. PICK t \in Tasks : taskJob[t] = j /\ taskState[t] = "succeeded"
      BY Zenon, <2>1 DEF SuccessInv, SuccessHasTask, Earned, TasksOf
  <2> QED BY Zenon, <2>2
<1>2. \A t \in Tasks : recovery'[t] # "none" =>
         taskJob'[t] \in Recoverable /\ taskState'[t] # "absent"
    BY Zenon
<1>3. ASSUME NEW q \in Slots
      PROVE  /\ note'[q] = "recovered" => pc'[q] \in PassSteps /\ at'[q] \in Recoverable
             /\ pc'[q] \in {"rtask", "undotask"} => taskState'[mine'[q]] # "succeeded"
             /\ pc'[q] = "closejob" /\ note'[q] = "succeeded" =>
                   taskState'[mine'[q]] = "succeeded"
  <2>1. CASE q = s
      BY Zenon, <2>1
  <2>2. CASE q # s
    <3>1. pc'[q] = pc[q] /\ at'[q] = at[q] /\ mine'[q] = mine[q] /\ note'[q] = note[q]
        BY Zenon, <2>2 DEF Others
    <3>2. taskState'[mine'[q]] = taskState[mine[q]]
        BY Zenon, <3>1
    <3> QED BY Zenon, <3>1, <3>2 DEF SuccessInv
  <2> QED BY Zenon, <2>1, <2>2
<1> QED BY Zenon, <1>1, <1>2, <1>3 DEF SuccessInv

LEMMA SuccessFrame ==
    ASSUME SuccessInv, NEW s \in Slots, Others(s),
           UNCHANGED <<taskJob, taskState, recovery>>, Earned,
           pc'[s] \notin {"rtask", "undotask", "closejob"},
           note'[s] = "recovered" => pc'[s] \in PassSteps /\ at'[s] \in Recoverable
    PROVE  SuccessInv'
<1>1. \A t \in Tasks : recovery'[t] # "none" =>
         taskJob[t] \in Recoverable /\ taskState[t] # "absent"
    BY Zenon DEF SuccessInv
<1> QED BY Zenon, <1>1, SuccessMoves

(* No other slot works on a job while one works on it or visits it.         *)
LEMMA Apart ==
    ASSUME IInv, NEW s \in Slots, pc[s] \in WorkSteps \cup Visit,
           NEW q \in Slots, q # s, pc[q] \in WorkSteps \cup Visit
    PROVE  at[q] # at[s]
<1>1. \A r \in Slots : pc[r] \in WorkSteps => holder[at[r]] = r
    BY Zenon DEF IInv, LeaseInv
<1>2. \A r \in Slots : pc[r] \in Visit => r = Reconciler /\ holder[at[r]] \notin Slots
    BY Zenon DEF IInv, NameInv, VisitInv, Visit
<1> QED BY Zenon, <1>1, <1>2

(* Steps that write the outcome of tasks of the slot's own job, none of     *)
(* which the success of the job rests on.                                   *)
LEMMA SuccessTask ==
    ASSUME IInv, SuccessInv, NEW s \in Slots, pc[s] \in WorkSteps \cup Visit, Others(s),
           UNCHANGED <<taskJob, recovery, state>>,
           \A t \in Tasks : \/ taskState'[t] = taskState[t]
                            \/ /\ taskJob[t] = at[s] /\ taskState'[t] # "absent"
                               /\ taskState[t] # "succeeded" \/ state[at[s]] # "succeeded",
           pc'[s] \notin {"rtask", "undotask"},
           pc'[s] = "closejob" /\ note'[s] = "succeeded" => taskState'[mine'[s]] = "succeeded",
           note'[s] = "recovered" => pc'[s] \in PassSteps /\ at'[s] \in Recoverable
    PROVE  SuccessInv'
<1>1. SuccessHasTask'
  <2>1. SUFFICES ASSUME NEW j \in Jobs \ Recoverable, state'[j] = "succeeded"
                 PROVE  \E t \in Tasks : taskJob'[t] = j /\ taskState'[t] = "succeeded"
      BY Zenon, SuccessNext
  <2>2. state[j] = "succeeded"
      BY Zenon, <2>1
  <2>3. PICK t \in TasksOf(j) : taskState[t] = "succeeded"
      BY Zenon, <2>1, <2>2 DEF SuccessInv, SuccessHasTask
  <2>4. t \in Tasks /\ taskJob[t] = j /\ taskState[t] = "succeeded"
      BY Zenon, <2>3 DEF TasksOf
  <2>5. taskState'[t] = taskState[t]
      BY Zenon, <2>2, <2>4
  <2> QED BY Zenon, <2>4, <2>5
<1>2. ASSUME NEW t \in Tasks, recovery'[t] # "none"
      PROVE  taskJob'[t] \in Recoverable /\ taskState'[t] # "absent"
  <2>1. taskJob[t] \in Recoverable /\ taskState[t] # "absent"
      BY Zenon, <1>2 DEF SuccessInv
  <2> QED BY Zenon, <2>1
<1>3. ASSUME NEW q \in Slots
      PROVE  /\ note'[q] = "recovered" => pc'[q] \in PassSteps /\ at'[q] \in Recoverable
             /\ pc'[q] \in {"rtask", "undotask"} => taskState'[mine'[q]] # "succeeded"
             /\ pc'[q] = "closejob" /\ note'[q] = "succeeded" =>
                   taskState'[mine'[q]] = "succeeded"
  <2>1. CASE q = s
      BY Zenon, <2>1
  <2>2. CASE q # s
    <3>1. pc'[q] = pc[q] /\ at'[q] = at[q] /\ mine'[q] = mine[q] /\ note'[q] = note[q]
        BY Zenon, <2>2 DEF Others
    <3>2. ASSUME pc[q] \in {"rtask", "undotask", "closejob"}
          PROVE  taskState'[mine'[q]] = taskState[mine[q]]
      <4>1. /\ pc[q] \in WorkSteps \cup Visit
            /\ pc[q] \in Named \cup PassSteps
          BY Zenon, <3>2 DEF WorkSteps, RunSteps, UndoSteps, Visit, PassSteps, Named, Launched
      <4>2. mine[q] \in Tasks /\ taskJob[mine[q]] = at[q] /\ at[q] # at[s]
          BY Zenon, <2>2, <4>1, Apart DEF IInv, NameInv
      <4> QED BY Zenon, <3>1, <4>2
    <3>3. /\ note[q] = "recovered" => pc[q] \in PassSteps /\ at[q] \in Recoverable
          /\ pc[q] \in {"rtask", "undotask"} => taskState[mine[q]] # "succeeded"
          /\ pc[q] = "closejob" /\ note[q] = "succeeded" =>
                   taskState[mine[q]] = "succeeded"
        BY Zenon DEF SuccessInv
    <3> QED BY Zenon, <3>1, <3>2, <3>3
  <2> QED BY Zenon, <2>1, <2>2
<1> QED BY Zenon, <1>1, <1>2, <1>3 DEF SuccessInv

(* What every step does to successes. *)
LEMMA SuccessStep ==
    ASSUME Steady, IInv, SuccessInv, Next
    PROVE  SuccessInv'
<1>1. /\ pc = [q \in Slots |-> pc[q]] /\ at = [q \in Slots |-> at[q]]
      /\ mine = [q \in Slots |-> mine[q]] /\ note = [q \in Slots |-> note[q]]
      /\ state = [j \in Jobs |-> state[j]]
    BY Zenon DEF IInv, TypeOK, SlotTypes, JobTypes
<1>2. \A q \in Slots : pc[q] \notin PassSteps => note[q] # "recovered"
    BY Zenon DEF SuccessInv
<1>3. \A j \in Jobs : RecoveredState[j] = "succeeded" => state[j] = "succeeded"
    BY Zenon DEF RecoveredState
<1>4. ASSUME NEW s \in Slots, CheckCancel(s) \/ UndoAck(s) \/ Acknowledge(s) \/ Begin(s)
      PROVE  SuccessInv'
    <2>1. CASE CheckCancel(s)
      <3>1. Others(s) /\ pc'[s] \notin {"rtask", "undotask", "closejob"} /\ note'[s] # "recovered"
          BY Zenon, <1>1, <1>2, <2>1 DEF CheckCancel, Goto, local, Others, PassSteps
      <3>2. UNCHANGED <<taskJob, taskState, recovery, state>>
          BY Zenon, <2>1 DEF CheckCancel, durable, taskVars
      <3> QED BY Zenon, <3>1, <3>2, SuccessFrame DEF Earned
    <2>2. CASE UndoAck(s)
      <3>1. Others(s) /\ pc'[s] \notin {"rtask", "undotask", "closejob"} /\ note'[s] # "recovered"
          BY Zenon, <1>1, <1>2, <2>2 DEF UndoAck, Goto, Others, PassSteps
      <3>2. UNCHANGED <<taskJob, taskState, recovery, state>>
          BY Zenon, <2>2 DEF UndoAck, SameJobs, durable
      <3> QED BY Zenon, <3>1, <3>2, SuccessFrame DEF Earned
    <2>3. CASE Acknowledge(s)
      <3>1. Others(s) /\ pc'[s] \notin {"rtask", "undotask", "closejob"} /\ note'[s] # "recovered"
          BY Zenon, <1>1, <1>2, <2>3 DEF Acknowledge, Goto, Raise, SameLocal, Others, PassSteps
      <3>2. UNCHANGED <<taskJob, taskState, recovery>>
          BY Zenon, <2>3 DEF Acknowledge, SameTasks, taskVars
      <3>3. Earned
          BY Zenon, <1>1, <2>3 DEF Acknowledge, Earned
      <3> QED BY Zenon, <3>1, <3>2, <3>3, SuccessFrame
    <2>4. CASE Begin(s)
      <3>1. Others(s) /\ pc'[s] \notin {"rtask", "undotask", "closejob"} /\ note'[s] # "recovered"
          BY Zenon, <1>1, <1>2, <2>4 DEF Begin, Goto, Raise, SameLocal, Others, PassSteps
      <3>2. UNCHANGED <<taskJob, taskState, recovery>>
          BY Zenon, <2>4 DEF Begin, SameTasks, taskVars
      <3>3. Earned
          BY Zenon, <1>1, <2>4 DEF Begin, Earned
      <3> QED BY Zenon, <3>1, <3>2, <3>3, SuccessFrame
  <2> QED BY Zenon, <1>4, <2>1, <2>2, <2>3, <2>4
<1>5. ASSUME NEW s \in Slots, StepFails(s) \/ Spawn(s) \/ ReleaseGate(s)
      PROVE  SuccessInv'
    <2>1. CASE StepFails(s)
      <3>1. Others(s) /\ pc'[s] \notin {"rtask", "undotask", "closejob"} /\ note'[s] # "recovered"
          BY Zenon, <1>1, <1>2, <2>1 DEF StepFails, Goto, Raise, SameLocal, Others, PassSteps
      <3>2. UNCHANGED <<taskJob, taskState, recovery, state>>
          BY Zenon, <2>1 DEF StepFails, SameJobs, SameTasks, durable, taskVars
      <3> QED BY Zenon, <3>1, <3>2, SuccessFrame DEF Earned
    <2>2. CASE Spawn(s)
      <3>1. Others(s) /\ pc'[s] \notin {"rtask", "undotask", "closejob"} /\ note'[s] # "recovered"
          BY Zenon, <1>1, <1>2, <2>2 DEF Spawn, Goto, local, Others, PassSteps
      <3>2. UNCHANGED <<taskJob, taskState, recovery, state>>
          BY Zenon, <2>2 DEF Spawn, SameJobs, durable
      <3> QED BY Zenon, <3>1, <3>2, SuccessFrame DEF Earned
    <2>3. CASE ReleaseGate(s)
      <3>1. Others(s) /\ pc'[s] \notin {"rtask", "undotask", "closejob"} /\ note'[s] # "recovered"
          BY Zenon, <1>1, <1>2, <2>3 DEF ReleaseGate, Goto, Raise, SameLocal, Others, PassSteps
      <3>2. UNCHANGED <<taskJob, taskState, recovery, state>>
          BY Zenon, <2>3 DEF ReleaseGate, SameJobs, SameTasks, durable, taskVars
      <3> QED BY Zenon, <3>1, <3>2, SuccessFrame DEF Earned
  <2> QED BY Zenon, <1>5, <2>1, <2>2, <2>3
<1>6. ASSUME NEW s \in Slots, PollExit(s) \/ PollCancel(s) \/ ObserveScheduler(s) \/ PollFails(s)
      PROVE  SuccessInv'
    <2>1. CASE PollExit(s)
      <3>1. Others(s) /\ pc'[s] \notin {"rtask", "undotask", "closejob"} /\ note'[s] # "recovered"
          BY Zenon, <1>1, <1>2, <2>1 DEF PollExit, Goto, local, Others, PassSteps
      <3>2. UNCHANGED <<taskJob, taskState, recovery, state>>
          BY Zenon, <2>1 DEF PollExit, durable, taskVars
      <3> QED BY Zenon, <3>1, <3>2, SuccessFrame DEF Earned
    <2>2. CASE PollCancel(s)
      <3>1. Others(s) /\ pc'[s] \notin {"rtask", "undotask", "closejob"} /\ note'[s] # "recovered"
          BY Zenon, <1>1, <1>2, <2>2 DEF PollCancel, Goto, local, Others, PassSteps
      <3>2. UNCHANGED <<taskJob, taskState, recovery, state>>
          BY Zenon, <2>2 DEF PollCancel, durable, taskVars
      <3> QED BY Zenon, <3>1, <3>2, SuccessFrame DEF Earned
    <2>3. CASE ObserveScheduler(s)
      <3>1. Others(s) /\ pc'[s] \notin {"rtask", "undotask", "closejob"} /\ note'[s] # "recovered"
          BY Zenon, <1>1, <1>2, <2>3 DEF ObserveScheduler, Goto, local, Others, PassSteps
      <3>2. UNCHANGED <<taskJob, taskState, recovery, state>>
          BY Zenon, <2>3 DEF ObserveScheduler, taskVars
      <3> QED BY Zenon, <3>1, <3>2, SuccessFrame DEF Earned
    <2>4. CASE PollFails(s)
      <3>1. Others(s) /\ pc'[s] \notin {"rtask", "undotask", "closejob"} /\ note'[s] # "recovered"
          BY Zenon, <1>1, <1>2, <2>4 DEF PollFails, Goto, Raise, SameLocal, Others, PassSteps
      <3>2. UNCHANGED <<taskJob, taskState, recovery, state>>
          BY Zenon, <2>4 DEF PollFails, SameJobs, SameTasks, durable, taskVars
      <3> QED BY Zenon, <3>1, <3>2, SuccessFrame DEF Earned
  <2> QED BY Zenon, <1>6, <2>1, <2>2, <2>3, <2>4
<1>7. ASSUME NEW s \in Slots, ResolveFails(s) \/ AckMarker(s) \/ FailJob(s) \/ ReleaseLease(s)
      PROVE  SuccessInv'
    <2>1. CASE ResolveFails(s)
      <3>1. Others(s) /\ pc'[s] \notin {"rtask", "undotask", "closejob"} /\ note'[s] # "recovered"
          BY Zenon, <1>1, <1>2, <2>1 DEF ResolveFails, Goto, Raise, SameLocal, Others, PassSteps
      <3>2. UNCHANGED <<taskJob, taskState, recovery, state>>
          BY Zenon, <2>1 DEF ResolveFails, SameJobs, SameTasks, durable, taskVars
      <3> QED BY Zenon, <3>1, <3>2, SuccessFrame DEF Earned
    <2>2. CASE AckMarker(s)
      <3>1. Others(s) /\ pc'[s] \notin {"rtask", "undotask", "closejob"} /\ note'[s] # "recovered"
          BY Zenon, <1>1, <1>2, <2>2 DEF AckMarker, Goto, Raise, SameLocal, Others, PassSteps
      <3>2. UNCHANGED <<taskJob, taskState, recovery, state>>
          BY Zenon, <2>2 DEF AckMarker, SameJobs, durable
      <3> QED BY Zenon, <3>1, <3>2, SuccessFrame DEF Earned
    <2>3. CASE FailJob(s)
      <3>1. Others(s) /\ pc'[s] \notin {"rtask", "undotask", "closejob"} /\ note'[s] # "recovered"
          BY Zenon, <1>1, <1>2, <2>3 DEF FailJob, Goto, Escape, SameLocal, Others, PassSteps
      <3>2. UNCHANGED <<taskJob, taskState, recovery>>
          BY Zenon, <2>3 DEF FailJob, SameTasks, taskVars
      <3>3. Earned
          BY Zenon, <1>1, <2>3 DEF FailJob, Earned
      <3> QED BY Zenon, <3>1, <3>2, <3>3, SuccessFrame
    <2>4. CASE ReleaseLease(s)
      <3>1. Others(s) /\ pc'[s] \notin {"rtask", "undotask", "closejob"} /\ note'[s] # "recovered"
          BY Zenon, <1>1, <1>2, <2>4 DEF ReleaseLease, Goto, Others, PassSteps
      <3>2. UNCHANGED <<taskJob, taskState, recovery, state>>
          BY Zenon, <2>4 DEF ReleaseLease, taskVars
      <3> QED BY Zenon, <3>1, <3>2, SuccessFrame DEF Earned
  <2> QED BY Zenon, <1>7, <2>1, <2>2, <2>3, <2>4
<1>8. ASSUME NEW s \in Slots,
             \/ ScanMarkers(s) \/ PickMarker(s) \/ EndPass(s) \/ VisitFails(s)
             \/ CancelRecorded(s)
      PROVE  SuccessInv'
    <2>1. CASE ScanMarkers(s)
      <3>1. Others(s) /\ pc'[s] \notin {"rtask", "undotask", "closejob"} /\ note'[s] # "recovered"
          BY Zenon, <1>1, <1>2, <2>1 DEF ScanMarkers, Goto, Others, PassSteps
      <3>2. UNCHANGED <<taskJob, taskState, recovery, state>>
          BY Zenon, <2>1 DEF ScanMarkers, SameJobs, SameTasks, durable, taskVars
      <3> QED BY Zenon, <3>1, <3>2, SuccessFrame DEF Earned
    <2>2. CASE PickMarker(s)
      <3>1. Others(s) /\ pc'[s] \notin {"rtask", "undotask", "closejob"} /\ note'[s] # "recovered"
          BY Zenon, <1>1, <1>2, <2>2 DEF PickMarker, Goto, Others, PassSteps
      <3>2. UNCHANGED <<taskJob, taskState, recovery, state>>
          BY Zenon, <2>2 DEF PickMarker, SameJobs, SameTasks, durable, taskVars
      <3> QED BY Zenon, <3>1, <3>2, SuccessFrame DEF Earned
    <2>3. CASE EndPass(s)
      <3>1. Others(s) /\ pc'[s] \notin {"rtask", "undotask", "closejob"} /\ note'[s] # "recovered"
          BY Zenon, <1>1, <1>2, <2>3 DEF EndPass, Goto, Others, PassSteps
      <3>2. UNCHANGED <<taskJob, taskState, recovery, state>>
          BY Zenon, <2>3 DEF EndPass, SameJobs, SameTasks, durable, taskVars
      <3> QED BY Zenon, <3>1, <3>2, SuccessFrame DEF Earned
    <2>4. CASE VisitFails(s)
      <3>1. Others(s) /\ pc'[s] \notin {"rtask", "undotask", "closejob"} /\ note'[s] # "recovered"
          BY Zenon, <1>1, <1>2, <2>4 DEF VisitFails, Goto, Leave, Others, PassSteps
      <3>2. UNCHANGED <<taskJob, taskState, recovery, state>>
          BY Zenon, <2>4 DEF VisitFails, SameJobs, SameTasks, durable, taskVars
      <3> QED BY Zenon, <3>1, <3>2, SuccessFrame DEF Earned
    <2>5. CASE CancelRecorded(s)
      <3>1. Others(s) /\ pc'[s] \notin {"rtask", "undotask", "closejob"} /\ note'[s] # "recovered"
          BY Zenon, <1>1, <1>2, <2>5 DEF CancelRecorded, Goto, Leave, Others, PassSteps
      <3>2. UNCHANGED <<taskJob, taskState, recovery>>
          BY Zenon, <2>5 DEF CancelRecorded, SameTasks, taskVars
      <3>3. Earned
          BY Zenon, <1>1, <2>5 DEF CancelRecorded, Earned
      <3> QED BY Zenon, <3>1, <3>2, <3>3, SuccessFrame
  <2> QED BY Zenon, <1>8, <2>1, <2>2, <2>3, <2>4, <2>5
<1>9. ASSUME NEW s \in Slots, Acquire(s) \/ StartPass(s)
      PROVE  SuccessInv'
  <2>1. /\ Others(s) /\ pc'[s] \in {"leased", "scan"} /\ note'[s] # "recovered"
        /\ UNCHANGED <<taskJob, taskState, recovery>>
      BY Zenon, <1>1, <1>2, <1>9 DEF Acquire, StartPass, Goto, Others, PassSteps, local, taskVars
  <2>2. Earned
    <3>1. CASE StartPass(s)
        BY Zenon, <1>3, <3>1 DEF StartPass, Earned
    <3>2. CASE Acquire(s)
      <4>1. PICK j \in Eligible : state' = [RecoveredState EXCEPT ![j] = "leased"]
          BY Zenon, <3>2 DEF Acquire
      <4>2. \A i \in Jobs : state'[i] = RecoveredState[i] \/ state'[i] = "leased"
          BY Zenon, <4>1 DEF RecoveredState
      <4> QED BY Zenon, <1>3, <4>2 DEF Earned
    <3> QED BY Zenon, <1>9, <3>1, <3>2
  <2> QED BY Zenon, <2>1, <2>2, SuccessFrame
<1>10. ASSUME NEW s \in Slots, Undo(s)
       PROVE  SuccessInv'
  <2>1. /\ Others(s) /\ pc'[s] \in {"acknowledge", "failtasks", "undotask"}
        /\ note'[s] # "recovered"
      BY Zenon, <1>1, <1>2, <1>10 DEF Undo, Goto, Raise, Others, PassSteps
  <2>2. UNCHANGED <<taskJob, taskState, recovery, state>>
      BY Zenon, <1>10 DEF Undo, SameJobs, SameTasks, durable, taskVars
  <2>3. pc'[s] = "undotask" => taskState[mine'[s]] = "running"
      BY Zenon, <1>1, <1>10 DEF Undo, Goto, Raise, OpenTasks
  <2>4. \A t \in Tasks : recovery'[t] # "none" =>
           taskJob[t] \in Recoverable /\ taskState[t] # "absent"
      BY Zenon, <2>2 DEF SuccessInv
  <2> QED BY Zenon, <2>1, <2>2, <2>3, <2>4, SuccessMoves DEF Earned
<1>11. ASSUME NEW s \in Slots, Register(s) \/ Resolve(s)
       PROVE  SuccessInv'
  <2>1. /\ Others(s) /\ pc'[s] \in {"spawn", "closetask"} /\ note'[s] # "recovered"
        /\ UNCHANGED <<taskJob, taskState, state>>
    <3>1. CASE Register(s)
        BY Zenon, <1>1, <1>2, <3>1 DEF Register, Goto, Others, PassSteps, SameJobs, durable, local
    <3>2. CASE Resolve(s)
      <4>1. "recovered" \notin Terminal /\ \A j, r : Outcomes(j, r) \subseteq Terminal
          BY DEF Terminal, Outcomes
      <4>2. PICK o \in Terminal : note' = [note EXCEPT ![s] = o]
          BY Zenon, <3>2, <4>1 DEF Resolve
      <4> QED BY Zenon, <1>1, <3>2, <4>1, <4>2
                 DEF Resolve, Goto, Others, SameJobs, SameLocal, durable
    <3> QED BY Zenon, <1>11, <3>1, <3>2
  <2>2. /\ mine[s] \in Tasks /\ taskJob[mine[s]] = at[s] /\ taskState[mine[s]] # "absent"
        /\ recovery = [t \in Tasks |-> recovery[t]]
      BY Zenon, <1>11 DEF Register, Resolve, IInv, NameInv, Named, Launched, TypeOK, TaskTypes
  <2>3. ASSUME NEW t \in Tasks, recovery'[t] # "none"
        PROVE  taskJob[t] \in Recoverable /\ taskState[t] # "absent"
    <3>1. CASE t # mine[s]
      <4>1. recovery'[t] = recovery[t]
          BY Zenon, <1>11, <2>2, <3>1 DEF Register, Resolve
      <4> QED BY Zenon, <2>3, <4>1 DEF SuccessInv
    <3>2. CASE t = mine[s] /\ Register(s)
        BY Zenon, <2>2, <2>3, <3>2 DEF Register
    <3>3. CASE t = mine[s] /\ Resolve(s)
      <4>1. recovery[t] # "none"
          BY Zenon, <2>2, <2>3, <3>3 DEF Resolve
      <4> QED BY Zenon, <4>1 DEF SuccessInv
    <3> QED BY Zenon, <1>11, <3>1, <3>2, <3>3
  <2> QED BY Zenon, <2>1, <2>3, SuccessMoves DEF Earned
<1>12. ASSUME NEW s \in Slots, OpenTask(s)
       PROVE  SuccessInv'
  <2>1. PICK t \in Tasks : /\ taskState[t] = "absent"
                           /\ taskState' = [taskState EXCEPT ![t] = "running"]
                           /\ taskJob' = [taskJob EXCEPT ![t] = at[s]]
      BY Zenon, <1>12 DEF OpenTask
  <2>2. /\ Others(s) /\ pc'[s] = "register" /\ note' = note /\ note[s] # "recovered"
        /\ UNCHANGED <<recovery, state>>
      BY Zenon, <1>1, <1>2, <1>12 DEF OpenTask, Goto, Others, PassSteps, SameJobs, durable
  <2>3. /\ taskState'[t] = "running"
        /\ \A u \in Tasks : u # t => taskState'[u] = taskState[u] /\ taskJob'[u] = taskJob[u]
      BY Zenon, <2>1 DEF IInv, TypeOK, TaskTypes
  <2>4. SuccessHasTask'
    <3>1. SUFFICES ASSUME NEW j \in Jobs \ Recoverable, state'[j] = "succeeded"
                   PROVE  \E u \in Tasks : taskJob'[u] = j /\ taskState'[u] = "succeeded"
        BY Zenon, SuccessNext
    <3>2. PICK u \in Tasks : taskJob[u] = j /\ taskState[u] = "succeeded"
        BY Zenon, <2>2, <3>1 DEF SuccessInv, SuccessHasTask, TasksOf
    <3> QED BY Zenon, <2>1, <2>3, <3>2
  <2>5. ASSUME NEW u \in Tasks, recovery'[u] # "none"
        PROVE  taskJob'[u] \in Recoverable /\ taskState'[u] # "absent"
    <3>1. taskJob[u] \in Recoverable /\ taskState[u] # "absent"
        BY Zenon, <2>2, <2>5 DEF SuccessInv
    <3> QED BY Zenon, <2>1, <2>3, <3>1
  <2>6. ASSUME NEW q \in Slots
        PROVE  /\ note'[q] = "recovered" => pc'[q] \in PassSteps /\ at'[q] \in Recoverable
               /\ pc'[q] \in {"rtask", "undotask"} => taskState'[mine'[q]] # "succeeded"
               /\ pc'[q] = "closejob" /\ note'[q] = "succeeded" =>
                     taskState'[mine'[q]] = "succeeded"
    <3>1. CASE q = s
        BY Zenon, <2>2, <3>1
    <3>2. CASE q # s
      <4>1. pc'[q] = pc[q] /\ at'[q] = at[q] /\ mine'[q] = mine[q] /\ note'[q] = note[q]
          BY Zenon, <2>2, <3>2 DEF Others
      <4>2. ASSUME pc[q] \in {"rtask", "undotask", "closejob"}
            PROVE  taskState'[mine'[q]] = taskState[mine[q]]
        <5>1. pc[q] \in Named \cup PassSteps
            BY Zenon, <4>2 DEF PassSteps, Named, Launched
        <5>2. mine[q] \in Tasks /\ mine[q] # t
            BY Zenon, <2>1, <5>1 DEF IInv, NameInv
        <5> QED BY Zenon, <2>3, <4>1, <5>2
      <4>3. /\ note[q] = "recovered" => pc[q] \in PassSteps /\ at[q] \in Recoverable
            /\ pc[q] \in {"rtask", "undotask"} => taskState[mine[q]] # "succeeded"
            /\ pc[q] = "closejob" /\ note[q] = "succeeded" =>
                     taskState[mine[q]] = "succeeded"
          BY Zenon DEF SuccessInv
      <4> QED BY Zenon, <4>1, <4>2, <4>3
    <3> QED BY Zenon, <3>1, <3>2
  <2> QED BY Zenon, <2>4, <2>5, <2>6 DEF SuccessInv
<1>13. ASSUME NEW s \in Slots, CloseJob(s)
       PROVE  SuccessInv'
  <2>1. /\ Others(s) /\ pc'[s] = "ackmarker" /\ note'[s] # "recovered"
        /\ UNCHANGED <<taskJob, taskState, recovery>>
      BY Zenon, <1>1, <1>2, <1>13
         DEF CloseJob, Goto, Raise, Others, SameLocal, PassSteps, SameTasks, taskVars
  <2>2. pc[s] = "closejob" /\ (state' = state \/ state' = [state EXCEPT ![at[s]] = note[s]])
      BY Zenon, <1>13 DEF CloseJob
  <2>3. /\ mine[s] \in Tasks /\ taskJob[mine[s]] = at[s]
        /\ note[s] = "succeeded" => taskState[mine[s]] = "succeeded"
      BY Zenon, <2>2 DEF IInv, NameInv, Named, Launched, SuccessInv
  <2>4. \A j \in Jobs : state'[j] = state[j] \/ (j = at[s] /\ state'[j] = note[s])
      BY Zenon, <1>1, <2>2
  <2>5. Earned
      BY Zenon, <2>3, <2>4 DEF Earned
  <2> QED BY Zenon, <2>1, <2>5, SuccessFrame
<1>14. ASSUME NEW s \in Slots, UndoTask(s) \/ CloseTask(s) \/ CloseRecorded(s)
       PROVE  SuccessInv'
  <2>1. /\ pc[s] \in {"undotask", "closetask", "rtask"} /\ Others(s)
        /\ pc'[s] \in {"undoack", "closejob", "rjob"}
        /\ UNCHANGED <<taskJob, recovery, state, at, mine, note>>
      BY Zenon, <1>1, <1>14
         DEF UndoTask, CloseTask, CloseRecorded, Goto, Others, SameJobs, durable, local
  <2>2. /\ pc[s] \in WorkSteps \cup Visit /\ pc[s] \in Named \cup PassSteps
        /\ pc[s] = "closetask" => pc[s] \in Launched /\ pc[s] \notin PassSteps
      BY Zenon, <2>1 DEF WorkSteps, RunSteps, UndoSteps, Visit, PassSteps, Named, Launched
  <2>3. mine[s] \in Tasks /\ taskJob[mine[s]] = at[s]
      BY Zenon, <2>2 DEF IInv, NameInv
  <2>4. \/ taskState[mine[s]] # "succeeded"
        \/ state[at[s]] # "succeeded"
      BY Zenon, <2>1, <2>2 DEF SuccessInv, IInv, StateInv
  <2>5. PICK v : taskState' = [taskState EXCEPT ![mine[s]] = v] /\ v # "absent"
                 /\ (CloseTask(s) => v = note[s])
    <3>1. CASE CloseTask(s)
      <4>1. note[s] # "absent"
          BY Zenon, <3>1 DEF CloseTask, IInv, NameInv, Terminal
      <4> QED BY Zenon, <3>1, <4>1 DEF CloseTask
    <3>2. CASE UndoTask(s)
        BY Zenon, <3>2 DEF UndoTask, CloseTask
    <3>3. CASE CloseRecorded(s)
        BY Zenon, <3>3 DEF CloseRecorded, CloseTask
    <3> QED BY Zenon, <1>14, <3>1, <3>2, <3>3
  <2>6. taskState'[mine[s]] = v /\ \A t \in Tasks : t # mine[s] => taskState'[t] = taskState[t]
      BY Zenon, <2>3, <2>5 DEF IInv, TypeOK, TaskTypes
  <2>7. pc'[s] = "closejob" /\ note'[s] = "succeeded" => taskState'[mine'[s]] = "succeeded"
    <3>1. pc'[s] = "closejob" => CloseTask(s)
        BY Zenon, <1>1, <1>14 DEF UndoTask, CloseRecorded, Goto
    <3> QED BY Zenon, <2>1, <2>5, <2>6, <3>1
  <2>8. note'[s] = "recovered" => pc'[s] \in PassSteps /\ at'[s] \in Recoverable
    <3>1. note[s] = "recovered" => pc[s] = "rtask" /\ at[s] \in Recoverable
        BY Zenon, <2>1 DEF SuccessInv, PassSteps
    <3>2. pc[s] = "rtask" => pc'[s] = "rjob"
        BY Zenon, <1>1, <1>14 DEF UndoTask, CloseTask, CloseRecorded, Goto
    <3> QED BY Zenon, <2>1, <3>1, <3>2 DEF PassSteps
  <2>9. \A t \in Tasks : \/ taskState'[t] = taskState[t]
                         \/ /\ taskJob[t] = at[s] /\ taskState'[t] # "absent"
                            /\ taskState[t] # "succeeded" \/ state[at[s]] # "succeeded"
      BY Zenon, <2>3, <2>4, <2>5, <2>6
  <2> QED BY Zenon, <2>1, <2>2, <2>7, <2>8, <2>9, SuccessTask
<1>15. ASSUME NEW s \in Slots, FailTasks(s)
       PROVE  SuccessInv'
  <2>1. PICK closed \in SUBSET OpenTasks(at[s]) :
            taskState' = [t \in Tasks |-> IF t \in closed THEN "failed" ELSE taskState[t]]
      BY Zenon, <1>15 DEF FailTasks
  <2>2. /\ pc[s] \in WorkSteps \cup Visit /\ Others(s)
        /\ pc'[s] \in {"release", "failjob"} /\ note'[s] # "recovered"
        /\ UNCHANGED <<taskJob, recovery, state>>
    <3>1. pc[s] = "failtasks" /\ pc[s] \notin PassSteps /\ pc[s] \in WorkSteps \cup Visit
        BY Zenon, <1>15 DEF FailTasks, PassSteps, WorkSteps
    <3> QED BY Zenon, <1>1, <1>2, <1>15, <3>1
               DEF FailTasks, Goto, Escape, Others, SameJobs, SameLocal, durable
  <2>3. \A t \in Tasks : \/ taskState'[t] = taskState[t]
                         \/ /\ taskJob[t] = at[s] /\ taskState'[t] # "absent"
                            /\ taskState[t] # "succeeded"
      BY Zenon, <2>1 DEF OpenTasks, TasksOf
  <2> QED BY Zenon, <2>2, <2>3, SuccessTask
<1>16. ASSUME NEW s \in Slots, StopRecorded(s) \/ AckRecorded(s) \/ EndRecorded(s)
       PROVE  SuccessInv'
  <2>1. Others(s) /\ UNCHANGED <<taskJob, taskState, recovery>>
    <3>1. Others(s)
        BY Zenon, <1>1, <1>16
           DEF StopRecorded, AckRecorded, EndRecorded, Leave, Goto, Others, local
    <3> QED BY Zenon, <1>16, <3>1 DEF StopRecorded, AckRecorded, EndRecorded, SameTasks, taskVars
  <2>2. \/ pc'[s] = "pick" /\ note'[s] = "none"
        \/ pc'[s] \in {"rresolve", "rcancel", "rack"} /\ note' = note /\ at' = at
      BY Zenon, <1>1, <1>16 DEF StopRecorded, AckRecorded, EndRecorded, Leave, Goto, local
  <2>3. Earned
    <3>1. CASE StopRecorded(s) \/ AckRecorded(s)
        BY Zenon, <3>1 DEF StopRecorded, AckRecorded, SameJobs, durable, Earned
    <3>2. CASE EndRecorded(s)
      <4>1. /\ state' = state \/ state' = [state EXCEPT ![at[s]] =
                  IF note[s] = "recovered" THEN "succeeded" ELSE "failed"]
            /\ note[s] = "recovered" => at[s] \in Recoverable
          BY Zenon, <3>2 DEF EndRecorded, SuccessInv
      <4>2. \A j \in Jobs : state'[j] = state[j] \/ state'[j] = "failed" \/ j \in Recoverable
          BY Zenon, <1>1, <4>1
      <4> QED BY Zenon, <4>2 DEF Earned
    <3> QED BY Zenon, <1>16, <3>1, <3>2
  <2>4. /\ pc'[s] \notin {"rtask", "undotask", "closejob"}
        /\ note'[s] = "recovered" => pc'[s] \in PassSteps /\ at'[s] \in Recoverable
      BY Zenon, <2>2 DEF SuccessInv, PassSteps
  <2> QED BY Zenon, <2>1, <2>3, <2>4, SuccessFrame
<1>17. ASSUME NEW s \in Slots, ResolveRecorded(s)
       PROVE  SuccessInv'
  <2>1. /\ Others(s) /\ UNCHANGED <<taskJob, taskState, state, at, mine>>
        /\ pc'[s] = IF taskState[mine[s]] \in Terminal THEN "rjob" ELSE "rtask"
      BY Zenon, <1>1, <1>17 DEF ResolveRecorded, Goto, Others, SameLocal
  <2>2. /\ mine[s] \in Tasks /\ taskJob[mine[s]] = at[s]
        /\ recovery = [t \in Tasks |-> recovery[t]]
      BY Zenon, <1>17 DEF ResolveRecorded, IInv, NameInv, PassSteps, TypeOK, TaskTypes
  <2>3. \/ recovery' = recovery /\ note'[s] # "recovered"
        \/ /\ recovery[mine[s]] # "none"
           /\ \A t \in Tasks : t # mine[s] => recovery'[t] = recovery[t]
      BY Zenon, <1>1, <1>17, <2>2 DEF ResolveRecorded
  <2>4. \A t \in Tasks : recovery[t] # "none" =>
           taskJob[t] \in Recoverable /\ taskState[t] # "absent"
      BY Zenon DEF SuccessInv
  <2>5. \A t \in Tasks : recovery'[t] # "none" =>
           taskJob[t] \in Recoverable /\ taskState[t] # "absent"
      BY Zenon, <2>2, <2>3, <2>4
  <2>6. note'[s] = "recovered" => pc'[s] \in PassSteps /\ at'[s] \in Recoverable
      BY Zenon, <2>1, <2>2, <2>3, <2>4 DEF PassSteps
  <2>7. /\ pc'[s] # "closejob"
        /\ pc'[s] \in {"rtask", "undotask"} => taskState[mine'[s]] # "succeeded"
      BY Zenon, <2>1 DEF Terminal
  <2> QED BY Zenon, <2>1, <2>5, <2>6, <2>7, SuccessMoves DEF Earned
<1>18. ASSUME NEW j \in Jobs, RecoverStaleJob(j) \/ Expire(j) \/ Cancel(j)
       PROVE  SuccessInv'
  <2>1. UNCHANGED <<taskJob, taskState, recovery, pc, at, mine, note>>
      BY Zenon, <1>18 DEF RecoverStaleJob, Expire, Cancel, local, taskVars
  <2>2. Earned
      BY Zenon, <1>1, <1>3, <1>18 DEF RecoverStaleJob, Expire, Cancel, Earned
  <2> QED BY Zenon, <2>1, <2>2, SuccessSame
<1>19. CASE RecoverStaleJobs \/ \E t \in Tasks : ProcessExits(t)
  <2>1. UNCHANGED <<taskJob, taskState, recovery, pc, at, mine, note>>
      BY Zenon, <1>19 DEF RecoverStaleJobs, ProcessExits, local, taskVars
  <2>2. Earned
      BY Zenon, <1>3, <1>19 DEF RecoverStaleJobs, ProcessExits, durable, Earned
  <2> QED BY Zenon, <2>1, <2>2, SuccessSame
<1>20. CASE Crash
  <2>1. /\ UNCHANGED <<taskJob, taskState, recovery, state>>
        /\ \A q \in Slots : pc'[q] = "idle" /\ note'[q] = "none"
      BY Zenon, <1>20 DEF Crash, taskVars
  <2>2. SuccessHasTask'
    <3>1. SUFFICES ASSUME NEW j \in Jobs \ Recoverable, state'[j] = "succeeded"
                   PROVE  \E t \in Tasks : taskJob'[t] = j /\ taskState'[t] = "succeeded"
        BY Zenon, SuccessNext
    <3> QED BY Zenon, <2>1, <3>1 DEF SuccessInv, SuccessHasTask, TasksOf
  <2>3. \A t \in Tasks : recovery'[t] # "none" =>
           taskJob'[t] \in Recoverable /\ taskState'[t] # "absent"
      BY Zenon, <2>1 DEF SuccessInv
  <2> QED BY Zenon, <2>1, <2>2, <2>3 DEF SuccessInv
<1>21. ASSUME NEW s \in Slots, Attempt(s)
       PROVE  SuccessInv'
    BY Zenon, <1>21, <1>4, <1>5, <1>6, <1>7, <1>9, <1>10, <1>11, <1>12, <1>13, <1>14, <1>15,
       NoLateHeartbeat DEF Attempt
<1>22. ASSUME NEW s \in Slots, Pass(s)
       PROVE  SuccessInv'
    BY Zenon, <1>22, <1>8, <1>9, <1>14, <1>16, <1>17 DEF Pass
<1> QED BY Zenon, <1>18, <1>19, <1>20, <1>21, <1>22 DEF Next

(* A job that has succeeded has a task that has, unless it is of the kind   *)
(* whose outcome JARVIS may report later: neither the end of an attempt     *)
(* (_run_job_impl), nor the cleanup of an earlier one, nor the visit of a   *)
(* marker (_reconcile_pending_execution_cleanup) writes a success that no   *)
(* task reached, or takes back that of the task.                            *)
THEOREM LifecycleSuccessHasTask ==
    ASSUME Steady
    PROVE  Spec => []SuccessHasTask
<1>1. Init => SuccessInv
  <2> SUFFICES ASSUME Init PROVE SuccessInv
      BY Zenon
  <2>1. SuccessHasTask
      BY Zenon DEF Init, SuccessHasTask
  <2> QED BY Zenon, <2>1 DEF Init, SuccessInv
<1>2. IInv /\ SuccessInv /\ [Next]_vars => SuccessInv'
  <2>1. ASSUME SuccessInv, UNCHANGED vars PROVE SuccessInv'
    <3>1. UNCHANGED <<state, taskJob, taskState, recovery, pc, at, mine, note>>
        BY Zenon, <2>1 DEF vars, durable, taskVars, local
    <3> QED BY Zenon, <2>1, <3>1, SuccessSame DEF Earned
  <2> QED BY Zenon, <2>1, SuccessStep
<1>3. SuccessInv => SuccessHasTask
    BY Zenon DEF SuccessInv
<1> QED BY <1>1, <1>2, <1>3, LifecycleInvariant, PTL DEF Spec
=============================================================================
