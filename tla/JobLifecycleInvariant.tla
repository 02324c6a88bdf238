----------------------- MODULE JobLifecycleInvariant ------------------------
(***************************************************************************)
(* The types of JobLifecycle, and that terminal states are final, for any  *)
(* number of jobs, slots, tasks, attempts and faults and without any       *)
(* assumption on heartbeats and error handling.                            *)
(*                                                                         *)
(* Then the inductive invariant behind the safety of JobLifecycle, and     *)
(* that every step keeps what it says of identities and of the states of   *)
(* jobs.  Stale recovery and acquisition, which change many jobs at once,  *)
(* keep also what it says of processes.                                    *)
(***************************************************************************)
EXTENDS JobLifecycle, TLAPS

Launched == {"spawn", "gate", "running", "resolve", "closetask", "closejob"}
Named == {"register", "undotask", "undoack", "ackmarker"} \cup Launched

-----------------------------------------------------------------------------
(* The types rest on what a slot carries from step to step: an outcome     *)
(* before it is written, and the task it is about.                         *)
SlotFacts ==
    /\ \A s \in Slots : pc[s] \in {"closetask", "closejob"} => note[s] \in Terminal
    /\ \A s \in Slots : pc[s] \in Named \cup PassSteps => mine[s] \in Tasks

TypeInv == TypeOK /\ SlotFacts

(* Stale recovery keeps the types of what it writes. *)
LEMMA RecoveredTypes ==
    ASSUME JobTypes
    PROVE  /\ RecoveredState \in [Jobs -> JobStates]
           /\ RecoveredHolder \in [Jobs -> Slots \cup {Nobody, Crashed}]
<1>1. state \in [Jobs -> JobStates] /\ holder \in [Jobs -> Slots \cup {Nobody, Crashed}]
  BY Zenon DEF JobTypes
<1>2. "queued" \in JobStates /\ "failed" \in JobStates
  BY Zenon DEF JobStates, Held, Terminal
<1>3. RecoveredState \in [Jobs -> JobStates]
  BY Zenon, <1>1, <1>2 DEF RecoveredState
<1>4. RecoveredHolder \in [Jobs -> Slots \cup {Nobody, Crashed}]
  BY Zenon, <1>1 DEF RecoveredHolder
<1> QED BY Zenon, <1>3, <1>4

(* Every step of every actor keeps the types. *)
LEMMA TypeStep ==
    ASSUME TypeInv, [Next]_vars
    PROVE  TypeInv'
<1>r. /\ RecoveredState \in [Jobs -> JobStates]
      /\ RecoveredHolder \in [Jobs -> Slots \cup {Nobody, Crashed}]
  BY Zenon, RecoveredTypes DEF TypeInv, TypeOK
<1> USE LifecycleAssumption DEF Goto, Stop, Raise, Fault, Mishap, Escape, SameLocal, SameJobs, SameTasks, Leave,
           durable, taskVars, local, vars, Held, Terminal, JobStates, Notes, Steps, WorkSteps,
           RunSteps, UndoSteps, PassSteps, Named, Launched,
           TypeInv, TypeOK, JobTypes, TaskTypes, SlotTypes, SlotFacts
<1>1. CASE RecoverStaleJobs
    BY Zenon, <1>1, <1>r DEF RecoverStaleJobs
<1>2. ASSUME NEW j \in Jobs, RecoverStaleJob(j) \/ Expire(j) \/ Cancel(j)
      PROVE  TypeInv'
  <2>1. CASE RecoverStaleJob(j)
      BY <2>1 DEF RecoverStaleJob, RecoveredState
  <2>2. CASE Expire(j)
      BY <2>2 DEF Expire
  <2>3. CASE Cancel(j)
      BY <2>3 DEF Cancel
  <2> QED BY Zenon, <1>2, <2>1, <2>2, <2>3
<1>3. ASSUME NEW t \in Tasks, ProcessExits(t)
      PROVE  TypeInv'
    BY Zenon, <1>3 DEF ProcessExits
<1>4. ASSUME NEW s \in Slots, Attempt(s)
      PROVE  TypeInv'
  <2>1. CASE Acquire(s)
    <3>1. JobTypes'
      <4>1. RecoveredState \in [Jobs -> JobStates]
          BY Zenon DEF RecoveredState
      <4>2. RecoveredHolder \in [Jobs -> Slots \cup {Nobody, Crashed}]
          BY Zenon DEF RecoveredHolder
      <4>3. PICK j \in Eligible : /\ state' = [RecoveredState EXCEPT ![j] = "leased"]
                                /\ attempts' = [attempts EXCEPT ![j] = @ + 1]
                                /\ holder' = [RecoveredHolder EXCEPT ![j] = s]
          BY Zenon, <2>1 DEF Acquire
      <4>4. state' \in [Jobs -> JobStates] /\ holder' \in [Jobs -> Slots \cup {Nobody, Crashed}]
          BY Zenon, <4>1, <4>2, <4>3
      <4>5. attempts' \in [Jobs -> Nat]
        <5>1. j \in Jobs /\ attempts \in [Jobs -> Nat]
            BY Zenon DEF Eligible
        <5>2. attempts[j] + 1 \in Nat
            BY <5>1
        <5> HIDE DEF TypeInv
        <5> QED BY Zenon, <4>3, <5>1, <5>2
      <4> QED BY Zenon, <2>1, <4>4, <4>5 DEF Acquire
    <3>2. TaskTypes'
        BY Zenon, <2>1 DEF Acquire, Eligible, RecoveredState, RecoveredHolder
    <3>3. SlotTypes'
        BY <2>1 DEF Acquire, Eligible, RecoveredState, RecoveredHolder
    <3>4. SlotFacts'
        BY <2>1 DEF Acquire, Eligible, RecoveredState, RecoveredHolder
    <3> QED BY Zenon, <3>1, <3>2, <3>3, <3>4 DEF TypeInv, TypeOK
  <2>2. CASE CheckCancel(s)
      BY <2>2 DEF CheckCancel
  <2>3. CASE Undo(s)
      BY <2>3 DEF Undo, OpenTasks, TasksOf
  <2>4. CASE UndoTask(s)
      BY <2>4 DEF UndoTask
  <2>5. CASE UndoAck(s)
    <3>1. JobTypes'
        BY Zenon, <2>5 DEF UndoAck
    <3>2. TaskTypes'
        BY Zenon, <2>5 DEF UndoAck
    <3>3. SlotTypes'
        BY Zenon, <2>5 DEF UndoAck
    <3>4. SlotFacts'
        BY <2>5 DEF UndoAck
    <3> QED BY Zenon, <3>1, <3>2, <3>3, <3>4 DEF TypeInv, TypeOK
  <2>6. CASE Acknowledge(s)
      BY <2>6 DEF Acknowledge
  <2>7. CASE Begin(s)
      BY <2>7 DEF Begin
  <2>8. CASE OpenTask(s)
      BY <2>8 DEF OpenTask
  <2>9. CASE Register(s)
    <3>1. JobTypes'
        BY Zenon, <2>9 DEF Register
    <3>2. TaskTypes'
        BY Zenon, <2>9 DEF Register
    <3>3. SlotTypes'
        BY Zenon, <2>9 DEF Register
    <3>4. SlotFacts'
        BY <2>9 DEF Register
    <3> QED BY Zenon, <3>1, <3>2, <3>3, <3>4 DEF TypeInv, TypeOK
  <2>10. CASE Spawn(s)
    <3>1. JobTypes'
        BY Zenon, <2>10 DEF Spawn
    <3>2. TaskTypes'
        BY Zenon, <2>10 DEF Spawn
    <3>3. SlotTypes'
        BY Zenon, <2>10 DEF Spawn
    <3>4. SlotFacts'
        BY <2>10 DEF Spawn
    <3> QED BY Zenon, <3>1, <3>2, <3>3, <3>4 DEF TypeInv, TypeOK
  <2>11. CASE ReleaseGate(s)
      BY <2>11 DEF ReleaseGate
  <2>12. CASE StepFails(s)
      BY <2>12 DEF StepFails
  <2>13. CASE PollExit(s)
      BY <2>13 DEF PollExit
  <2>14. CASE PollCancel(s)
    <3>1. JobTypes'
        BY Zenon, <2>14 DEF PollCancel
    <3>2. TaskTypes'
        BY Zenon, <2>14 DEF PollCancel
    <3>3. SlotTypes'
        BY Zenon, <2>14 DEF PollCancel
    <3>4. SlotFacts'
        BY <2>14 DEF PollCancel
    <3> QED BY Zenon, <3>1, <3>2, <3>3, <3>4 DEF TypeInv, TypeOK
  <2>15. CASE Heartbeat(s)
    <3>1. JobTypes'
        BY Zenon, <2>15 DEF Heartbeat
    <3>2. TaskTypes'
        BY <2>15 DEF Heartbeat
    <3>3. SlotTypes'
        BY <2>15 DEF Heartbeat
    <3>4. SlotFacts'
        BY <2>15 DEF Heartbeat
    <3> QED BY Zenon, <3>1, <3>2, <3>3, <3>4 DEF TypeInv, TypeOK
  <2>16. CASE ObserveScheduler(s)
      BY Zenon, <2>16 DEF ObserveScheduler
  <2>17. CASE PollFails(s)
      BY <2>17 DEF PollFails
  <2>18. CASE Resolve(s)
    <3>1. JobTypes'
        BY Zenon, <2>18 DEF Resolve, Outcomes
    <3>2. TaskTypes'
        BY <2>18 DEF Resolve, Outcomes
    <3>3. SlotTypes'
        BY <2>18 DEF Resolve, Outcomes
    <3>4. SlotFacts'
        BY <2>18 DEF Resolve, Outcomes
    <3> QED BY Zenon, <3>1, <3>2, <3>3, <3>4 DEF TypeInv, TypeOK
  <2>19. CASE ResolveFails(s)
      BY <2>19 DEF ResolveFails
  <2>20. CASE CloseTask(s)
      BY <2>20 DEF CloseTask
  <2>21. CASE CloseJob(s)
      BY <2>21 DEF CloseJob
  <2>22. CASE AckMarker(s)
      BY <2>22 DEF AckMarker
  <2>23. CASE FailTasks(s)
      BY <2>23 DEF FailTasks
  <2>24. CASE FailJob(s)
      BY <2>24 DEF FailJob
  <2>25. CASE ReleaseLease(s)
    <3>1. JobTypes'
      <4>1. /\ \/ holder' = holder
               \/ \E v \in {Nobody, Crashed} : holder' = [holder EXCEPT ![at[s]] = v]
            /\ expired' \subseteq expired
          BY Zenon, <2>25 DEF ReleaseLease
      <4>3. holder' \in [Jobs -> Slots \cup {Nobody, Crashed}] /\ expired' \subseteq Jobs
          BY <4>1
      <4>2. faults' \in 0..MaxFaults
          BY <2>25 DEF ReleaseLease
      <4> QED BY Zenon, <2>25, <4>2, <4>3 DEF ReleaseLease
    <3>2. TaskTypes'
        BY Zenon, <2>25 DEF ReleaseLease
    <3>3. SlotTypes'
        BY <2>25 DEF ReleaseLease
    <3>4. SlotFacts'
        BY <2>25 DEF ReleaseLease
    <3> QED BY Zenon, <3>1, <3>2, <3>3, <3>4 DEF TypeInv, TypeOK
  <2> HIDE DEF TypeInv
  <2> QED
      BY Zenon, <1>4, <2>1, <2>2, <2>3, <2>4, <2>5, <2>6, <2>7, <2>8, <2>9, <2>10, <2>11, <2>12,
         <2>13, <2>14, <2>15, <2>16, <2>17, <2>18, <2>19, <2>20, <2>21, <2>22, <2>23, <2>24,
         <2>25
      DEF Attempt
<1>5. ASSUME NEW s \in Slots, Pass(s)
      PROVE  TypeInv'
  <2>1. CASE StartPass(s)
    <3>1. JobTypes'
        BY Zenon, <1>r, <2>1 DEF StartPass
    <3>2. TaskTypes' /\ SlotTypes'
        BY <2>1 DEF StartPass
    <3>3. SlotFacts'
        BY <2>1 DEF StartPass
    <3> HIDE DEF JobTypes, TaskTypes, SlotTypes, SlotFacts
    <3> QED BY Zenon, <3>1, <3>2, <3>3 DEF TypeInv, TypeOK
  <2>2. CASE ScanMarkers(s)
      BY <2>2 DEF ScanMarkers
  <2>3. CASE PickMarker(s)
      BY <2>3 DEF PickMarker
  <2>4. CASE EndPass(s)
      BY <2>4 DEF EndPass
  <2>5. CASE VisitFails(s)
      BY <2>5 DEF VisitFails
  <2>6. CASE StopRecorded(s)
      BY <2>6 DEF StopRecorded
  <2>7. CASE ResolveRecorded(s)
    <3>1. JobTypes'
        BY Zenon, <2>7 DEF ResolveRecorded
    <3>2. TaskTypes'
        BY <2>7 DEF ResolveRecorded
    <3>3. SlotTypes'
        BY <2>7 DEF ResolveRecorded
    <3>4. SlotFacts'
        BY <2>7 DEF ResolveRecorded
    <3> QED BY Zenon, <3>1, <3>2, <3>3, <3>4 DEF TypeInv, TypeOK
  <2>8. CASE CloseRecorded(s)
      BY <2>8 DEF CloseRecorded
  <2>9. CASE EndRecorded(s)
      BY <2>9 DEF EndRecorded
  <2>10. CASE AckRecorded(s)
    <3>1. JobTypes'
        BY Zenon, <2>10 DEF AckRecorded
    <3>2. TaskTypes'
        BY <2>10 DEF AckRecorded
    <3>3. SlotTypes'
        BY <2>10 DEF AckRecorded
    <3>4. SlotFacts'
        BY <2>10 DEF AckRecorded
    <3> QED BY Zenon, <3>1, <3>2, <3>3, <3>4 DEF TypeInv, TypeOK
  <2>11. CASE CancelRecorded(s)
    <3>1. JobTypes'
        BY Zenon, <2>11 DEF CancelRecorded
    <3>2. TaskTypes'
        BY Zenon, <2>11 DEF CancelRecorded
    <3>3. SlotTypes'
        BY Zenon, <2>11 DEF CancelRecorded
    <3>4. SlotFacts'
        BY <2>11 DEF CancelRecorded
    <3> QED BY Zenon, <3>1, <3>2, <3>3, <3>4 DEF TypeInv, TypeOK
  <2> HIDE DEF TypeInv
  <2> QED
      BY Zenon, <1>5, <2>1, <2>2, <2>3, <2>4, <2>5, <2>6, <2>7, <2>8, <2>9, <2>10, <2>11
      DEF Pass
<1>6. CASE Crash
    BY <1>6 DEF Crash
<1>7. CASE UNCHANGED vars
    BY Zenon, <1>7
<1> HIDE DEF TypeInv, vars
<1> QED BY Zenon, <1>1, <1>2, <1>3, <1>4, <1>5, <1>6, <1>7 DEF Next

(* Spec => []TypeOK: whatever fails, expires or overlaps, every record and  *)
(* every slot keeps its type.  The outcome a slot writes is always one it   *)
(* has resolved, and the task it closes, marks or stops is one it opened.   *)
THEOREM LifecycleTypeCorrect == Spec => []TypeOK
<1>1. Init => TypeInv
    BY LifecycleAssumption DEF Init, TypeInv, TypeOK, JobTypes, TaskTypes, SlotTypes, SlotFacts, JobStates,
           Steps, Notes, Named, Launched, PassSteps
<1>2. TypeInv /\ [Next]_vars => TypeInv'
    BY Zenon, TypeStep
<1>3. TypeInv => TypeOK
    BY Zenon DEF TypeInv
<1> QED BY <1>1, <1>2, <1>3, PTL DEF Spec

-----------------------------------------------------------------------------
(* No step of any actor changes a terminal state. *)
LEMMA TerminalStep ==
    ASSUME TypeOK, Next
    PROVE  \A i \in Jobs : state[i] \in Terminal => state'[i] = state[i]
<1> USE DEF Goto, Raise, Escape, SameJobs, Leave, durable, local, Held, Terminal, JobStates,
           TypeOK, JobTypes
<1>1. CASE RecoverStaleJobs
    BY Zenon, <1>1 DEF RecoverStaleJobs, RecoveredState
<1>2. ASSUME NEW j \in Jobs, RecoverStaleJob(j) \/ Expire(j) \/ Cancel(j)
      PROVE  \A i \in Jobs : state[i] \in Terminal => state'[i] = state[i]
  <2>1. CASE RecoverStaleJob(j)
      BY Zenon, <2>1 DEF RecoverStaleJob, RecoveredState
  <2>2. CASE Expire(j)
      BY Zenon, <2>2 DEF Expire
  <2>3. CASE Cancel(j)
      BY Zenon, <2>3 DEF Cancel
  <2> QED BY Zenon, <1>2, <2>1, <2>2, <2>3
<1>3. ASSUME NEW t \in Tasks, ProcessExits(t)
      PROVE  \A i \in Jobs : state[i] \in Terminal => state'[i] = state[i]
    BY Zenon, <1>3 DEF ProcessExits
<1>4. ASSUME NEW s \in Slots, Attempt(s)
      PROVE  \A i \in Jobs : state[i] \in Terminal => state'[i] = state[i]
  <2>1. CASE Acquire(s)
      BY Zenon, <2>1 DEF Acquire, RecoveredState, Eligible
  <2>2. CASE Undo(s)
      BY Zenon, <2>2 DEF Undo
  <2>3. CASE UndoAck(s)
      BY Zenon, <2>3 DEF UndoAck
  <2>4. CASE Acknowledge(s)
      BY Zenon, <2>4 DEF Acknowledge, CanAcknowledge
  <2>5. CASE Begin(s)
      BY Zenon, <2>5 DEF Begin, CanWrite
  <2>6. CASE OpenTask(s)
      BY Zenon, <2>6 DEF OpenTask
  <2>7. CASE Register(s)
      BY Zenon, <2>7 DEF Register
  <2>8. CASE Spawn(s)
      BY Zenon, <2>8 DEF Spawn
  <2>9. CASE ReleaseGate(s)
      BY Zenon, <2>9 DEF ReleaseGate
  <2>10. CASE StepFails(s)
      BY Zenon, <2>10 DEF StepFails
  <2>11. CASE CloseJob(s)
      BY Zenon, <2>11 DEF CloseJob, CanWrite, CanAcknowledge
  <2>12. CASE FailTasks(s)
      BY Zenon, <2>12 DEF FailTasks
  <2>13. CASE FailJob(s)
      BY Zenon, <2>13 DEF FailJob, CanWrite
  <2>14. CASE ReleaseLease(s)
      BY Zenon, <2>14 DEF ReleaseLease
  <2>15. CASE CheckCancel(s) \/ UndoTask(s) \/ PollExit(s) \/ PollCancel(s)
      BY Zenon, <2>15 DEF CheckCancel, UndoTask, PollExit, PollCancel
  <2>16. CASE Heartbeat(s) \/ ObserveScheduler(s) \/ PollFails(s) \/ Resolve(s)
      BY Zenon, <2>16 DEF Heartbeat, ObserveScheduler, PollFails, Resolve
  <2>17. CASE ResolveFails(s) \/ CloseTask(s) \/ AckMarker(s)
      BY Zenon, <2>17 DEF ResolveFails, CloseTask, AckMarker
  <2> HIDE DEF TypeOK
  <2> QED
      BY Zenon, <1>4, <2>1, <2>2, <2>3, <2>4, <2>5, <2>6, <2>7, <2>8, <2>9, <2>10, <2>11, <2>12,
         <2>13, <2>14, <2>15, <2>16, <2>17
      DEF Attempt
<1>5. ASSUME NEW s \in Slots, Pass(s)
      PROVE  \A i \in Jobs : state[i] \in Terminal => state'[i] = state[i]
  <2>1. CASE StartPass(s)
      BY Zenon, <2>1 DEF StartPass, RecoveredState
  <2>2. CASE PickMarker(s)
      BY Zenon, <2>2 DEF PickMarker
  <2>3. CASE EndRecorded(s)
      BY Zenon, <2>3 DEF EndRecorded
  <2>4. CASE ScanMarkers(s) \/ EndPass(s) \/ VisitFails(s) \/ StopRecorded(s)
      BY Zenon, <2>4 DEF ScanMarkers, EndPass, VisitFails, StopRecorded
  <2>5. CASE ResolveRecorded(s) \/ CloseRecorded(s) \/ AckRecorded(s) \/ CancelRecorded(s)
      BY Zenon, <2>5 DEF ResolveRecorded, CloseRecorded, AckRecorded, CancelRecorded, CanAcknowledge
  <2> HIDE DEF TypeOK
  <2> QED
      BY Zenon, <1>5, <2>1, <2>2, <2>3, <2>4, <2>5
      DEF Pass
<1>6. CASE Crash
    BY Zenon, <1>6 DEF Crash
<1> HIDE DEF TypeOK
<1> QED BY Zenon, <1>1, <1>2, <1>3, <1>4, <1>5, <1>6 DEF Next

(* Spec => TerminalIsFinal: a late writer (update_job_state), a cancellation *)
(* (acknowledge_job_cancellation), a stale plan or a repeated cleanup never   *)
(* overwrites a terminal state, also when leases are lost and errors pile up. *)
THEOREM LifecycleTerminalIsFinal == Spec => TerminalIsFinal
<1>1. TypeOK /\ [Next]_vars
        => [\A j \in Jobs : state[j] \in Terminal => state'[j] = state[j]]_vars
    BY Zenon, TerminalStep
<1> QED BY <1>1, LifecycleTypeCorrect, PTL DEF Spec, TerminalIsFinal

-----------------------------------------------------------------------------
(* The daemon the safety theorems are about: a live slot renews its lease  *)
(* in time, and an error does not hit the handling of another error.       *)
Steady == Slow = {} /\ Mishaps = {}

Fresh == {"leased", "begin", "opentask", "register"} \cup UndoSteps
Ending == {"failtasks", "failjob", "release"}
Visit == PassSteps \ {"rcancel"}

(* Leases: only a dead endpoint's lease expires, a queued job has none, and *)
(* a working slot holds the lease of its job.                              *)
LeaseInv ==
    /\ \A j \in expired : holder[j] = Crashed
    /\ \A j \in Jobs : state[j] = "queued" => holder[j] = Nobody
    /\ \A s \in Slots : pc[s] \in WorkSteps => at[s] \in Jobs /\ holder[at[s]] = s

(* Identities: a task named anywhere has been opened, and the task of a    *)
(* slot belongs to the slot's job.                                         *)
NameInv ==
    /\ \A t \in Tasks : taskState[t] = "absent" =>
        t \notin markers \cup batch \cup proven /\ proc[t] = "none"
    /\ \A t \in markers \cup batch : taskJob[t] \in Jobs
    /\ \A s \in Slots : pc[s] \in Named \cup PassSteps =>
        mine[s] \in Tasks /\ taskJob[mine[s]] = at[s] /\ taskState[mine[s]] # "absent"
    /\ \A s \in Slots : pc[s] = "register" => mine[s] \notin proven
    /\ \A s \in Slots : pc[s] \in {"closetask", "closejob"} => note[s] \in Terminal
    /\ \A s \in Slots : pc[s] \in {"scan", "pick"} \cup PassSteps => s = Reconciler
    /\ \A s \in Slots : pc[s] \in PassSteps => at[s] \in Jobs /\ mine[s] \notin batch

(* Markers: one per job, none before the attempt registers its own, and    *)
(* none that was already reported clean.                                   *)
MarkerInv ==
    /\ \A t, u \in markers : taskJob[t] = taskJob[u] => t = u
    /\ \A s \in Slots : pc[s] \in Fresh => ~Marked(at[s])
    /\ \A s \in Slots : pc[s] \in Launched => mine[s] \in markers
    /\ markers \cap proven = {}

(* Jobs: running from the launch to the outcome, ended at a release that   *)
(* leaves nothing to query.                                                *)
StateInv ==
    /\ \A s \in Slots : pc[s] \in Launched \cup {"opentask", "register"}
        => state[at[s]] = "running"
    /\ \A s \in Slots : pc[s] = "ackmarker" /\ note[s] # "error"
        => state[at[s]] \in Terminal
    /\ \A s \in Slots : pc[s] = "release" /\ note[s] # "unresolved"
        => state[at[s]] \in Terminal
    /\ \A t \in batch \ markers :
        \/ state[taskJob[t]] \in Terminal
        \/ \E s \in Slots : /\ holder[taskJob[t]] = s /\ at[s] = taskJob[t]
                            /\ pc[s] \in Ending /\ note[s] # "unresolved"

(* Processes: each is recorded, marked, and watched by its slot or left    *)
(* behind by a crash.                                                      *)
ProcessInv ==
    /\ \A t \in Alive :
        /\ t \in markers /\ t \in owned /\ state[taskJob[t]] = "running"
        /\ \/ holder[taskJob[t]] = Crashed
           \/ \E s \in Slots : /\ holder[taskJob[t]] = s
                               /\ mine[s] = t /\ pc[s] \in {"gate", "running"}
    /\ \A s \in Slots : pc[s] = "gate" => proc[mine[s]] \in {"gated", "dead"}

(* Visits: nobody holds the visited job, and what the visit has stopped    *)
(* stays stopped until the cancellation is acknowledged.                   *)
VisitInv ==
    /\ \A s \in Slots : pc[s] \in Visit =>
        /\ holder[at[s]] \notin Slots
        /\ mine[s] \in markers \/ state[at[s]] \in Terminal
    /\ \A s \in Slots : pc[s] \in Visit \ {"rstop"} => mine[s] \notin Alive
    /\ \A s \in Slots : pc[s] \in PassSteps /\ seen[s] = "cancel" => at[s] \in cancel
    /\ \A s \in Slots : pc[s] = "rcancel" =>
        /\ at[s] \in cancel
        /\ \A t \in Alive : taskJob[t] # at[s]
        /\ \A r \in Slots : pc[r] \in WorkSteps /\ at[r] = at[s]
              => pc[r] \in {"leased"} \cup UndoSteps \cup Ending

IInv == TypeOK /\ LeaseInv /\ NameInv /\ MarkerInv /\ StateInv /\ ProcessInv /\ VisitInv

(* The markers of a lease are no slots. *)
LEMMA Holders == /\ Reconciler \in Slots
                 /\ Nobody \notin Slots /\ Crashed \notin Slots /\ Nobody # Crashed
BY Zenon, LifecycleAssumption

USE Holders


(* A heartbeat thread that keeps its pace finds its lease unexpired: it     *)
(* neither revives a lease nor has to stop its process.                     *)
LEMMA NoLateHeartbeat ==
    ASSUME Steady, IInv, NEW s \in Slots
    PROVE  ~Heartbeat(s)
BY Zenon DEF Heartbeat, IInv, LeaseInv, WorkSteps, RunSteps

-----------------------------------------------------------------------------
(* Facts the steps share. *)

(* What stale recovery does to one job: it leaves every job alone that a   *)
(* slot holds or that has ended, and a running job with a marker.          *)
LEMMA RecoveryFrame ==
    ASSUME IInv, NEW j \in Jobs
    PROVE  /\ holder[j] \in Slots \/ RecoveredHolder[j] \in Slots
                => RecoveredHolder[j] = holder[j] /\ RecoveredState[j] = state[j]
           /\ RecoveredHolder[j] \in {holder[j], Nobody}
           /\ state[j] \in Terminal => RecoveredState[j] = state[j]
           /\ RecoveredState[j] = "queued" => RecoveredHolder[j] = Nobody
           /\ Marked(j) => RecoveredState[j] = state[j]
           /\ Marked(j) /\ state[j] \in Held => RecoveredHolder[j] = holder[j]
           /\ j \in expired \ Reclaimed => RecoveredHolder[j] = Crashed
<1>1. j \in expired => holder[j] = Crashed
    BY Zenon DEF IInv, LeaseInv
<1>2. state[j] = "queued" => holder[j] = Nobody
    BY Zenon DEF IInv, LeaseInv
<1>3. state[j] \in JobStates
    BY Zenon DEF IInv, TypeOK, JobTypes
<1>4. CASE j \in Reclaimed
    BY Zenon, <1>1, <1>2, <1>3, <1>4
       DEF Reclaimed, RecoveredState, RecoveredHolder, Held, Terminal, JobStates
<1>5. CASE j \notin Reclaimed
    BY Zenon, <1>1, <1>2, <1>3, <1>5
       DEF RecoveredState, RecoveredHolder, Held, Terminal, JobStates
<1> QED BY Zenon, <1>4, <1>5

(* Stale recovery, alone or before a pass, keeps what StateInv and ProcessInv say. *)
LEMMA RecoveryStep ==
    ASSUME IInv,
           state' = RecoveredState, holder' = RecoveredHolder, expired' = expired \ Reclaimed,
           UNCHANGED <<cancel, taskJob, markers, owned, proc, at, mine, note, seen, batch>>,
           \A q \in Slots : pc'[q] = pc[q] \/ (pc[q] = "idle" /\ pc'[q] = "scan")
    PROVE  StateInv' /\ ProcessInv'
<1>1. \A q \in Slots : pc'[q] \in WorkSteps \cup PassSteps => pc'[q] = pc[q]
    BY Zenon DEF WorkSteps, RunSteps, UndoSteps, PassSteps
<1>2. \A q \in Slots : pc[q] \in WorkSteps => at[q] \in Jobs /\ holder[at[q]] = q
    BY Zenon DEF IInv, LeaseInv
<1>3. ASSUME NEW q \in Slots, pc[q] \in WorkSteps
      PROVE  state'[at[q]] = state[at[q]] /\ holder'[at[q]] = q
  <2>1. at[q] \in Jobs /\ holder[at[q]] = q
      BY Zenon, <1>2, <1>3
  <2> QED BY Zenon, <2>1, RecoveryFrame
<1>4. Alive' = Alive
    BY Zenon DEF Alive
<1>5. \A t \in markers \cup batch : taskJob[t] \in Jobs
    BY Zenon DEF IInv, NameInv
<1>6. StateInv'
  <2>1. ASSUME NEW q \in Slots
        PROVE  /\ pc'[q] \in Launched \cup {"opentask", "register"} => state'[at[q]] = "running"
               /\ pc'[q] = "ackmarker" /\ note[q] # "error" => state'[at[q]] \in Terminal
               /\ pc'[q] = "release" /\ note[q] # "unresolved" => state'[at[q]] \in Terminal
      BY <1>1, <1>3 DEF IInv, StateInv, Launched, WorkSteps, RunSteps, UndoSteps
  <2>2. ASSUME NEW t \in batch \ markers
        PROVE  \/ state'[taskJob[t]] \in Terminal
               \/ \E q \in Slots : /\ holder'[taskJob[t]] = q /\ at[q] = taskJob[t]
                                   /\ pc'[q] \in Ending /\ note[q] # "unresolved"
    <3>1. CASE state[taskJob[t]] \in Terminal
        BY Zenon, <1>5, <2>2, <3>1, RecoveryFrame
    <3>2. CASE \E q \in Slots : /\ holder[taskJob[t]] = q /\ at[q] = taskJob[t]
                                /\ pc[q] \in Ending /\ note[q] # "unresolved"
        BY <1>3, <3>2 DEF Ending, WorkSteps, RunSteps, UndoSteps
    <3> QED BY Zenon, <3>1, <3>2 DEF IInv, StateInv
  <2> QED BY <2>1, <2>2 DEF StateInv
<1>7. ProcessInv'
  <2>1. ASSUME NEW t \in Alive
        PROVE  /\ t \in markers /\ t \in owned /\ state'[taskJob[t]] = "running"
               /\ \/ holder'[taskJob[t]] = Crashed
                  \/ \E q \in Slots : /\ holder'[taskJob[t]] = q
                                      /\ mine[q] = t /\ pc'[q] \in {"gate", "running"}
    <3>1. t \in markers /\ t \in owned /\ state[taskJob[t]] = "running"
        BY Zenon, <2>1 DEF IInv, ProcessInv
    <3>2. taskJob[t] \in Jobs /\ Marked(taskJob[t])
        BY Zenon, <1>5, <3>1 DEF Marked, TasksOf, IInv, TypeOK, TaskTypes
    <3>3. state'[taskJob[t]] = state[taskJob[t]] /\ holder'[taskJob[t]] = holder[taskJob[t]]
        BY Zenon, <3>1, <3>2, RecoveryFrame DEF Held
    <3>4. \/ holder[taskJob[t]] = Crashed
          \/ \E q \in Slots : /\ holder[taskJob[t]] = q
                              /\ mine[q] = t /\ pc[q] \in {"gate", "running"}
        BY Zenon, <2>1 DEF IInv, ProcessInv
    <3>5. \A q \in Slots : pc[q] \in {"gate", "running"} => pc'[q] = pc[q]
        BY Zenon
    <3> QED BY Zenon, <3>1, <3>3, <3>4, <3>5
  <2>2. \A q \in Slots : pc'[q] = "gate" => proc[mine[q]] \in {"gated", "dead"}
      BY <1>1 DEF IInv, ProcessInv, WorkSteps, RunSteps, UndoSteps
  <2> QED BY <1>4, <2>1, <2>2 DEF ProcessInv
<1> QED BY Zenon, <1>6, <1>7

(* An acquisition keeps them too: the job it leases is one that nobody     *)
(* holds or executes.                                                      *)
LEMMA AcquireStep ==
    ASSUME IInv, NEW s \in Slots, Acquire(s)
    PROVE  StateInv' /\ ProcessInv'
<1>1. /\ pc[s] = "idle" /\ pc'[s] = "leased"
      /\ \A q \in Slots : q # s => pc'[q] = pc[q] /\ at'[q] = at[q]
      /\ expired' = expired \ Reclaimed
      /\ UNCHANGED <<cancel, taskJob, markers, owned, proc, mine, note, seen, batch>>
    BY Zenon DEF Acquire, taskVars, IInv, TypeOK, SlotTypes
<1>2. PICK j \in Eligible :
          /\ state' = [RecoveredState EXCEPT ![j] = "leased"]
          /\ holder' = [RecoveredHolder EXCEPT ![j] = s]
          /\ at' = [at EXCEPT ![s] = j]
    BY Zenon DEF Acquire
<1>3. j \in Jobs /\ RecoveredState[j] = "queued" /\ RecoveredHolder[j] = Nobody /\ ~Marked(j)
    BY Zenon, <1>2, RecoveryFrame DEF Eligible
<1>4. /\ state'[j] = "leased" /\ holder'[j] = s /\ at'[s] = j
      /\ \A i \in Jobs : i # j => state'[i] = RecoveredState[i] /\ holder'[i] = RecoveredHolder[i]
    BY Zenon, <1>2, <1>3 DEF RecoveredState, RecoveredHolder, IInv, TypeOK, SlotTypes
<1>5. ASSUME NEW q \in Slots, pc[q] \in WorkSteps
      PROVE  /\ at[q] \in Jobs /\ at[q] # j
             /\ state'[at[q]] = state[at[q]] /\ holder'[at[q]] = q
  <2>1. at[q] \in Jobs /\ holder[at[q]] = q
      BY Zenon, <1>5 DEF IInv, LeaseInv
  <2>2. RecoveredHolder[at[q]] = q /\ RecoveredState[at[q]] = state[at[q]]
      BY Zenon, <2>1, RecoveryFrame
  <2> QED BY Zenon, <1>3, <1>4, <2>1, <2>2
<1>6. \A t \in markers : taskJob[t] \in Jobs /\ Marked(taskJob[t]) /\ taskJob[t] # j
    BY Zenon, <1>3 DEF IInv, NameInv, Marked, TasksOf, TypeOK, TaskTypes
<1>7. ASSUME NEW i \in Jobs, state[i] \in Terminal
      PROVE  i # j /\ state'[i] = state[i]
    BY Zenon, <1>3, <1>4, <1>7, RecoveryFrame DEF Terminal
<1>8. Alive' = Alive
    BY Zenon, <1>1 DEF Alive
<1>9. StateInv'
  <2>1. ASSUME NEW q \in Slots
        PROVE  /\ pc'[q] \in Launched \cup {"opentask", "register"} => state'[at'[q]] = "running"
               /\ pc'[q] = "ackmarker" /\ note[q] # "error" => state'[at'[q]] \in Terminal
               /\ pc'[q] = "release" /\ note[q] # "unresolved" => state'[at'[q]] \in Terminal
    <3>1. CASE q = s
        BY Zenon, <1>1, <3>1 DEF Launched
    <3>2. CASE q # s
        BY <1>1, <1>5, <3>2 DEF IInv, StateInv, Launched, WorkSteps, RunSteps, UndoSteps
    <3> QED BY Zenon, <3>1, <3>2
  <2>2. ASSUME NEW t \in batch \ markers
        PROVE  \/ state'[taskJob[t]] \in Terminal
               \/ \E q \in Slots : /\ holder'[taskJob[t]] = q /\ at'[q] = taskJob[t]
                                   /\ pc'[q] \in Ending /\ note[q] # "unresolved"
    <3>1. CASE state[taskJob[t]] \in Terminal
        BY Zenon, <1>7, <2>2, <3>1 DEF IInv, NameInv
    <3>2. ASSUME NEW q \in Slots, holder[taskJob[t]] = q, at[q] = taskJob[t],
                 pc[q] \in Ending, note[q] # "unresolved"
          PROVE  holder'[taskJob[t]] = q /\ at'[q] = taskJob[t] /\ pc'[q] \in Ending
        BY Zenon, <1>1, <1>5, <3>2 DEF Ending, WorkSteps, RunSteps, UndoSteps
    <3> QED BY <3>1, <3>2 DEF IInv, StateInv
  <2> QED BY <1>1, <2>1, <2>2 DEF StateInv
<1>10. ProcessInv'
  <2>1. ASSUME NEW t \in Alive
        PROVE  /\ t \in markers /\ t \in owned /\ state'[taskJob[t]] = "running"
               /\ \/ holder'[taskJob[t]] = Crashed
                  \/ \E q \in Slots : /\ holder'[taskJob[t]] = q
                                      /\ mine[q] = t /\ pc'[q] \in {"gate", "running"}
    <3>1. t \in markers /\ t \in owned /\ state[taskJob[t]] = "running"
        BY Zenon, <2>1 DEF IInv, ProcessInv
    <3>2. state'[taskJob[t]] = state[taskJob[t]] /\ holder'[taskJob[t]] = holder[taskJob[t]]
        BY Zenon, <1>4, <1>6, <3>1, RecoveryFrame DEF Held
    <3>3. \/ holder[taskJob[t]] = Crashed
          \/ \E q \in Slots : /\ holder[taskJob[t]] = q
                              /\ mine[q] = t /\ pc[q] \in {"gate", "running"}
        BY Zenon, <2>1 DEF IInv, ProcessInv
    <3>4. \A q \in Slots : pc[q] \in {"gate", "running"} => pc'[q] = pc[q]
        BY Zenon, <1>1
    <3> QED BY Zenon, <3>1, <3>2, <3>3, <3>4
  <2>2. \A q \in Slots : pc'[q] = "gate" => proc[mine[q]] \in {"gated", "dead"}
    <3>1. \A q \in Slots : pc'[q] = "gate" => pc[q] = "gate"
        BY Zenon, <1>1
    <3> QED BY Zenon, <3>1 DEF IInv, ProcessInv
  <2> QED BY Zenon, <1>1, <1>8, <2>1, <2>2 DEF ProcessInv
<1> QED BY Zenon, <1>9, <1>10

-----------------------------------------------------------------------------
(* A step that only moves a slot on, with its note, and may stop or close  *)
(* tasks already open, names nothing new.                                  *)
LEMMA NameFrame ==
    ASSUME TypeOK, NameInv, NEW s \in Slots, NEW step, Goto(s, step),
           taskJob' = taskJob, at' = at, mine' = mine, batch' = batch,
           proven' = proven, markers' \subseteq markers,
           \A t \in Tasks : taskState[t] # "absent" => taskState'[t] # "absent",
           \A t \in Tasks : proc'[t] = proc[t] \/ taskState[t] # "absent",
           \A q \in Slots : q # s => note'[q] = note[q],
           step \in Named \cup PassSteps => pc[s] \in Named \cup PassSteps,
           step \in PassSteps => pc[s] \in PassSteps,
           step \in {"scan", "pick"} => pc[s] \in {"scan", "pick"},
           step # "register",
           step \in {"closetask", "closejob"} => note'[s] \in Terminal
    PROVE  NameInv'
<1>1. pc'[s] = step /\ \A q \in Slots : q # s => pc'[q] = pc[q]
    BY Zenon DEF Goto, TypeOK, SlotTypes
<1>2. \A t \in Tasks : taskState'[t] = "absent" =>
          t \notin markers' \cup batch' \cup proven' /\ proc'[t] = "none"
    BY Zenon DEF NameInv
<1>3. \A t \in markers' \cup batch' : taskJob'[t] \in Jobs
    BY Zenon DEF NameInv
<1>4. \A q \in Slots : pc'[q] \in Named \cup PassSteps =>
          mine'[q] \in Tasks /\ taskJob'[mine'[q]] = at'[q] /\ taskState'[mine'[q]] # "absent"
    BY Zenon, <1>1 DEF NameInv
<1>5. \A q \in Slots : pc'[q] = "register" => mine'[q] \notin proven'
    BY Zenon, <1>1 DEF NameInv
<1>6. \A q \in Slots : pc'[q] \in {"closetask", "closejob"} => note'[q] \in Terminal
    BY Zenon, <1>1 DEF NameInv
<1>7. \A q \in Slots : pc'[q] \in {"scan", "pick"} \cup PassSteps => q = Reconciler
    BY Zenon, <1>1 DEF NameInv
<1>8. \A q \in Slots : pc'[q] \in PassSteps => at'[q] \in Jobs /\ mine'[q] \notin batch'
    BY Zenon, <1>1 DEF NameInv
<1> QED BY Zenon, <1>2, <1>3, <1>4, <1>5, <1>6, <1>7, <1>8 DEF NameInv

(* What a slot does to the task it names touches a task already open.      *)
LEMMA OwnTask ==
    ASSUME TypeOK, NameInv, NEW s \in Slots, pc[s] \in Named \cup PassSteps, NEW v
    PROVE  /\ proc' = [proc EXCEPT ![mine[s]] = v] =>
                \A t \in Tasks : proc'[t] = proc[t] \/ taskState[t] # "absent"
           /\ taskState' = [taskState EXCEPT ![mine[s]] = v] /\ v # "absent" =>
                \A t \in Tasks : taskState[t] # "absent" => taskState'[t] # "absent"
<1>1. mine[s] \in Tasks /\ taskState[mine[s]] # "absent"
    BY Zenon DEF NameInv
<1>2. /\ proc = [t \in Tasks |-> proc[t]]
      /\ taskState = [t \in Tasks |-> taskState[t]]
    BY Zenon DEF TypeOK, TaskTypes
<1> QED BY Zenon, <1>1, <1>2

(* A working slot is the only one at its job, for it holds the lease.      *)
LEMMA AloneAtWork ==
    ASSUME LeaseInv, NEW s \in Slots, pc[s] \in WorkSteps
    PROVE  /\ at[s] \in Jobs /\ holder[at[s]] = s
           /\ \A q \in Slots : pc[q] \in WorkSteps /\ at[q] = at[s] => q = s
<1>1. \A q \in Slots : pc[q] \in WorkSteps => at[q] \in Jobs /\ holder[at[q]] = q
  BY Zenon DEF LeaseInv
<1> QED BY Zenon, <1>1

(* A marked task was opened for a job. *)
LEMMA MarkedTasks ==
    ASSUME TypeOK, NameInv, NEW M, M \subseteq markers
    PROVE  \A t \in M : taskState[t] # "absent" /\ taskJob[t] \in Jobs
<1>1. \A t \in markers : t \in Tasks
    BY Zenon DEF TypeOK, TaskTypes
<1>2. \A t \in markers : taskState[t] # "absent" /\ taskJob[t] \in Jobs
    BY Zenon, <1>1 DEF NameInv
<1> QED BY Zenon, <1>2

(* A slot that takes up or drops its job and task keeps the identities when *)
(* it marks and reports only tasks that were opened.                       *)
LEMMA NameMove ==
    ASSUME TypeOK, NameInv, NEW s \in Slots, NEW step, Goto(s, step),
           taskJob' = taskJob, taskState' = taskState, proc' = proc, batch' = batch,
           \A q \in Slots : q # s => at'[q] = at[q] /\ mine'[q] = mine[q] /\ note'[q] = note[q],
           \A t \in markers' : taskState[t] # "absent" /\ taskJob[t] \in Jobs,
           \A t \in proven' : t \in proven \/ taskState[t] # "absent",
           \A q \in Slots : q # s /\ pc[q] = "register" => mine[q] \notin proven',
           step \in Named \cup PassSteps =>
               pc[s] \in Named \cup PassSteps /\ at'[s] = at[s] /\ mine'[s] = mine[s],
           step \in PassSteps => pc[s] \in PassSteps,
           step \in {"scan", "pick"} => s = Reconciler,
           step \notin {"register", "closetask", "closejob"}
    PROVE  NameInv'
<1>1. pc'[s] = step /\ \A q \in Slots : q # s => pc'[q] = pc[q]
    BY Zenon DEF Goto, TypeOK, SlotTypes
<1>2. \A t \in Tasks : taskState'[t] = "absent" =>
          t \notin markers' \cup batch' \cup proven' /\ proc'[t] = "none"
    BY Zenon DEF NameInv
<1>3. \A t \in markers' \cup batch' : taskJob'[t] \in Jobs
    BY Zenon DEF NameInv
<1>4. ASSUME NEW q \in Slots, pc'[q] \in Named \cup PassSteps
      PROVE  mine'[q] \in Tasks /\ taskJob'[mine'[q]] = at'[q] /\ taskState'[mine'[q]] # "absent"
  <2>1. pc[q] \in Named \cup PassSteps /\ at'[q] = at[q] /\ mine'[q] = mine[q]
      BY Zenon, <1>1, <1>4
  <2>2. mine[q] \in Tasks /\ taskJob[mine[q]] = at[q] /\ taskState[mine[q]] # "absent"
      BY Zenon, <2>1 DEF NameInv
  <2> QED BY Zenon, <2>1, <2>2
<1>5. \A q \in Slots : pc'[q] = "register" => mine'[q] \notin proven'
    BY Zenon, <1>1
<1>6. \A q \in Slots : pc'[q] \in {"closetask", "closejob"} => note'[q] \in Terminal
    BY Zenon, <1>1 DEF NameInv
<1>7. \A q \in Slots : pc'[q] \in {"scan", "pick"} \cup PassSteps => q = Reconciler
    BY Zenon, <1>1 DEF NameInv
<1>8. ASSUME NEW q \in Slots, pc'[q] \in PassSteps
      PROVE  at'[q] \in Jobs /\ mine'[q] \notin batch'
  <2>1. pc[q] \in PassSteps /\ at'[q] = at[q] /\ mine'[q] = mine[q]
      BY Zenon, <1>1, <1>8
  <2> QED BY Zenon, <2>1 DEF NameInv
<1> QED BY Zenon, <1>2, <1>3, <1>4, <1>5, <1>6, <1>7, <1>8 DEF NameInv

(* A slot that ends its visit keeps them too. *)
LEMMA NameLeave ==
    ASSUME TypeOK, NameInv, NEW s \in Slots, Leave(s), pc[s] \in PassSteps,
           taskJob' = taskJob, taskState' = taskState, proc' = proc,
           markers' \subseteq markers,
           \A t \in proven' : t \in proven \/ taskState[t] # "absent",
           \A q \in Slots : q # s /\ pc[q] = "register" => mine[q] \notin proven'
    PROVE  NameInv'
<1>1. /\ Goto(s, "pick") /\ batch' = batch
      /\ \A q \in Slots : q # s => at'[q] = at[q] /\ mine'[q] = mine[q] /\ note'[q] = note[q]
    BY Zenon DEF Leave, TypeOK, SlotTypes
<1>2. s = Reconciler
    BY Zenon DEF NameInv
<1>3. "pick" \notin Named \cup PassSteps
    BY Zenon DEF Named, Launched, PassSteps
<1>4. \A t \in markers' : taskState[t] # "absent" /\ taskJob[t] \in Jobs
    BY Zenon, MarkedTasks
<1> QED BY Zenon, <1>1, <1>2, <1>3, <1>4, NameMove

(* Identities: what every step does to tasks and to the slots that name them. *)
LEMMA NameStep ==
    ASSUME Steady, IInv, Next
    PROVE  NameInv'
<1>1. CASE RecoverStaleJobs
    BY Zenon, <1>1 DEF RecoverStaleJobs, IInv, NameInv, local, taskVars
<1>2. ASSUME NEW j \in Jobs, RecoverStaleJob(j) \/ Expire(j) \/ Cancel(j)
      PROVE  NameInv'
  <2>1. CASE RecoverStaleJob(j)
      BY Zenon, <2>1 DEF RecoverStaleJob, IInv, NameInv, local, taskVars
  <2>2. CASE Expire(j)
      BY Zenon, <2>2 DEF Expire, IInv, NameInv, local, taskVars
  <2>3. CASE Cancel(j)
      BY Zenon, <2>3 DEF Cancel, IInv, NameInv, local, taskVars
  <2> QED BY Zenon, <1>2, <2>1, <2>2, <2>3
<1>3. ASSUME NEW t \in Tasks, ProcessExits(t)
      PROVE  NameInv'
  <2>1. \A u \in Tasks : taskState[u] = "absent" => proc'[u] = "none"
    <3>1. proc = [u \in Tasks |-> proc[u]] /\ taskState[t] # "absent"
        BY Zenon, <1>3 DEF ProcessExits, IInv, TypeOK, TaskTypes, NameInv
    <3>2. \A u \in Tasks : taskState[u] = "absent" => proc[u] = "none"
        BY Zenon DEF IInv, NameInv
    <3> QED BY Zenon, <1>3, <3>1, <3>2 DEF ProcessExits, Stop
  <2> QED BY Zenon, <1>3, <2>1 DEF ProcessExits, IInv, NameInv, local, taskVars
<1>4. ASSUME NEW s \in Slots, Attempt(s)
      PROVE  NameInv'
  <2>1. CASE \/ Acquire(s) \/ CheckCancel(s) \/ Undo(s)
             \/ UndoTask(s) \/ UndoAck(s) \/ Acknowledge(s)
    <3>1. CASE Acquire(s)
      <4>1. PICK j \in Eligible : at' = [at EXCEPT ![s] = j]
          BY Zenon, <3>1 DEF Acquire
      <4>2. /\ Goto(s, "leased") /\ mine' = mine /\ note' = note /\ batch' = batch
            /\ UNCHANGED taskVars /\ proc' = proc
          BY Zenon, <3>1 DEF Acquire, Goto
      <4>3. \A q \in Slots : q # s => at'[q] = at[q] /\ mine'[q] = mine[q] /\ note'[q] = note[q]
          BY Zenon, <4>1, <4>2 DEF IInv, TypeOK, SlotTypes
      <4>4. "leased" \notin Named \cup PassSteps
          BY Zenon DEF Named, Launched, PassSteps
      <4>5. \A q \in Slots : pc[q] = "register" => mine[q] \notin proven
          BY Zenon DEF IInv, NameInv
      <4>6. /\ UNCHANGED <<taskJob, taskState, markers, proven>> /\ TypeOK /\ NameInv
            /\ "leased" \notin {"scan", "pick", "register", "closetask", "closejob"}
          BY Zenon, <4>2 DEF taskVars, IInv
      <4>7. \A t \in markers' : taskState[t] # "absent" /\ taskJob[t] \in Jobs
          BY Zenon, <4>6, MarkedTasks
      <4> QED BY Zenon, <4>2, <4>3, <4>4, <4>5, <4>6, <4>7, NameMove
    <3>2. CASE CheckCancel(s)
        BY Zenon, <3>2, NameFrame DEF CheckCancel, IInv, local, taskVars, Named,
            PassSteps, Launched
    <3>3. CASE Undo(s)
        BY SMTT(30), <3>3 DEF Undo, IInv, TypeOK, TaskTypes, SlotTypes, NameInv, Goto,
            OpenTasks, Raise, SameTasks, Stop, Named, PassSteps, TasksOf, taskVars,
            Launched
    <3>4. CASE UndoTask(s)
      <4>1. \A t \in Tasks : taskState[t] # "absent" => taskState'[t] # "absent"
          BY Zenon, <3>4, OwnTask DEF UndoTask, IInv, Named, PassSteps, Launched
      <4> QED BY Zenon, <3>4, <4>1, NameFrame DEF UndoTask, IInv, local, Named, PassSteps
    <3>5. CASE UndoAck(s)
      <4>1. /\ pc[s] = "undoack" /\ Goto(s, "undo") /\ mine' = [mine EXCEPT ![s] = NoTask]
            /\ markers' \subseteq markers /\ proven' = proven \cup {mine[s]}
            /\ UNCHANGED <<taskJob, taskState, proc, at, note, batch>>
          BY Zenon, <3>5 DEF UndoAck
      <4>2. \A q \in Slots : q # s => at'[q] = at[q] /\ mine'[q] = mine[q] /\ note'[q] = note[q]
          BY Zenon, <4>1 DEF IInv, TypeOK, SlotTypes
      <4>3. "undo" \notin Named \cup PassSteps
          BY Zenon DEF Named, Launched, PassSteps
      <4>4. taskState[mine[s]] # "absent" /\ taskJob[mine[s]] = at[s] /\ pc[s] \in WorkSteps
          BY Zenon, <4>1 DEF IInv, NameInv, Named, WorkSteps, UndoSteps
      <4>5. ASSUME NEW q \in Slots, q # s, pc[q] = "register"
            PROVE  mine[q] \notin proven'
        <5>1. pc[q] \in WorkSteps /\ pc[q] \in Named
            BY Zenon, <4>5 DEF WorkSteps, RunSteps, Named
        <5>2. at[q] # at[s]
            BY Zenon, <4>4, <4>5, <5>1, AloneAtWork DEF IInv
        <5>3. taskJob[mine[q]] = at[q] /\ mine[q] \notin proven
            BY Zenon, <4>5, <5>1 DEF IInv, NameInv
        <5> QED BY Zenon, <4>1, <4>4, <5>2, <5>3
      <4>6. \A t \in proven' : t \in proven \/ taskState[t] # "absent"
          BY Zenon, <4>1, <4>4
      <4>7. \A t \in markers' : taskState[t] # "absent" /\ taskJob[t] \in Jobs
          BY Zenon, <4>1, MarkedTasks DEF IInv
      <4> QED BY Zenon, <4>1, <4>2, <4>3, <4>5, <4>6, <4>7, NameMove DEF IInv
    <3>6. CASE Acknowledge(s)
        BY Zenon, <3>6, NameFrame DEF Acknowledge, IInv, TypeOK, SlotTypes, Raise,
            SameLocal, SameTasks, Named, PassSteps, taskVars, Launched
    <3> QED BY Zenon, <2>1, <3>1, <3>2, <3>3, <3>4, <3>5, <3>6
  <2>2. CASE \/ Begin(s) \/ OpenTask(s) \/ Register(s)
             \/ Spawn(s) \/ ReleaseGate(s) \/ StepFails(s)
    <3>1. CASE Begin(s)
        BY Zenon, <3>1, NameFrame DEF Begin, IInv, TypeOK, SlotTypes, Raise, SameLocal,
            SameTasks, Named, PassSteps, taskVars, Launched
    <3>2. CASE OpenTask(s)
        BY SMTT(30), <3>2 DEF OpenTask, IInv, TypeOK, TaskTypes, SlotTypes, NameInv,
            Goto, PassSteps
    <3>3. CASE Register(s)
      <4>1. /\ pc[s] = "register" /\ Goto(s, "spawn") /\ markers' = markers \cup {mine[s]}
            /\ UNCHANGED <<taskJob, taskState, proven, proc, at, mine, note, batch>>
          BY Zenon, <3>3 DEF Register, local
      <4>2. pc[s] \in Named /\ pc[s] \in WorkSteps /\ "spawn" \notin PassSteps
          BY Zenon, <4>1 DEF Named, WorkSteps, RunSteps, PassSteps
      <4>3. taskState[mine[s]] # "absent" /\ taskJob[mine[s]] = at[s] /\ at[s] \in Jobs
          BY Zenon, <4>2 DEF IInv, NameInv, LeaseInv
      <4>4. \A t \in markers' : taskState[t] # "absent" /\ taskJob[t] \in Jobs
        <5>1. \A t \in markers : taskState[t] # "absent" /\ taskJob[t] \in Jobs
            BY Zenon, MarkedTasks DEF IInv
        <5> QED BY Zenon, <4>1, <4>3, <5>1
      <4>5. \A q \in Slots : pc[q] = "register" => mine[q] \notin proven
          BY Zenon DEF IInv, NameInv
      <4> QED BY Zenon, <4>1, <4>2, <4>4, <4>5, NameMove DEF IInv
    <3>4. CASE Spawn(s)
      <4>1. \A t \in Tasks : proc'[t] = proc[t] \/ taskState[t] # "absent"
          BY Zenon, <3>4, OwnTask DEF Spawn, IInv, Named, PassSteps, Launched, Stop
      <4> QED BY Zenon, <3>4, <4>1, NameFrame DEF Spawn, IInv, local, Named, PassSteps,
            Launched
    <3>5. CASE ReleaseGate(s)
      <4>1. \A t \in Tasks : proc'[t] = proc[t] \/ taskState[t] # "absent"
          BY Zenon, <3>5, OwnTask DEF ReleaseGate, IInv, Named, PassSteps, Launched, Stop
      <4> QED BY Zenon, <3>5, <4>1, NameFrame DEF ReleaseGate, IInv, TypeOK, TaskTypes,
            SlotTypes, Raise, SameLocal, SameTasks, Named, PassSteps, taskVars, Launched
    <3>6. CASE StepFails(s)
      <4>1. \A t \in Tasks : proc'[t] = proc[t] \/ taskState[t] # "absent"
          BY Zenon, <3>6, OwnTask DEF StepFails, IInv, Named, PassSteps, Launched, Stop
      <4> QED BY Zenon, <3>6, <4>1, NameFrame DEF StepFails, IInv, TypeOK, TaskTypes,
            SlotTypes, Raise, SameLocal, SameTasks, Stop, Named, PassSteps, taskVars,
            Launched
    <3> QED BY Zenon, <2>2, <3>1, <3>2, <3>3, <3>4, <3>5, <3>6
  <2>3. CASE \/ PollExit(s) \/ PollCancel(s) \/ Heartbeat(s)
             \/ ObserveScheduler(s) \/ PollFails(s)
    <3>1. CASE PollExit(s)
        BY Zenon, <3>1, NameFrame DEF PollExit, IInv, local, taskVars, Named,
            PassSteps, Launched
    <3>2. CASE PollCancel(s)
      <4>1. \A t \in Tasks : proc'[t] = proc[t] \/ taskState[t] # "absent"
          BY Zenon, <3>2, OwnTask DEF PollCancel, IInv, Named, PassSteps, Launched, Stop
      <4> QED BY Zenon, <3>2, <4>1, NameFrame DEF PollCancel, IInv, Stop, local,
            taskVars, Named, PassSteps, Launched
    <3>3. CASE Heartbeat(s)
        BY Zenon, <3>3, NoLateHeartbeat
    <3>4. CASE ObserveScheduler(s)
        BY Zenon, <3>4 DEF ObserveScheduler, IInv, NameInv, local, taskVars
    <3>5. CASE PollFails(s)
      <4>1. \A t \in Tasks : proc'[t] = proc[t] \/ taskState[t] # "absent"
          BY Zenon, <3>5, OwnTask DEF PollFails, IInv, Named, PassSteps, Launched, Stop
      <4> QED BY Zenon, <3>5, <4>1, NameFrame DEF PollFails, IInv, TypeOK, SlotTypes,
            Raise, SameLocal, SameTasks, Stop, Named, PassSteps, taskVars, Launched
    <3> QED BY Zenon, <2>3, <3>1, <3>2, <3>3, <3>4, <3>5
  <2>4. CASE Resolve(s) \/ ResolveFails(s) \/ CloseTask(s) \/ CloseJob(s)
    <3>1. CASE Resolve(s)
        BY Zenon, <3>1, NameFrame DEF Resolve, IInv, TypeOK, SlotTypes, Outcomes,
            SameLocal, Terminal, Named, PassSteps, Launched
    <3>2. CASE ResolveFails(s)
        BY Zenon, <3>2, NameFrame DEF ResolveFails, IInv, TypeOK, SlotTypes, Raise,
            SameLocal, SameTasks, Named, PassSteps, taskVars, Launched
    <3>3. CASE CloseTask(s)
      <4>1. \A t \in Tasks : taskState[t] # "absent" => taskState'[t] # "absent"
          BY Zenon, <3>3, OwnTask DEF CloseTask, IInv, Named, PassSteps, Launched,
            NameInv, Terminal
      <4>2. note[s] \in Terminal
          BY Zenon, <3>3 DEF CloseTask, IInv, NameInv
      <4> QED BY Zenon, <3>3, <4>1, <4>2, NameFrame DEF CloseTask, IInv, local,
            Terminal, Named, PassSteps, Launched
    <3>4. CASE CloseJob(s)
        BY Zenon, <3>4, NameFrame DEF CloseJob, IInv, TypeOK, SlotTypes, Raise,
            SameLocal, SameTasks, Named, PassSteps, taskVars, Launched
    <3> QED BY Zenon, <2>4, <3>1, <3>2, <3>3, <3>4
  <2>5. CASE AckMarker(s) \/ FailTasks(s) \/ FailJob(s) \/ ReleaseLease(s)
    <3>1. CASE AckMarker(s)
        BY Zenon, <3>1, NameFrame DEF AckMarker, IInv, TypeOK, SlotTypes, Raise,
            SameLocal, Named, PassSteps
    <3>2. CASE FailTasks(s)
        BY Zenon, <3>2, NameFrame DEF FailTasks, IInv, TypeOK, SlotTypes, Escape,
            SameLocal, Named, PassSteps, Launched
    <3>3. CASE FailJob(s)
        BY Zenon, <3>3, NameFrame DEF FailJob, IInv, TypeOK, SlotTypes, Escape,
            SameLocal, SameTasks, Named, PassSteps, taskVars, Launched
    <3>4. CASE ReleaseLease(s)
      <4>1. /\ Goto(s, "idle") /\ UNCHANGED taskVars /\ proc' = proc /\ batch' = batch
            /\ at' = [at EXCEPT ![s] = NoJob]
            /\ mine' = [mine EXCEPT ![s] = NoTask]
            /\ note' = [note EXCEPT ![s] = "none"]
          BY Zenon, <3>4 DEF ReleaseLease
      <4>2. \A q \in Slots : q # s => at'[q] = at[q] /\ mine'[q] = mine[q] /\ note'[q] = note[q]
          BY Zenon, <4>1 DEF IInv, TypeOK, SlotTypes
      <4>3. "idle" \notin Named \cup PassSteps
          BY Zenon DEF Named, Launched, PassSteps
      <4>4. \A q \in Slots : pc[q] = "register" => mine[q] \notin proven
          BY Zenon DEF IInv, NameInv
      <4>5. /\ UNCHANGED <<taskJob, taskState, markers, proven>> /\ TypeOK /\ NameInv
            /\ "idle" \notin {"scan", "pick", "register", "closetask", "closejob"}
          BY Zenon, <4>1 DEF taskVars, IInv
      <4>6. \A t \in markers' : taskState[t] # "absent" /\ taskJob[t] \in Jobs
          BY Zenon, <4>5, MarkedTasks
      <4> QED BY Zenon, <4>1, <4>2, <4>3, <4>4, <4>5, <4>6, NameMove
    <3> QED BY Zenon, <2>5, <3>1, <3>2, <3>3, <3>4
  <2> QED
      BY Zenon, <1>4, <2>1, <2>2, <2>3, <2>4, <2>5
      DEF Attempt
<1>5. ASSUME NEW s \in Slots, Pass(s)
      PROVE  NameInv'
  <2>1. CASE \/ StartPass(s) \/ ScanMarkers(s) \/ PickMarker(s)
             \/ EndPass(s) \/ VisitFails(s)
    <3>1. CASE StartPass(s)
      <4>1. /\ s = Reconciler /\ Goto(s, "scan") /\ proc' = proc
            /\ UNCHANGED <<taskJob, taskState, markers, proven, at, mine, note, batch>>
          BY Zenon, <3>1 DEF StartPass, taskVars, local
      <4>2. /\ "scan" \notin Named \cup PassSteps /\ TypeOK /\ NameInv
            /\ "scan" \notin {"register", "closetask", "closejob"}
          BY Zenon DEF Named, Launched, PassSteps, IInv
      <4>3. \A t \in markers' : taskState[t] # "absent" /\ taskJob[t] \in Jobs
          BY Zenon, <4>1, <4>2, MarkedTasks
      <4>4. \A q \in Slots : pc[q] = "register" => mine[q] \notin proven
          BY Zenon, <4>2 DEF NameInv
      <4> QED BY Zenon, <4>1, <4>2, <4>3, <4>4, NameMove
    <3>2. CASE ScanMarkers(s)
        BY SMTT(30), <3>2 DEF ScanMarkers, IInv, NameInv, Goto, SameTasks, Named,
            PassSteps, taskVars, Launched
    <3>3. CASE PickMarker(s)
        BY SMTT(30), <3>3 DEF PickMarker, IInv, TypeOK, SlotTypes, NameInv, Goto,
            SameTasks, taskVars
    <3>4. CASE EndPass(s)
        BY Zenon, <3>4, NameFrame DEF EndPass, IInv, SameTasks, Named, PassSteps,
            taskVars, Launched
    <3>5. CASE VisitFails(s)
      <4>1. \A q \in Slots : pc[q] = "register" => mine[q] \notin proven
          BY Zenon DEF IInv, NameInv
      <4> QED BY Zenon, <3>5, <4>1, NameLeave DEF VisitFails, IInv, SameTasks, taskVars
    <3> QED BY Zenon, <2>1, <3>1, <3>2, <3>3, <3>4, <3>5
  <2>2. CASE StopRecorded(s) \/ ResolveRecorded(s) \/ CloseRecorded(s)
    <3>1. CASE StopRecorded(s)
      <4>1. \A t \in Tasks : proc'[t] = proc[t] \/ taskState[t] # "absent"
          BY Zenon, <3>1, OwnTask DEF StopRecorded, IInv, Named, PassSteps, Launched, Stop
      <4> QED BY Zenon, <3>1, <4>1, NameFrame DEF StopRecorded, IInv, TypeOK,
            TaskTypes, Stop, local, taskVars, PassSteps
    <3>2. CASE ResolveRecorded(s)
        BY Zenon, <3>2, NameFrame DEF ResolveRecorded, IInv, TypeOK, SlotTypes,
            SameLocal, PassSteps
    <3>3. CASE CloseRecorded(s)
      <4>1. \A t \in Tasks : taskState[t] # "absent" => taskState'[t] # "absent"
          BY Zenon, <3>3, OwnTask DEF CloseRecorded, IInv, Named, PassSteps, Launched
      <4> QED BY Zenon, <3>3, <4>1, NameFrame DEF CloseRecorded, IInv, local, PassSteps
    <3> QED BY Zenon, <2>2, <3>1, <3>2, <3>3
  <2>3. CASE EndRecorded(s) \/ AckRecorded(s) \/ CancelRecorded(s)
    <3>1. CASE EndRecorded(s)
      <4>1. pc[s] \in PassSteps /\ UNCHANGED taskVars /\ proc' = proc
          BY Zenon, <3>1 DEF EndRecorded, PassSteps, SameTasks
      <4>2. CASE Goto(s, "rack") /\ UNCHANGED local
          BY Zenon, <4>1, <4>2, NameFrame DEF IInv, local, taskVars, PassSteps
      <4>3. CASE Leave(s)
        <5>1. \A q \in Slots : pc[q] = "register" => mine[q] \notin proven
            BY Zenon DEF IInv, NameInv
        <5> QED BY Zenon, <4>1, <4>3, <5>1, NameLeave DEF IInv, taskVars
      <4> QED BY Zenon, <3>1, <4>2, <4>3 DEF EndRecorded
    <3>2. CASE AckRecorded(s)
      <4>1. /\ pc[s] = "rack" /\ markers' \subseteq markers /\ proven' = proven \cup {mine[s]}
            /\ UNCHANGED <<taskJob, taskState, proc>>
          BY Zenon, <3>2 DEF AckRecorded
      <4>2. pc[s] \in PassSteps /\ pc[s] \in Visit /\ pc[s] # "register"
          BY Zenon, <4>1 DEF PassSteps, Visit
      <4>3. /\ taskState[mine[s]] # "absent" /\ taskJob[mine[s]] = at[s]
            /\ holder[at[s]] \notin Slots
          BY Zenon, <4>2 DEF IInv, NameInv, VisitInv
      <4>4. ASSUME NEW q \in Slots, q # s, pc[q] = "register"
            PROVE  mine[q] \notin proven'
        <5>1. pc[q] \in WorkSteps /\ pc[q] \in Named
            BY Zenon, <4>4 DEF WorkSteps, RunSteps, Named
        <5>2. at[q] # at[s]
            BY Zenon, <4>3, <5>1 DEF IInv, LeaseInv
        <5>3. taskJob[mine[q]] = at[q] /\ mine[q] \notin proven
            BY Zenon, <4>4, <5>1 DEF IInv, NameInv
        <5> QED BY Zenon, <4>1, <4>3, <5>2, <5>3
      <4>5. \A t \in proven' : t \in proven \/ taskState[t] # "absent"
          BY Zenon, <4>1, <4>3
      <4>6. CASE Leave(s)
          BY Zenon, <4>1, <4>2, <4>4, <4>5, <4>6, NameLeave DEF IInv
      <4>7. CASE Goto(s, "rcancel") /\ UNCHANGED local
        <5>1. \A t \in markers' : taskState[t] # "absent" /\ taskJob[t] \in Jobs
            BY Zenon, <4>1, MarkedTasks DEF IInv
        <5>2. at' = at /\ mine' = mine /\ note' = note /\ batch' = batch
            BY Zenon, <4>7 DEF local
        <5> QED BY Zenon, <4>1, <4>2, <4>4, <4>5, <4>7, <5>1, <5>2, NameMove DEF IInv
      <4> QED BY Zenon, <3>2, <4>6, <4>7 DEF AckRecorded
    <3>3. CASE CancelRecorded(s)
      <4>1. \A q \in Slots : pc[q] = "register" => mine[q] \notin proven
          BY Zenon DEF IInv, NameInv
      <4>2. /\ pc[s] \in PassSteps /\ Leave(s) /\ proc' = proc
            /\ UNCHANGED taskVars
          BY Zenon, <3>3 DEF CancelRecorded, PassSteps, SameTasks
      <4> QED BY Zenon, <4>1, <4>2, NameLeave DEF IInv, taskVars
    <3> QED BY Zenon, <2>3, <3>1, <3>2, <3>3
  <2> QED
      BY Zenon, <1>5, <2>1, <2>2, <2>3
      DEF Pass
<1>6. CASE Crash
    BY Zenon, <1>6 DEF Crash, IInv, NameInv, taskVars, Named, PassSteps, Launched
<1> QED BY Zenon, <1>1, <1>2, <1>3, <1>4, <1>5, <1>6 DEF Next
-----------------------------------------------------------------------------
(* What is said of jobs stays true when nothing of it changes. *)
LEMMA StateSame ==
    ASSUME StateInv, UNCHANGED <<state, holder, taskJob, markers, pc, at, note, batch>>
    PROVE  StateInv'
BY DEF StateInv

(* A slot that moves on keeps what is said of jobs when it launches        *)
(* nothing and ends nothing that has not ended.                            *)
LEMMA StateMove ==
    ASSUME TypeOK, StateInv, NEW s \in Slots, NEW step, Goto(s, step),
           \A q \in Slots : q # s => note'[q] = note[q],
           step \in Launched \cup {"opentask", "register"} =>
               pc[s] \in Launched \cup {"opentask", "register"},
           step = "ackmarker" => note'[s] = "error",
           step = "release" => note'[s] = "unresolved" \/ state[at[s]] \in Terminal,
           pc[s] \in Ending /\ note[s] # "unresolved" =>
               step \in Ending /\ note'[s] # "unresolved",
           state' = state, holder' = holder, at' = at, batch' = batch,
           \A t \in batch : taskJob'[t] = taskJob[t], markers \subseteq markers'
    PROVE  StateInv'
<1>1. /\ pc'[s] = step
      /\ \A q \in Slots : q # s => pc'[q] = pc[q]
  BY Zenon DEF TypeOK, SlotTypes, Goto
<1>2. \A q \in Slots : pc'[q] \in Launched \cup {"opentask", "register"}
        => state[at[q]] = "running"
  BY Zenon, <1>1 DEF StateInv
<1>3. \A q \in Slots : /\ pc'[q] = "ackmarker" /\ note'[q] # "error" => state[at[q]] \in Terminal
                       /\ pc'[q] = "release" /\ note'[q] # "unresolved" => state[at[q]] \in Terminal
  BY Zenon, <1>1 DEF StateInv
<1>4. \A q \in Slots : pc[q] \in Ending /\ note[q] # "unresolved"
        => pc'[q] \in Ending /\ note'[q] # "unresolved"
  BY Zenon, <1>1
<1> QED
  BY <1>2, <1>3, <1>4 DEF StateInv

(* So does one that carries its note on, or an error, and releases nothing. *)
LEMMA StateFrame ==
    ASSUME TypeOK, StateInv, NEW s \in Slots, NEW step, Goto(s, step),
           note' = note \/ Raise(s, step),
           step \in Launched \cup {"opentask", "register"} =>
               pc[s] \in Launched \cup {"opentask", "register"},
           step = "ackmarker" => Raise(s, step), step # "release",
           pc[s] \in Ending => step \in Ending,
           state' = state, holder' = holder, taskJob' = taskJob, at' = at,
           batch' = batch, markers \subseteq markers'
    PROVE  StateInv'
<1>1. /\ \A q \in Slots : q # s => note'[q] = note[q]
      /\ note'[s] = note[s] \/ note'[s] = "error"
      /\ step = "ackmarker" => note'[s] = "error"
  BY Zenon DEF TypeOK, SlotTypes, Raise
<1> QED
  BY Zenon, <1>1, StateMove

(* And one that writes the state of a job no other slot works at: its      *)
(* outcome, or that it runs.                                               *)
LEMMA StateWrite ==
    ASSUME IInv, NEW s \in Slots, NEW step, NEW new, Goto(s, step), note' = note,
           at[s] \in Jobs,
           \A q \in Slots : pc[q] \in WorkSteps /\ at[q] = at[s] => q = s,
           \/ new \in Terminal /\ step \in {"ackmarker", "release", "rack"}
           \/ /\ new = "running" /\ step = "opentask"
              /\ state[at[s]] \notin Terminal /\ pc[s] \notin Ending,
           state' = [state EXCEPT ![at[s]] = new], holder' = holder,
           taskJob' = taskJob, at' = at, batch' = batch, markers' = markers
    PROVE  StateInv'
<1>1. /\ pc'[s] = step
      /\ \A q \in Slots : q # s => pc'[q] = pc[q]
  BY Zenon DEF IInv, TypeOK, SlotTypes, Goto
<1>2. Ending \subseteq WorkSteps
  BY Zenon DEF Ending, WorkSteps
<1>3. state'[at[s]] = new /\ \A j \in Jobs : j # at[s] => state'[j] = state[j]
  BY Zenon DEF IInv, TypeOK, JobTypes
<1>4. ASSUME NEW q \in Slots
      PROVE  /\ pc'[q] \in Launched \cup {"opentask", "register"} => state'[at[q]] = "running"
             /\ pc'[q] = "ackmarker" /\ note[q] # "error" => state'[at[q]] \in Terminal
             /\ pc'[q] = "release" /\ note[q] # "unresolved" => state'[at[q]] \in Terminal
  <2>1. CASE q = s
    BY Zenon, <1>1, <1>3, <2>1 DEF Launched
  <2>2. CASE q # s
    <3>1. pc'[q] = pc[q]
      BY Zenon, <1>1, <2>2
    <3>2. pc[q] \in WorkSteps => state'[at[q]] = state[at[q]]
      BY Zenon, <1>3, <2>2 DEF IInv, LeaseInv
    <3>3. pc[q] \in Launched \cup {"opentask", "register", "ackmarker", "release"}
            => pc[q] \in WorkSteps
      BY Zenon DEF Launched, WorkSteps, RunSteps
    <3>4. /\ pc[q] \in Launched \cup {"opentask", "register"} => state[at[q]] = "running"
          /\ pc[q] = "ackmarker" /\ note[q] # "error" => state[at[q]] \in Terminal
          /\ pc[q] = "release" /\ note[q] # "unresolved" => state[at[q]] \in Terminal
      BY Zenon DEF IInv, StateInv
    <3> QED
      BY Zenon, <3>1, <3>2, <3>3, <3>4
  <2> QED BY Zenon, <2>1, <2>2
<1>5. ASSUME NEW t \in batch \ markers
      PROVE  \/ state'[taskJob[t]] \in Terminal
             \/ \E q \in Slots : /\ holder[taskJob[t]] = q /\ at[q] = taskJob[t]
                                 /\ pc'[q] \in Ending /\ note[q] # "unresolved"
  <2>1. CASE taskJob[t] = at[s]
    <3>1. CASE new \in Terminal
      BY Zenon, <1>3, <2>1, <3>1
    <3>2. CASE state[at[s]] \notin Terminal /\ pc[s] \notin Ending
      <4>1. PICK q \in Slots : at[q] = at[s] /\ pc[q] \in Ending
        BY <1>5, <2>1, <3>2 DEF IInv, StateInv
      <4> QED BY Zenon, <1>2, <3>2, <4>1
    <3> QED BY Zenon, <3>1, <3>2
  <2>2. CASE taskJob[t] # at[s]
    <3>1. taskJob[t] \in Jobs
      BY Zenon, <1>5 DEF IInv, NameInv
    <3>2. state'[taskJob[t]] = state[taskJob[t]]
      BY Zenon, <1>3, <2>2, <3>1
    <3>3. \/ state[taskJob[t]] \in Terminal
          \/ \E q \in Slots : /\ holder[taskJob[t]] = q /\ at[q] = taskJob[t]
                              /\ pc[q] \in Ending /\ note[q] # "unresolved"
      BY Zenon, <1>5 DEF IInv, StateInv
    <3>4. ASSUME NEW q \in Slots, at[q] = taskJob[t]
          PROVE  pc'[q] = pc[q]
      BY Zenon, <1>1, <2>2, <3>4
    <3> QED BY Zenon, <3>2, <3>3, <3>4
  <2> QED BY Zenon, <2>1, <2>2
<1>6. \A q \in Slots :
         /\ pc'[q] \in Launched \cup {"opentask", "register"} => state'[at'[q]] = "running"
         /\ pc'[q] = "ackmarker" /\ note'[q] # "error" => state'[at'[q]] \in Terminal
         /\ pc'[q] = "release" /\ note'[q] # "unresolved" => state'[at'[q]] \in Terminal
  BY Zenon, <1>4
<1>7. \A t \in batch' \ markers' :
         \/ state'[taskJob'[t]] \in Terminal
         \/ \E q \in Slots : /\ holder'[taskJob'[t]] = q /\ at'[q] = taskJob'[t]
                             /\ pc'[q] \in Ending /\ note'[q] # "unresolved"
  BY Zenon, <1>5
<1> QED BY Zenon, <1>6, <1>7 DEF StateInv

(* And one that takes up another job, or none, and ends nothing.           *)
LEMMA StateFree ==
    ASSUME IInv, NEW s \in Slots, NEW step, Goto(s, step),
           step \notin Launched \cup {"opentask", "register", "ackmarker", "release"},
           pc[s] \notin Ending,
           \A q \in Slots : q # s => at'[q] = at[q] /\ note'[q] = note[q],
           \A q \in Slots : q # s /\ pc[q] \in Launched \cup {"opentask", "register"} =>
               state'[at[q]] = state[at[q]],
           \A j \in Jobs : state[j] \in Terminal => state'[j] \in Terminal,
           holder' = holder, taskJob' = taskJob, batch' = batch,
           batch \ markers' \subseteq batch \ markers
    PROVE  StateInv'
<1>1. pc'[s] = step /\ \A q \in Slots : q # s => pc'[q] = pc[q]
  BY Zenon DEF IInv, TypeOK, SlotTypes, Goto
<1>2. \A q \in Slots : pc'[q] \in Launched \cup {"opentask", "register"}
        => state'[at'[q]] = "running"
  BY Zenon, <1>1 DEF IInv, StateInv
<1>3. ASSUME NEW q \in Slots, pc'[q] \in {"ackmarker", "release"}
      PROVE  /\ pc'[q] = "ackmarker" /\ note'[q] # "error" => state'[at'[q]] \in Terminal
             /\ pc'[q] = "release" /\ note'[q] # "unresolved" => state'[at'[q]] \in Terminal
  <2>1. q # s /\ pc'[q] = pc[q] /\ at'[q] = at[q] /\ note'[q] = note[q]
    BY Zenon, <1>1, <1>3
  <2>2. at[q] \in Jobs
    BY Zenon, <1>3, <2>1 DEF IInv, LeaseInv, WorkSteps, RunSteps
  <2> QED BY Zenon, <2>1, <2>2 DEF IInv, StateInv
<1>4. ASSUME NEW t \in batch' \ markers'
      PROVE  \/ state'[taskJob'[t]] \in Terminal
             \/ \E q \in Slots : /\ holder'[taskJob'[t]] = q /\ at'[q] = taskJob'[t]
                                 /\ pc'[q] \in Ending /\ note'[q] # "unresolved"
  <2>1. t \in batch \ markers /\ taskJob[t] \in Jobs
    BY Zenon, <1>4 DEF IInv, NameInv
  <2>2. CASE state[taskJob[t]] \in Terminal
    BY Zenon, <2>1, <2>2
  <2>3. ASSUME NEW q \in Slots, holder[taskJob[t]] = q, at[q] = taskJob[t],
               pc[q] \in Ending, note[q] # "unresolved"
        PROVE  \E r \in Slots : /\ holder'[taskJob'[t]] = r /\ at'[r] = taskJob'[t]
                                /\ pc'[r] \in Ending /\ note'[r] # "unresolved"
    <3>1. pc'[q] = pc[q] /\ at'[q] = at[q] /\ note'[q] = note[q]
      BY Zenon, <1>1, <2>3
    <3> QED BY Zenon, <2>3, <3>1
  <2>4. \/ state[taskJob[t]] \in Terminal
        \/ \E q \in Slots : /\ holder[taskJob[t]] = q /\ at[q] = taskJob[t]
                            /\ pc[q] \in Ending /\ note[q] # "unresolved"
    BY Zenon, <2>1 DEF IInv, StateInv
  <2> QED BY Zenon, <2>2, <2>3, <2>4
<1> QED BY Zenon, <1>2, <1>3, <1>4 DEF StateInv

(* A slot that ends its visit.                                             *)
LEMMA StateLeave ==
    ASSUME IInv, NEW s \in Slots, Leave(s), pc[s] \in PassSteps,
           \A q \in Slots : q # s /\ pc[q] \in Launched \cup {"opentask", "register"} =>
               state'[at[q]] = state[at[q]],
           \A j \in Jobs : state[j] \in Terminal => state'[j] \in Terminal,
           holder' = holder, taskJob' = taskJob,
           batch \ markers' \subseteq batch \ markers
    PROVE  StateInv'
<1>1. /\ Goto(s, "pick") /\ batch' = batch
      /\ \A q \in Slots : q # s => at'[q] = at[q] /\ note'[q] = note[q]
  BY Zenon DEF Leave, IInv, TypeOK, SlotTypes
<1>2. "pick" \notin Launched \cup {"opentask", "register", "ackmarker", "release"}
  BY Zenon DEF Launched
<1>3. pc[s] \notin Ending
  BY Zenon DEF PassSteps, Ending
<1> QED BY Zenon, <1>1, <1>2, <1>3, StateFree

(* Jobs may change by themselves if no slot holds them and none that has   *)
(* ended changes.                                                          *)
LEMMA StateKept ==
    ASSUME IInv, UNCHANGED <<taskJob, markers, pc, at, note, batch>>,
           \A k \in Jobs : /\ holder[k] \in Slots => state'[k] = state[k] /\ holder'[k] = holder[k]
                           /\ state[k] \in Terminal => state'[k] = state[k]
    PROVE  StateInv'
<1>1. ASSUME NEW q \in Slots, pc[q] \in WorkSteps
      PROVE  state'[at[q]] = state[at[q]]
  <2>1. at[q] \in Jobs /\ holder[at[q]] = q
    BY Zenon, <1>1 DEF IInv, LeaseInv
  <2> QED BY Zenon, <2>1
<1>2. ASSUME NEW q \in Slots
      PROVE  /\ pc[q] \in Launched \cup {"opentask", "register"} => state'[at[q]] = "running"
             /\ pc[q] = "ackmarker" /\ note[q] # "error" => state'[at[q]] \in Terminal
             /\ pc[q] = "release" /\ note[q] # "unresolved" => state'[at[q]] \in Terminal
  <2>1. pc[q] \in Launched \cup {"opentask", "register", "ackmarker", "release"}
          => pc[q] \in WorkSteps
    BY Zenon DEF Launched, WorkSteps, RunSteps
  <2>2. /\ pc[q] \in Launched \cup {"opentask", "register"} => state[at[q]] = "running"
        /\ pc[q] = "ackmarker" /\ note[q] # "error" => state[at[q]] \in Terminal
        /\ pc[q] = "release" /\ note[q] # "unresolved" => state[at[q]] \in Terminal
    BY Zenon DEF IInv, StateInv
  <2> QED BY Zenon, <1>1, <2>1, <2>2
<1>3. ASSUME NEW t \in batch' \ markers'
      PROVE  \/ state'[taskJob'[t]] \in Terminal
             \/ \E q \in Slots : /\ holder'[taskJob'[t]] = q /\ at'[q] = taskJob'[t]
                                 /\ pc'[q] \in Ending /\ note'[q] # "unresolved"
  <2>1. t \in batch \ markers /\ taskJob[t] \in Jobs /\ taskJob' = taskJob
    BY Zenon, <1>3 DEF IInv, NameInv
  <2>2. CASE state[taskJob[t]] \in Terminal
    <3>1. state'[taskJob[t]] = state[taskJob[t]]
      BY Zenon, <2>1, <2>2
    <3> QED BY Zenon, <2>1, <2>2, <3>1
  <2>3. ASSUME NEW q \in Slots, holder[taskJob[t]] = q, at[q] = taskJob[t],
               pc[q] \in Ending, note[q] # "unresolved"
        PROVE  holder'[taskJob'[t]] = q
    <3>1. holder'[taskJob[t]] = holder[taskJob[t]]
      BY Zenon, <2>1, <2>3
    <3> QED BY Zenon, <2>1, <2>3, <3>1
  <2>4. \/ state[taskJob[t]] \in Terminal
        \/ \E q \in Slots : /\ holder[taskJob[t]] = q /\ at[q] = taskJob[t]
                            /\ pc[q] \in Ending /\ note[q] # "unresolved"
    BY Zenon, <2>1 DEF IInv, StateInv
  <2> QED BY Zenon, <2>2, <2>3, <2>4
<1>4. \A q \in Slots :
         /\ pc'[q] \in Launched \cup {"opentask", "register"} => state'[at'[q]] = "running"
         /\ pc'[q] = "ackmarker" /\ note'[q] # "error" => state'[at'[q]] \in Terminal
         /\ pc'[q] = "release" /\ note'[q] # "unresolved" => state'[at'[q]] \in Terminal
  BY Zenon, <1>2
<1> QED BY Zenon, <1>3, <1>4 DEF StateInv

(* A slot that fails keeps it, wherever the failure is handled.            *)
LEMMA StateRaise ==
    ASSUME TypeOK, StateInv, NEW s \in Slots, NEW step, Raise(s, step),
           step \in {"failtasks", "ackmarker"}, pc[s] \notin Ending,
           state' = state, holder' = holder, taskJob' = taskJob, at' = at,
           batch' = batch, markers' = markers
    PROVE  StateInv'
<1>1. Goto(s, step)
  BY Zenon DEF Raise
<1>2. /\ step \notin Launched \cup {"opentask", "register"} /\ step # "release"
      /\ markers \subseteq markers'
  BY Zenon DEF Launched
<1> QED
  BY Zenon, <1>1, <1>2, StateFrame

(* Jobs: what every step does to their states.                             *)
LEMMA StateStep ==
    ASSUME Steady, IInv, Next
    PROVE  StateInv'
<1>1. CASE RecoverStaleJobs
    BY Zenon, <1>1, RecoveryStep DEF RecoverStaleJobs, taskVars, local
<1>2. ASSUME NEW s \in Slots, StartPass(s)
      PROVE  StateInv'
    BY Zenon, <1>2, RecoveryStep DEF StartPass, Goto, taskVars, local, IInv, TypeOK,
            SlotTypes
<1>3. ASSUME NEW s \in Slots, Acquire(s)
      PROVE  StateInv'
    BY Zenon, <1>3, AcquireStep
<1>4. ASSUME NEW j \in Jobs, RecoverStaleJob(j) \/ Expire(j) \/ Cancel(j)
      PROVE  StateInv'
  <2>1. CASE RecoverStaleJob(j)
    <3>1. /\ holder[j] = Crashed /\ holder' = [holder EXCEPT ![j] = Nobody]
          /\ state' = [state EXCEPT ![j] = RecoveredState[j]]
        BY Zenon, <2>1 DEF RecoverStaleJob, Reclaimed, IInv, LeaseInv
    <3>2. /\ \A k \in Jobs : k # j => state'[k] = state[k] /\ holder'[k] = holder[k]
          /\ state[j] \in Terminal => state'[j] = state[j]
      <4>1. /\ state = [k \in Jobs |-> state[k]] /\ holder = [k \in Jobs |-> holder[k]]
            /\ state[j] \in Terminal => RecoveredState[j] = state[j]
          BY Zenon, RecoveryFrame DEF IInv, TypeOK, JobTypes
      <4> QED BY Zenon, <3>1, <4>1
    <3>3. ASSUME NEW k \in Jobs
          PROVE  /\ holder[k] \in Slots => state'[k] = state[k] /\ holder'[k] = holder[k]
                 /\ state[k] \in Terminal => state'[k] = state[k]
        BY Zenon, <3>1, <3>2
    <3> QED BY Zenon, <2>1, <3>3, StateKept DEF RecoverStaleJob, taskVars, local
  <2>2. CASE Expire(j)
      BY Zenon, <2>2, StateSame DEF Expire, IInv, local, taskVars
  <2>3. CASE Cancel(j)
    <3>1. ASSUME NEW k \in Jobs
          PROVE  /\ holder[k] \in Slots => state'[k] = state[k] /\ holder'[k] = holder[k]
                 /\ state[k] \in Terminal => state'[k] = state[k]
      <4>1. /\ state' = [state EXCEPT ![j] = IF @ = "queued" THEN "canceled" ELSE @]
            /\ holder' = holder /\ "queued" \notin Terminal
          BY Zenon, <2>3 DEF Cancel, Terminal
      <4>2. /\ state = [i \in Jobs |-> state[i]]
            /\ state[k] = "queued" => holder[k] \notin Slots
          BY Zenon DEF IInv, TypeOK, JobTypes, LeaseInv
      <4>3. state[k] # "queued" => state'[k] = state[k]
          BY Zenon, <4>1, <4>2
      <4> QED BY Zenon, <4>1, <4>2, <4>3
    <3> QED BY Zenon, <2>3, <3>1, StateKept DEF Cancel, taskVars, local
  <2> QED BY Zenon, <1>4, <2>1, <2>2, <2>3
<1>5. ASSUME NEW t \in Tasks, ProcessExits(t)
      PROVE  StateInv'
    BY Zenon, <1>5, StateSame DEF ProcessExits, IInv, durable, local, taskVars
<1>6. ASSUME NEW s \in Slots, Pass(s)
      PROVE  StateInv'
  <2>1. CASE ScanMarkers(s) \/ PickMarker(s) \/ EndPass(s) \/ VisitFails(s)
    <3>1. CASE ScanMarkers(s)
        BY SMTT(30), <3>1 DEF ScanMarkers, IInv, StateInv, Goto, SameJobs, SameTasks,
            Launched, durable, taskVars
    <3>2. CASE PickMarker(s)
        BY SMTT(30), <3>2 DEF PickMarker, IInv, TypeOK, SlotTypes, StateInv, Goto,
            SameJobs, SameTasks, Ending, Launched, durable, taskVars
    <3>3. CASE EndPass(s)
        BY Zenon, <3>3, StateFrame DEF EndPass, IInv, SameJobs, SameTasks, Ending, Launched,
            durable, taskVars
    <3>4. CASE VisitFails(s)
        BY Zenon, <3>4, StateLeave DEF VisitFails, SameJobs, SameTasks, durable, taskVars
    <3> QED BY Zenon, <2>1, <3>1, <3>2, <3>3, <3>4
  <2>2. CASE StopRecorded(s) \/ ResolveRecorded(s) \/ CloseRecorded(s)
    <3>1. CASE StopRecorded(s)
        BY Zenon, <3>1, StateFrame DEF StopRecorded, IInv, durable, local, taskVars,
            Ending, Launched
    <3>2. CASE ResolveRecorded(s)
      <4>1. \A q \in Slots : q # s => note'[q] = note[q]
          BY Zenon, <3>2 DEF ResolveRecorded, IInv, TypeOK, SlotTypes
      <4> QED BY Zenon, <3>2, <4>1, StateMove DEF ResolveRecorded, IInv, SameLocal, Ending, Launched
    <3>3. CASE CloseRecorded(s)
        BY Zenon, <3>3, StateFrame DEF CloseRecorded, IInv, SameJobs, local, Ending,
            Launched, durable
    <3> QED BY Zenon, <2>2, <3>1, <3>2, <3>3
  <2>3. CASE EndRecorded(s) \/ AckRecorded(s) \/ CancelRecorded(s)
    <3>1. CASE EndRecorded(s)
      <4>1. CASE Goto(s, "rack") /\ UNCHANGED <<state, local>>
          BY Zenon, <3>1, <4>1, StateFrame DEF EndRecorded, IInv, SameTasks, local, taskVars,
              Ending, Launched
      <4>2. CASE Leave(s) /\ UNCHANGED state
          BY Zenon, <3>1, <4>2, StateLeave DEF EndRecorded, SameTasks, PassSteps, taskVars
      <4>3. ASSUME NEW new \in Terminal, Goto(s, "rack"), UNCHANGED local,
                   state' = [state EXCEPT ![at[s]] = new]
            PROVE  StateInv'
        <5>1. at[s] \in Jobs /\ holder[at[s]] \notin Slots
            BY Zenon, <3>1 DEF EndRecorded, IInv, NameInv, VisitInv, Visit, PassSteps
        <5>2. \A q \in Slots : pc[q] \in WorkSteps /\ at[q] = at[s] => q = s
            BY Zenon, <5>1 DEF IInv, LeaseInv
        <5> QED BY Zenon, <3>1, <4>3, <5>1, <5>2, StateWrite DEF EndRecorded, SameTasks,
                local, taskVars
      <4> QED BY Zenon, <3>1, <4>1, <4>2, <4>3 DEF EndRecorded, Terminal
    <3>2. CASE AckRecorded(s)
      <4>1. /\ pc[s] = "rack" /\ markers' = markers \ {mine[s]}
            /\ UNCHANGED <<state, holder, taskJob>>
          BY Zenon, <3>2 DEF AckRecorded, SameJobs, durable
      <4>2. pc[s] \in PassSteps /\ pc[s] \notin Ending
          BY Zenon, <4>1 DEF PassSteps, Ending
      <4>3. mine[s] \notin batch
          BY Zenon, <4>2 DEF IInv, NameInv
      <4>4. batch \ markers' \subseteq batch \ markers
          BY Zenon, <4>1, <4>3
      <4>5. CASE Leave(s)
          BY Zenon, <4>1, <4>2, <4>4, <4>5, StateLeave
      <4>6. CASE Goto(s, "rcancel") /\ UNCHANGED local
        <5>1. at' = at /\ note' = note /\ batch' = batch
            BY Zenon, <4>6 DEF local
        <5>2. "rcancel" \notin Launched \cup {"opentask", "register", "ackmarker", "release"}
            BY Zenon DEF Launched
        <5> QED BY Zenon, <4>1, <4>2, <4>4, <4>6, <5>1, <5>2, StateFree
      <4> QED BY Zenon, <3>2, <4>5, <4>6 DEF AckRecorded
    <3>3. CASE CancelRecorded(s)
      <4>1. /\ pc[s] = "rcancel" /\ Leave(s) /\ UNCHANGED <<holder, taskJob, markers>>
            /\ state' = [state EXCEPT ![at[s]] =
                            IF CanAcknowledge(at[s]) THEN "canceled" ELSE @]
          BY Zenon, <3>3 DEF CancelRecorded, SameTasks, taskVars
      <4>2. pc[s] \in PassSteps /\ "canceled" \in Terminal
          BY Zenon, <4>1 DEF PassSteps, Terminal
      <4>3. state = [j \in Jobs |-> state[j]]
          BY Zenon DEF IInv, TypeOK, JobTypes
      <4>4. \A j \in Jobs : j # at[s] => state'[j] = state[j]
          BY Zenon, <4>1, <4>3
      <4>5. \A j \in Jobs : state[j] \in Terminal => state'[j] \in Terminal
          BY Zenon, <4>1, <4>2, <4>3
      <4>6. ASSUME NEW q \in Slots, pc[q] \in Launched \cup {"opentask", "register"}
            PROVE  state'[at[q]] = state[at[q]]
        <5>1. /\ pc[q] \in WorkSteps
              /\ pc[q] \notin {"leased"} \cup UndoSteps \cup Ending
            BY Zenon, <4>6 DEF WorkSteps, RunSteps, Launched, UndoSteps, Ending
        <5>2. at[q] \in Jobs /\ at[q] # at[s]
            BY Zenon, <4>1, <5>1 DEF IInv, LeaseInv, VisitInv
        <5> QED BY Zenon, <4>4, <5>2
      <4> QED BY Zenon, <4>1, <4>2, <4>5, <4>6, StateLeave
    <3> QED BY Zenon, <2>3, <3>1, <3>2, <3>3
  <2> QED
      BY Zenon, <1>6, <1>2, <2>1, <2>2, <2>3
      DEF Pass
<1>7. ASSUME NEW s \in Slots, Attempt(s)
      PROVE  StateInv'
  <2>1. CASE \/ CheckCancel(s) \/ Undo(s) \/ UndoTask(s)
             \/ UndoAck(s) \/ Acknowledge(s)
    <3>1. CASE CheckCancel(s)
        BY Zenon, <3>1, StateFrame DEF CheckCancel, IInv, durable, local, taskVars,
            Ending, Launched
    <3>2. CASE Undo(s)
        BY Zenon, <3>2, StateFrame, StateRaise DEF Undo, IInv, SameJobs, SameTasks,
            Ending, Launched, durable, taskVars
    <3>3. CASE UndoTask(s)
        BY Zenon, <3>3, StateFrame DEF UndoTask, IInv, SameJobs, local, Ending,
            Launched, durable
    <3>4. CASE UndoAck(s)
      <4>1. /\ pc[s] = "undoack" /\ Goto(s, "undo") /\ markers' = markers \ {mine[s]}
            /\ UNCHANGED <<state, holder, taskJob, at, note, batch>>
          BY Zenon, <3>4 DEF UndoAck, SameJobs, durable
      <4>2. pc[s] \in Fresh /\ pc[s] \in Named /\ pc[s] \notin Ending
          BY Zenon, <4>1 DEF Fresh, UndoSteps, Named, Ending
      <4>3. mine[s] \in TasksOf(at[s]) /\ ~Marked(at[s])
          BY Zenon, <4>2 DEF IInv, NameInv, MarkerInv, TasksOf
      <4>4. mine[s] \notin markers
          BY Zenon, <4>3 DEF Marked
      <4>5. batch \ markers' \subseteq batch \ markers
          BY Zenon, <4>1, <4>4
      <4>6. "undo" \notin Launched \cup {"opentask", "register", "ackmarker", "release"}
          BY Zenon DEF Launched
      <4> QED BY Zenon, <4>1, <4>2, <4>5, <4>6, StateFree
    <3>5. CASE Acknowledge(s)
      <4>1. /\ at[s] \in Jobs
            /\ \A q \in Slots : pc[q] \in WorkSteps /\ at[q] = at[s] => q = s
          BY Zenon, <3>5, AloneAtWork DEF Acknowledge, IInv, WorkSteps, UndoSteps
      <4>2. CASE CanAcknowledge(at[s])
        <5>1. "canceled" \in Terminal
            BY Zenon DEF Terminal
        <5>2. state' = [state EXCEPT ![at[s]] = "canceled"] /\ note' = note /\ Goto(s, "release")
            BY Zenon, <3>5, <4>2 DEF Acknowledge
        <5> QED BY Zenon, <3>5, <4>1, <5>1, <5>2, StateWrite DEF Acknowledge, SameLocal,
                SameTasks, taskVars
      <4>3. CASE ~CanAcknowledge(at[s])
          BY Zenon, <3>5, <4>3, StateRaise DEF Acknowledge, IInv, SameLocal, SameTasks,
              Ending, taskVars
      <4> QED BY Zenon, <4>2, <4>3
    <3> QED BY Zenon, <2>1, <3>1, <3>2, <3>3, <3>4, <3>5
  <2>2. CASE \/ Begin(s) \/ OpenTask(s) \/ Register(s)
             \/ Spawn(s) \/ ReleaseGate(s) \/ StepFails(s)
    <3>1. CASE Begin(s)
      <4>1. /\ at[s] \in Jobs
            /\ \A q \in Slots : pc[q] \in WorkSteps /\ at[q] = at[s] => q = s
          BY Zenon, <3>1, AloneAtWork DEF Begin, IInv, WorkSteps
      <4>2. CanWrite(at[s], "running") => state[at[s]] \notin Terminal
          BY Zenon DEF CanWrite, Terminal
      <4>3. CASE CanWrite(at[s], "running")
        <5>1. pc[s] \notin Ending
            BY Zenon, <3>1 DEF Begin, Ending
        <5>2. state' = [state EXCEPT ![at[s]] = "running"] /\ note' = note /\ Goto(s, "opentask")
            BY Zenon, <3>1, <4>3 DEF Begin
        <5> QED BY Zenon, <3>1, <4>1, <4>2, <4>3, <5>1, <5>2, StateWrite DEF Begin, SameLocal,
                SameTasks, taskVars
      <4>4. CASE ~CanWrite(at[s], "running")
          BY Zenon, <3>1, <4>4, StateRaise DEF Begin, IInv, SameLocal, SameTasks, Ending,
              taskVars
      <4> QED BY Zenon, <4>3, <4>4
    <3>2. CASE OpenTask(s)
      <4>1. /\ pc[s] = "opentask" /\ Goto(s, "register")
            /\ UNCHANGED <<state, holder, at, note, batch, markers>>
          BY Zenon, <3>2 DEF OpenTask, SameJobs, durable
      <4>2. PICK u \in Tasks : taskState[u] = "absent" /\ taskJob' = [taskJob EXCEPT ![u] = at[s]]
          BY Zenon, <3>2 DEF OpenTask
      <4>3. \A t \in batch : t \in Tasks /\ t # u
          BY Zenon, <4>2 DEF IInv, NameInv, TypeOK, SlotTypes
      <4>4. \A t \in batch : taskJob'[t] = taskJob[t]
          BY Zenon, <4>2, <4>3 DEF IInv, TypeOK, TaskTypes
      <4>5. pc[s] \notin Ending
          BY Zenon, <4>1 DEF Ending
      <4> QED BY Zenon, <4>1, <4>4, <4>5, StateMove DEF IInv
    <3>3. CASE Register(s)
        BY Zenon, <3>3, StateFrame DEF Register, IInv, SameJobs, local, Ending,
            durable, Launched
    <3>4. CASE Spawn(s)
        BY Zenon, <3>4, StateFrame DEF Spawn, IInv, SameJobs, local, Ending,
            Launched, durable
    <3>5. CASE ReleaseGate(s)
        BY Zenon, <3>5, StateFrame, StateRaise DEF ReleaseGate, IInv, SameJobs,
            SameLocal, SameTasks, Ending, Launched, durable, taskVars
    <3>6. CASE StepFails(s)
        BY Zenon, <3>6, StateRaise DEF StepFails, IInv, SameJobs, SameLocal, SameTasks,
            Ending, UndoSteps, durable, taskVars
    <3> QED BY Zenon, <2>2, <3>1, <3>2, <3>3, <3>4, <3>5, <3>6
  <2>3. CASE \/ PollExit(s) \/ PollCancel(s) \/ Heartbeat(s)
             \/ ObserveScheduler(s) \/ PollFails(s)
    <3>1. CASE PollExit(s)
        BY Zenon, <3>1, StateFrame DEF PollExit, IInv, durable, local, taskVars,
            Ending, Launched
    <3>2. CASE PollCancel(s)
        BY Zenon, <3>2, StateFrame DEF PollCancel, IInv, durable, local, taskVars,
            Ending, Launched
    <3>3. CASE Heartbeat(s)
        BY Zenon, <3>3, NoLateHeartbeat
    <3>4. CASE ObserveScheduler(s)
        BY Zenon, <3>4, StateSame DEF ObserveScheduler, IInv, local, taskVars
    <3>5. CASE PollFails(s)
        BY Zenon, <3>5, StateFrame, StateRaise DEF PollFails, IInv, SameJobs,
            SameLocal, SameTasks, Ending, Launched, durable, taskVars
    <3> QED BY Zenon, <2>3, <3>1, <3>2, <3>3, <3>4, <3>5
  <2>4. CASE Resolve(s) \/ ResolveFails(s) \/ CloseTask(s) \/ CloseJob(s)
    <3>1. CASE Resolve(s)
      <4>1. \A q \in Slots : q # s => note'[q] = note[q]
          BY Zenon, <3>1 DEF Resolve, IInv, TypeOK, SlotTypes
      <4> QED BY Zenon, <3>1, <4>1, StateMove DEF Resolve, IInv, SameJobs, SameLocal,
              Ending, Launched, durable
    <3>2. CASE ResolveFails(s)
      <4>1. \A q \in Slots : q # s => note'[q] = note[q]
          BY Zenon, <3>2 DEF ResolveFails, Raise, IInv, TypeOK, SlotTypes
      <4> QED BY Zenon, <3>2, <4>1, StateMove DEF ResolveFails, IInv, TypeOK, SlotTypes, Raise,
              SameJobs, SameLocal, SameTasks, Ending, Launched, durable, taskVars
    <3>3. CASE CloseTask(s)
        BY Zenon, <3>3, StateFrame DEF CloseTask, IInv, SameJobs, local, Ending,
            Launched, durable
    <3>4. CASE CloseJob(s)
      <4>1. /\ at[s] \in Jobs
            /\ \A q \in Slots : pc[q] \in WorkSteps /\ at[q] = at[s] => q = s
          BY Zenon, <3>4, AloneAtWork DEF CloseJob, IInv, WorkSteps, RunSteps
      <4>2. note[s] \in Terminal
          BY Zenon, <3>4 DEF CloseJob, IInv, NameInv
      <4> QED BY Zenon, <3>4, <4>1, <4>2, StateWrite, StateRaise DEF CloseJob, IInv, SameLocal,
              SameTasks, Ending, taskVars
    <3> QED BY Zenon, <2>4, <3>1, <3>2, <3>3, <3>4
  <2>5. CASE AckMarker(s) \/ FailTasks(s) \/ FailJob(s) \/ ReleaseLease(s)
    <3>1. CASE AckMarker(s)
      <4>1. CASE Raise(s, "failtasks") /\ UNCHANGED markers
          BY Zenon, <3>1, <4>1, StateRaise DEF AckMarker, IInv, SameJobs, SameLocal,
              Ending, durable
      <4>2. CASE /\ markers' = markers \ {mine[s]} /\ note' = note
                 /\ Goto(s, IF note[s] = "error" THEN "failtasks" ELSE "release")
        <5>1. /\ pc[s] = "ackmarker" /\ pc'[s] \in Ending
              /\ pc'[s] = "release" => note[s] # "error"
              /\ \A q \in Slots : q # s => pc'[q] = pc[q]
            BY Zenon, <3>1, <4>2 DEF AckMarker, Goto, Ending, IInv, TypeOK, SlotTypes
        <5>2. UNCHANGED <<state, holder, taskJob, at, batch>>
            BY Zenon, <3>1 DEF AckMarker, SameJobs, SameLocal, durable
        <5>3. taskJob[mine[s]] = at[s] /\ holder[at[s]] = s
            BY Zenon, <5>1, AloneAtWork DEF IInv, NameInv, Named, WorkSteps, RunSteps
        <5>4. note[s] # "error" => state[at[s]] \in Terminal
            BY Zenon, <5>1 DEF IInv, StateInv
        <5>5. \A q \in Slots : pc[q] \in Ending => q # s /\ pc'[q] = pc[q]
            BY Zenon, <5>1 DEF Ending
        <5>6. ASSUME NEW q \in Slots
              PROVE  /\ pc'[q] \in Launched \cup {"opentask", "register"}
                            => state[at[q]] = "running"
                     /\ pc'[q] = "ackmarker" /\ note[q] # "error" => state[at[q]] \in Terminal
                     /\ pc'[q] = "release" /\ note[q] # "unresolved" => state[at[q]] \in Terminal
            BY Zenon, <5>1, <5>4 DEF IInv, StateInv, Ending, Launched
        <5>7. ASSUME NEW t \in batch \ markers'
              PROVE  \/ state[taskJob[t]] \in Terminal
                     \/ \E q \in Slots : /\ holder[taskJob[t]] = q /\ at[q] = taskJob[t]
                                         /\ pc'[q] \in Ending /\ note[q] # "unresolved"
          <6>1. CASE t = mine[s]
              BY Zenon, <5>1, <5>3, <5>4, <6>1
          <6>2. CASE t # mine[s]
              BY Zenon, <4>2, <5>5, <5>7, <6>2 DEF IInv, StateInv
          <6> QED BY Zenon, <6>1, <6>2
        <5>8. \A q \in Slots :
                 /\ pc'[q] \in Launched \cup {"opentask", "register"} => state'[at'[q]] = "running"
                 /\ pc'[q] = "ackmarker" /\ note'[q] # "error" => state'[at'[q]] \in Terminal
                 /\ pc'[q] = "release" /\ note'[q] # "unresolved" => state'[at'[q]] \in Terminal
          BY Zenon, <4>2, <5>2, <5>6
        <5>9. \A t \in batch' \ markers' :
                 \/ state'[taskJob'[t]] \in Terminal
                 \/ \E q \in Slots : /\ holder'[taskJob'[t]] = q /\ at'[q] = taskJob'[t]
                                     /\ pc'[q] \in Ending /\ note'[q] # "unresolved"
          BY Zenon, <4>2, <5>2, <5>7
        <5> QED BY Zenon, <5>8, <5>9 DEF StateInv
      <4> QED BY Zenon, <3>1, <4>1, <4>2 DEF AckMarker
    <3>2. CASE FailTasks(s)
        BY Zenon, <3>2, StateMove, StateFrame DEF FailTasks, IInv, Deferred, Escape, Mishap,
            SameJobs, SameLocal, Terminal, Ending, Launched, durable, Steady
    <3>3. CASE FailJob(s)
      <4>1. /\ at[s] \in Jobs
            /\ \A q \in Slots : pc[q] \in WorkSteps /\ at[q] = at[s] => q = s
          BY Zenon, <3>3, AloneAtWork DEF FailJob, IInv, WorkSteps
      <4>2. CASE CanWrite(at[s], "failed")
        <5>1. "failed" \in Terminal
            BY Zenon DEF Terminal
        <5>2. state' = [state EXCEPT ![at[s]] = "failed"] /\ note' = note /\ Goto(s, "release")
            BY Zenon, <3>3, <4>2 DEF FailJob, Escape, Mishap, Steady
        <5> QED BY Zenon, <3>3, <4>1, <5>1, <5>2, StateWrite DEF FailJob, SameLocal, SameTasks,
                taskVars
      <4>3. CASE ~CanWrite(at[s], "failed")
        <5>1. /\ state[at[s]] \in Terminal
              /\ note' = [note EXCEPT ![s] = "escaped"]
            BY Zenon, <3>3, <4>3 DEF FailJob, CanWrite, Escape, Mishap, Steady
        <5>2. note'[s] = "escaped" /\ \A q \in Slots : q # s => note'[q] = note[q]
            BY Zenon, <5>1 DEF IInv, TypeOK, SlotTypes
        <5> QED BY Zenon, <3>3, <4>3, <5>1, <5>2, StateMove DEF FailJob, IInv, Escape, Mishap,
                SameLocal, SameTasks, Ending, Launched, taskVars, Steady
      <4> QED BY Zenon, <4>2, <4>3
    <3>4. CASE ReleaseLease(s)
      <4>1. /\ pc[s] = "release" /\ pc'[s] = "idle"
            /\ \A q \in Slots : q # s => /\ pc'[q] = pc[q] /\ at'[q] = at[q]
                                        /\ note'[q] = note[q]
            /\ UNCHANGED <<state, taskJob, batch, markers>>
          BY Zenon, <3>4 DEF ReleaseLease, Goto, taskVars, IInv, TypeOK, SlotTypes
      <4>2. at[s] \in Jobs /\ holder[at[s]] = s
          BY Zenon, <4>1, AloneAtWork DEF IInv, WorkSteps
      <4>3. holder' = [holder EXCEPT ![at[s]] = Nobody]
          BY Zenon, <3>4, <4>2 DEF ReleaseLease, Mishap, Steady
      <4>4. \A j \in Jobs : j # at[s] => holder'[j] = holder[j]
          BY Zenon, <4>3 DEF IInv, TypeOK, JobTypes
      <4>5. ASSUME NEW q \in Slots
            PROVE  /\ pc'[q] \in Launched \cup {"opentask", "register"}
                          => state[at'[q]] = "running"
                   /\ pc'[q] = "ackmarker" /\ note'[q] # "error" => state[at'[q]] \in Terminal
                   /\ pc'[q] = "release" /\ note'[q] # "unresolved" => state[at'[q]] \in Terminal
        <5>1. CASE q = s
            BY Zenon, <4>1, <5>1 DEF Launched
        <5>2. CASE q # s
          <6>1. pc'[q] = pc[q] /\ at'[q] = at[q] /\ note'[q] = note[q]
              BY Zenon, <4>1, <5>2
          <6>2. /\ pc[q] \in Launched \cup {"opentask", "register"} => state[at[q]] = "running"
                /\ pc[q] = "ackmarker" /\ note[q] # "error" => state[at[q]] \in Terminal
                /\ pc[q] = "release" /\ note[q] # "unresolved" => state[at[q]] \in Terminal
              BY Zenon DEF IInv, StateInv
          <6> QED BY Zenon, <6>1, <6>2
        <5> QED BY Zenon, <5>1, <5>2
      <4>6. ASSUME NEW t \in batch \ markers
            PROVE  \/ state[taskJob[t]] \in Terminal
                   \/ \E q \in Slots : /\ holder'[taskJob[t]] = q /\ at'[q] = taskJob[t]
                                       /\ pc'[q] \in Ending /\ note'[q] # "unresolved"
        <5>1. taskJob[t] \in Jobs
            BY Zenon, <4>6 DEF IInv, NameInv
        <5>2. SUFFICES ASSUME NEW q \in Slots, holder[taskJob[t]] = q, at[q] = taskJob[t],
                              pc[q] \in Ending, note[q] # "unresolved"
                       PROVE  \/ state[taskJob[t]] \in Terminal
                              \/ /\ holder'[taskJob[t]] = q /\ at'[q] = taskJob[t]
                                 /\ pc'[q] \in Ending /\ note'[q] # "unresolved"
            BY Zenon, <4>6 DEF IInv, StateInv
        <5>3. CASE q = s
          <6>1. pc[q] = "release"
              BY Zenon, <4>1, <5>3
          <6>2. state[at[q]] \in Terminal
              BY Zenon, <5>2, <6>1 DEF IInv, StateInv
          <6> QED BY Zenon, <5>2, <6>2
        <5>4. CASE q # s
            BY Zenon, <4>1, <4>2, <4>4, <5>1, <5>2, <5>4
        <5> QED BY Zenon, <5>3, <5>4
      <4>7. \A q \in Slots :
               /\ pc'[q] \in Launched \cup {"opentask", "register"} => state'[at'[q]] = "running"
               /\ pc'[q] = "ackmarker" /\ note'[q] # "error" => state'[at'[q]] \in Terminal
               /\ pc'[q] = "release" /\ note'[q] # "unresolved" => state'[at'[q]] \in Terminal
        BY Zenon, <4>1, <4>5
      <4>8. \A t \in batch' \ markers' :
               \/ state'[taskJob'[t]] \in Terminal
               \/ \E q \in Slots : /\ holder'[taskJob'[t]] = q /\ at'[q] = taskJob'[t]
                                   /\ pc'[q] \in Ending /\ note'[q] # "unresolved"
        <5>1. UNCHANGED <<state, taskJob, batch, markers>>
            BY Zenon, <4>1
        <5> QED BY Zenon, <5>1, <4>6
      <4> QED BY Zenon, <4>7, <4>8 DEF StateInv
    <3> QED BY Zenon, <2>5, <3>1, <3>2, <3>3, <3>4
  <2> QED
      BY Zenon, <1>7, <1>3, <2>1, <2>2, <2>3, <2>4, <2>5
      DEF Attempt
<1>8. CASE Crash
    BY Zenon, <1>8 DEF Crash, StateInv, Launched
<1> QED BY Zenon, <1>1, <1>4, <1>5, <1>6, <1>7, <1>8 DEF Next
=============================================================================
