--------------------------- MODULE FairLockProofs ---------------------------
(***************************************************************************)
(* Safety of FairBoundedFileLock for any number of threads and processes.  *)
(***************************************************************************)
EXTENDS FairLock, TLAPS

(* The lock is owned exactly by the thread that is past its ticket, and    *)
(* only the holder of the file lock is inside a critical section.          *)
OwnershipInv ==
    /\ \A t \in Threads :
          pc[t] \in {"filelock", "held"} <=> owner[ProcOf[t]] = t
    /\ \A t \in Threads : pc[t] = "held" => fileHolder = ProcOf[t]

(* Where the tickets are: served and abandoned tickets lie below next, the *)
(* served ticket is not abandoned, and it belongs to the owner if there is *)
(* one.                                                                    *)
ServingInv ==
    \A p \in Processes :
        /\ serving[p] <= next[p]
        /\ serving[p] \notin abandoned[p]
        /\ \A n \in abandoned[p] : serving[p] < n /\ n < next[p]
        /\ owner[p] # NoThread => serving[p] < next[p]

TicketInv ==
    \A t \in Threads :
        /\ owner[ProcOf[t]] = t => ticket[t] = serving[ProcOf[t]]
        /\ pc[t] = "waiting" =>
              /\ serving[ProcOf[t]] <= ticket[t]
              /\ ticket[t] < next[ProcOf[t]]
              /\ ticket[t] \notin abandoned[ProcOf[t]]
              /\ owner[ProcOf[t]] # NoThread => serving[ProcOf[t]] < ticket[t]
        /\ \A u \in Threads :
              pc[t] = "waiting" /\ pc[u] = "waiting"
                /\ ProcOf[t] = ProcOf[u] /\ ticket[t] = ticket[u] => t = u

(* Every outstanding ticket is accounted for, and the thread whose ticket  *)
(* a free lock serves is awake.                                            *)
CoverInv ==
    /\ \A p \in Processes : \A n \in Nat :
          serving[p] <= n /\ n < next[p] =>
              \/ n \in abandoned[p]
              \/ \E t \in ThreadsOf(p) :
                    ticket[t] = n /\ pc[t] \in {"waiting", "filelock", "held"}
    /\ \A t \in Threads :
          pc[t] = "waiting" /\ owner[ProcOf[t]] = NoThread
            /\ ticket[t] = serving[ProcOf[t]] => t \notin asleep

IInv == TypeOK /\ OwnershipInv /\ ServingInv /\ TicketInv /\ CoverInv

-----------------------------------------------------------------------------

USE ProcOfAssumption, BoundAssumption

(* Every step keeps the fields of the lock and of the threads in range:    *)
(* the nesting depth in particular never leaves 0..MaxDepth.               *)
LEMMA TypeStep == TypeOK /\ [Next]_vars => TypeOK'
<1> SUFFICES ASSUME TypeOK, [Next]_vars PROVE TypeOK'
  BY Zenon
<1>1. ASSUME NEW t \in Threads, NEW late \in BOOLEAN, TakeTicket(t, late)
      PROVE  TypeOK'
  BY <1>1 DEF TakeTicket, Admit, Abandon, SkipAbandoned, NotifyAll, TypeOK
<1>2. ASSUME NEW t \in Threads, Wake(t) PROVE TypeOK'
  BY <1>2 DEF Wake, Admit, Abandon, SkipAbandoned, NotifyAll, TypeOK
<1>3. ASSUME NEW t \in Threads, Reenter(t) PROVE TypeOK'
  BY <1>3 DEF Reenter, TypeOK
<1>4. ASSUME NEW t \in Threads, FileAcquire(t) PROVE TypeOK'
  BY Zenon, <1>4 DEF FileAcquire, localVars, TypeOK
<1>5. ASSUME NEW t \in Threads, FileAcquireFails(t) PROVE TypeOK'
  BY <1>5 DEF FileAcquireFails, PassOn, SkipAbandoned, NotifyAll, TypeOK
<1>6. ASSUME NEW t \in Threads, ReleaseNested(t) PROVE TypeOK'
  BY <1>6 DEF ReleaseNested, TypeOK
<1>7. ASSUME NEW t \in Threads, Release(t) PROVE TypeOK'
  BY <1>7 DEF Release, PassOn, SkipAbandoned, NotifyAll, TypeOK
<1>8. ASSUME NEW t \in Threads, DeadlinePasses(t) PROVE TypeOK'
  BY Zenon, <1>8 DEF DeadlinePasses, localVars, TypeOK
<1>9. ASSUME NEW p \in Processes, Crash(p) PROVE TypeOK'
  BY <1>9 DEF Crash, NotifyAll, TypeOK
<1>10. CASE UNCHANGED vars
  BY Zenon, <1>10 DEF vars, TypeOK
<1> QED
  BY Zenon, <1>1, <1>2, <1>3, <1>4, <1>5, <1>6, <1>7, <1>8, <1>9, <1>10
     DEF Next, ThreadStep

-----------------------------------------------------------------------------

(* Taking local admission, at once or on waking up, keeps the invariant:   *)
(* k is the ticket the thread enters with, served and nobody else's.       *)
LEMMA AdmitStep ==
    ASSUME IInv, TypeOK', NEW t \in Threads,
           pc[t] \in {"idle", "waiting"},
           Admit(t),
           MayEnter(ProcOf[t], ticket'[t]),
           ticket' = [ticket EXCEPT ![t] = ticket'[t]],
           \/ pc[t] = "waiting" /\ UNCHANGED <<next, ticket>>
           \/ /\ pc[t] = "idle"
              /\ ticket'[t] = next[ProcOf[t]]
              /\ next' = [next EXCEPT ![ProcOf[t]] = @ + 1],
           UNCHANGED <<serving, abandoned, fileHolder>>
    PROVE  IInv'
<1> DEFINE p == ProcOf[t]
<1> p \in Processes
  BY Zenon
<1>1. OwnershipInv'
  BY DEF Admit, MayEnter, IInv, OwnershipInv, TypeOK
<1>2. ServingInv'
  BY DEF Admit, MayEnter, IInv, ServingInv, TicketInv, TypeOK
<1>3. TicketInv'
  BY DEF Admit, MayEnter, IInv, OwnershipInv, ServingInv, TicketInv, TypeOK
<1>4. CoverInv'
  <2>1. ASSUME NEW q \in Processes, NEW n \in Nat,
               serving'[q] <= n, n < next'[q], n \notin abandoned'[q]
        PROVE  \E u \in ThreadsOf(q) :
                  ticket'[u] = n /\ pc'[u] \in {"waiting", "filelock", "held"}
    <3>1. CASE q = p /\ n = ticket'[t]
      BY Zenon, <3>1 DEF Admit, ThreadsOf, IInv, TypeOK
    <3>2. CASE ~(q = p /\ n = ticket'[t])
      <4>1. n < next[q]
        <5>1. CASE pc[t] = "waiting"
          BY Zenon, <5>1, <2>1
        <5>2. CASE pc[t] = "idle"
          <6>1. next' = [next EXCEPT ![p] = @ + 1] /\ ticket'[t] = next[p]
            BY Zenon, <5>2
          <6>2. CASE q = p
            <7>1. next'[p] = next[p] + 1 /\ next[p] \in Nat
              BY Zenon, <6>1 DEF IInv, TypeOK
            <7> QED BY <7>1, <6>1, <6>2, <2>1, <3>2
          <6>3. CASE q # p
            BY Zenon, <6>1, <6>3, <2>1 DEF IInv, TypeOK
          <6> QED BY Zenon, <6>2, <6>3
        <5> QED BY Zenon, <5>1, <5>2
      <4>2. PICK u \in ThreadsOf(q) :
               ticket[u] = n /\ pc[u] \in {"waiting", "filelock", "held"}
        BY Zenon, <2>1, <4>1 DEF IInv, CoverInv
      <4>3. u # t
        BY Zenon, <3>2, <4>2 DEF ThreadsOf, IInv, TypeOK
      <4>4. ticket'[u] = n /\ pc'[u] = pc[u]
        BY <4>2, <4>3 DEF Admit, ThreadsOf, IInv, TypeOK
      <4> QED BY Zenon, <4>2, <4>4
    <3> QED BY Zenon, <3>1, <3>2
  <2>2. ASSUME NEW u \in Threads, pc'[u] = "waiting",
               owner'[ProcOf[u]] = NoThread, ticket'[u] = serving'[ProcOf[u]]
        PROVE  u \notin asleep'
    BY <2>2 DEF Admit, IInv, CoverInv, TypeOK
  <2> QED BY <2>1, <2>2 DEF CoverInv
<1> QED BY Zenon, <1>1, <1>2, <1>3, <1>4 DEF IInv

(* A thread that gives up its ticket k, new or waited for, leaves a        *)
(* consistent queue of tickets: the served ticket moves only past          *)
(* abandoned ones, and every waiter is woken to look again.                *)
LEMMA AbandonStep ==
    ASSUME IInv, TypeOK', NEW t \in Threads, NEW k \in Nat,
           pc[t] \in {"idle", "waiting"},
           Abandon(t, k),
           ~MayEnter(ProcOf[t], k),
           \/ pc[t] = "waiting" /\ k = ticket[t] /\ UNCHANGED <<next, ticket>>
           \/ /\ pc[t] = "idle"
              /\ k = next[ProcOf[t]]
              /\ next' = [next EXCEPT ![ProcOf[t]] = @ + 1]
              /\ ticket' = [ticket EXCEPT ![t] = k],
           UNCHANGED fileHolder
    PROVE  IInv'
<1> DEFINE p == ProcOf[t]
<1> p \in Processes
  BY Zenon
<1>0. PICK n \in serving[p]..next'[p] :
         /\ n \notin abandoned[p] \cup {k}
         /\ serving[p]..(n - 1) \subseteq abandoned[p] \cup {k}
         /\ serving' = [serving EXCEPT ![p] = n]
         /\ abandoned' = [abandoned EXCEPT
                             ![p] = (abandoned[p] \cup {k}) \ (serving[p]..(n - 1))]
  BY Zenon DEF Abandon, SkipAbandoned
<1>n. n \in Nat /\ serving[p] <= n /\ n <= next'[p]
  BY <1>0 DEF IInv, TypeOK
<1>a. serving[p] <= k /\ k < next'[p] /\ k \notin abandoned[p]
  BY DEF IInv, ServingInv, TicketInv, TypeOK
<1>b. n = serving[p]
  (* the served ticket is abandoned by neither an earlier call nor this one *)
  <2>1. serving[p] # k
    <3>1. CASE owner[p] = NoThread
      BY Zenon, <3>1 DEF MayEnter
    <3>2. CASE owner[p] # NoThread
      <4>1. /\ serving[p] < next[p]
            /\ pc[t] = "waiting" => serving[p] < ticket[t]
        BY Zenon, <3>2 DEF IInv, ServingInv, TicketInv
      <4>2. serving[p] \in Nat /\ next[p] \in Nat /\ ticket[t] \in Nat
        BY Zenon DEF IInv, TypeOK
      <4>3. CASE pc[t] = "waiting" /\ k = ticket[t]
        BY <4>1, <4>2, <4>3
      <4>4. CASE k = next[p]
        BY <4>1, <4>2, <4>4
      <4> QED BY Zenon, <4>3, <4>4
    <3> QED BY Zenon, <3>1, <3>2
  <2>2. serving[p] \notin abandoned[p] \cup {k}
    BY Zenon, <2>1 DEF IInv, ServingInv
  <2>3. serving[p] \in Nat
    BY Zenon DEF IInv, TypeOK
  <2>4. serving[p] \notin serving[p]..(n - 1)
    BY Zenon, <1>0, <2>2
  <2> QED BY <1>n, <2>3, <2>4
<1>c. serving' = serving /\ abandoned' = [abandoned EXCEPT ![p] = @ \cup {k}]
  <2>1. serving' = serving
    BY Zenon, <1>0, <1>b DEF IInv, TypeOK
  <2>2. serving[p]..(n - 1) = {}
    BY <1>b DEF IInv, TypeOK
  <2>3. (abandoned[p] \cup {k}) \ (serving[p]..(n - 1)) = abandoned[p] \cup {k}
    BY Zenon, <2>2
  <2> QED BY Zenon, <1>0, <2>1, <2>3
<1>1. OwnershipInv'
  BY DEF Abandon, IInv, OwnershipInv, TypeOK
<1>2. ServingInv'
  BY <1>a, <1>b, <1>c, <1>0 DEF Abandon, IInv, ServingInv, TypeOK
<1>3. TicketInv'
  BY <1>a, <1>c DEF Abandon, IInv, OwnershipInv, ServingInv, TicketInv, TypeOK
<1>4. CoverInv'
  <2>1. ASSUME NEW q \in Processes, NEW i \in Nat,
               serving'[q] <= i, i < next'[q], i \notin abandoned'[q]
        PROVE  \E u \in ThreadsOf(q) :
                  ticket'[u] = i /\ pc'[u] \in {"waiting", "filelock", "held"}
    <3>1. i < next[q] /\ serving[q] <= i /\ i \notin abandoned[q] /\ ~(q = p /\ i = k)
      BY <2>1, <1>c DEF IInv, TypeOK
    <3>2. PICK u \in ThreadsOf(q) :
             ticket[u] = i /\ pc[u] \in {"waiting", "filelock", "held"}
      BY Zenon, <3>1 DEF IInv, CoverInv
    <3>3. u # t
      BY Zenon, <3>1, <3>2 DEF ThreadsOf, IInv, TypeOK
    <3>4. ticket'[u] = i /\ pc'[u] = pc[u]
      BY Zenon, <3>2, <3>3 DEF Abandon, ThreadsOf, IInv, TypeOK
    <3> QED BY Zenon, <3>2, <3>4
  <2>2. ASSUME NEW u \in Threads, pc'[u] = "waiting",
               owner'[ProcOf[u]] = NoThread, ticket'[u] = serving'[ProcOf[u]]
        PROVE  u \notin asleep'
    BY <2>2, <1>c DEF Abandon, NotifyAll, ThreadsOf, IInv, CoverInv, TypeOK
  <2> QED BY <2>1, <2>2 DEF CoverInv
<1> QED BY Zenon, <1>1, <1>2, <1>3, <1>4 DEF IInv

(* Passing local admission on, after a release or a failed file lock,      *)
(* serves the next ticket that is not abandoned and wakes its waiter.      *)
LEMMA PassOnStep ==
    ASSUME IInv, TypeOK', NEW t \in Threads,
           pc[t] \in {"filelock", "held"},
           PassOn(t),
           fileHolder' = fileHolder \/ pc[t] = "held"
    PROVE  IInv'
<1> DEFINE p == ProcOf[t]
<1> p \in Processes
  BY Zenon
<1>o. owner[p] = t /\ ticket[t] = serving[p] /\ serving[p] < next[p]
  BY DEF IInv, OwnershipInv, TicketInv, ServingInv
<1>0. PICK n \in (serving[p] + 1)..next[p] :
         /\ n \notin abandoned[p]
         /\ (serving[p] + 1)..(n - 1) \subseteq abandoned[p]
         /\ serving' = [serving EXCEPT ![p] = n]
         /\ abandoned' = [abandoned EXCEPT
                             ![p] = abandoned[p] \ ((serving[p] + 1)..(n - 1))]
  BY Zenon DEF PassOn, SkipAbandoned
<1>n. n \in Nat /\ serving[p] < n /\ n <= next[p]
  BY <1>0 DEF IInv, TypeOK
<1>w. ASSUME NEW u \in Threads, ProcOf[u] = p, pc[u] = "waiting"
      PROVE  u # t /\ n <= ticket[u]
  (* a skipped ticket is abandoned, and a waiter's is not *)
  BY <1>w, <1>0, <1>n, <1>o DEF IInv, TicketInv, TypeOK
<1>1. OwnershipInv'
  BY <1>o DEF PassOn, IInv, OwnershipInv, TypeOK
<1>2. ServingInv'
  <2> SUFFICES ASSUME NEW q \in Processes
               PROVE  /\ serving'[q] <= next'[q]
                      /\ serving'[q] \notin abandoned'[q]
                      /\ \A i \in abandoned'[q] : serving'[q] < i /\ i < next'[q]
                      /\ owner'[q] # NoThread => serving'[q] < next'[q]
    BY Zenon DEF ServingInv
  <2>1. CASE q = p
    <3>1. serving'[p] = n /\ next'[p] = next[p] /\ owner'[p] = NoThread
      BY Zenon, <1>0 DEF PassOn, IInv, TypeOK
    <3>2. abandoned'[p] = abandoned[p] \ ((serving[p] + 1)..(n - 1))
      BY Zenon, <1>0 DEF IInv, TypeOK
    <3>3. ASSUME NEW i \in abandoned'[p] PROVE n < i /\ i < next[p]
      <4>1. i \in Nat /\ i # n /\ serving[p] < i /\ i < next[p]
        BY <1>0, <3>2 DEF IInv, ServingInv, TypeOK
      <4>2. ~(serving[p] + 1 <= i /\ i <= n - 1)
        BY <3>2, <4>1, <1>n DEF IInv, TypeOK
      <4> QED BY <4>1, <4>2, <1>n DEF IInv, TypeOK
    <3> QED BY Zenon, <2>1, <3>1, <3>2, <3>3, <1>0, <1>n
  <2>2. CASE q # p
    BY Zenon, <2>2, <1>0 DEF PassOn, IInv, ServingInv, TypeOK
  <2> QED BY Zenon, <2>1, <2>2
<1>3. TicketInv'
  BY <1>0, <1>n, <1>w, <1>o DEF PassOn, IInv, OwnershipInv, TicketInv, TypeOK
<1>4. CoverInv'
  <2>1. ASSUME NEW q \in Processes, NEW i \in Nat,
               serving'[q] <= i, i < next'[q], i \notin abandoned'[q]
        PROVE  \E u \in ThreadsOf(q) :
                  ticket'[u] = i /\ pc'[u] \in {"waiting", "filelock", "held"}
    <3>1. i < next[q] /\ serving[q] <= i /\ i \notin abandoned[q] /\ ~(q = p /\ i = serving[p])
      BY <2>1, <1>0, <1>n DEF PassOn, IInv, TypeOK
    <3>2. PICK u \in ThreadsOf(q) :
             ticket[u] = i /\ pc[u] \in {"waiting", "filelock", "held"}
      BY Zenon, <3>1 DEF IInv, CoverInv
    <3>3. u # t
      BY Zenon, <3>1, <3>2, <1>o DEF ThreadsOf
    <3>4. ticket'[u] = i /\ pc'[u] = pc[u]
      BY Zenon, <3>2, <3>3 DEF PassOn, ThreadsOf, IInv, TypeOK
    <3> QED BY Zenon, <3>2, <3>4
  <2>2. ASSUME NEW u \in Threads, pc'[u] = "waiting",
               owner'[ProcOf[u]] = NoThread, ticket'[u] = serving'[ProcOf[u]]
        PROVE  u \notin asleep'
    BY <2>2, <1>0 DEF PassOn, NotifyAll, ThreadsOf, IInv, CoverInv, TypeOK
  <2> QED BY <2>1, <2>2 DEF CoverInv
<1> QED BY Zenon, <1>1, <1>2, <1>3, <1>4 DEF IInv

(* The whole next-state relation keeps the invariant. *)
LEMMA InvStep == IInv /\ [Next]_vars => IInv'
<1> SUFFICES ASSUME IInv, [Next]_vars PROVE IInv'
  BY Zenon
<1>t. TypeOK'
  BY Zenon, TypeStep DEF IInv
<1>1. ASSUME NEW t \in Threads, NEW late \in BOOLEAN, TakeTicket(t, late)
      PROVE  IInv'
  <2> DEFINE p == ProcOf[t]
             k == next[p]
  <2>0. /\ pc[t] = "idle" /\ p \in Processes /\ k \in Nat
        /\ next' = [next EXCEPT ![p] = k + 1]
        /\ ticket' = [ticket EXCEPT ![t] = k]
        /\ ticket'[t] = k
        /\ UNCHANGED fileHolder
    BY Zenon, <1>1 DEF TakeTicket, IInv, TypeOK
  <2>1. CASE MayEnter(p, k)
    <3>1. Admit(t) /\ UNCHANGED <<serving, abandoned>>
      BY Zenon, <1>1, <2>1 DEF TakeTicket
    <3> QED BY Zenon, <1>t, <2>0, <2>1, <3>1, AdmitStep
  <2>2. CASE ~MayEnter(p, k) /\ late
    <3>1. Abandon(t, k)
      BY Zenon, <1>1, <2>2 DEF TakeTicket
    <3> QED BY Zenon, <1>t, <2>0, <2>2, <3>1, AbandonStep
  <2>3. CASE ~MayEnter(p, k) /\ ~late
    <3>0. /\ pc' = [pc EXCEPT ![t] = "waiting"]
          /\ asleep' = asleep \cup {t}
          /\ UNCHANGED <<owner, depth, serving, abandoned, expired>>
      BY Zenon, <1>1, <2>3 DEF TakeTicket
    <3>1. OwnershipInv'
      BY Zenon, <2>0, <3>0 DEF IInv, OwnershipInv, TypeOK
    <3>2. ServingInv'
      BY <2>0, <3>0 DEF IInv, ServingInv, TypeOK
    <3>3. TicketInv'
      BY <2>0, <3>0 DEF IInv, OwnershipInv, ServingInv, TicketInv, TypeOK
    <3>4. CoverInv'
      <4>1. ASSUME NEW q \in Processes, NEW i \in Nat,
                   serving'[q] <= i, i < next'[q], i \notin abandoned'[q]
            PROVE  \E u \in ThreadsOf(q) :
                      ticket'[u] = i /\ pc'[u] \in {"waiting", "filelock", "held"}
        <5>1. CASE q = p /\ i = k
          BY Zenon, <5>1, <2>0, <3>0 DEF ThreadsOf, IInv, TypeOK
        <5>2. CASE ~(q = p /\ i = k)
          <6>1. i < next[q] /\ serving[q] <= i /\ i \notin abandoned[q]
            BY <4>1, <5>2, <2>0, <3>0 DEF IInv, TypeOK
          <6>2. PICK u \in ThreadsOf(q) :
                   ticket[u] = i /\ pc[u] \in {"waiting", "filelock", "held"}
            BY Zenon, <6>1 DEF IInv, CoverInv
          <6>3. u # t
            BY Zenon, <6>2, <2>0
          <6>4. ticket'[u] = i /\ pc'[u] = pc[u]
            BY Zenon, <6>2, <6>3, <2>0, <3>0 DEF ThreadsOf, IInv, TypeOK
          <6> QED BY Zenon, <6>2, <6>4
        <5> QED BY Zenon, <5>1, <5>2
      <4>2. ASSUME NEW u \in Threads, pc'[u] = "waiting",
                   owner'[ProcOf[u]] = NoThread,
                   ticket'[u] = serving'[ProcOf[u]]
            PROVE  u \notin asleep'
        BY Zenon, <4>2, <2>0, <2>3, <3>0 DEF MayEnter, IInv, CoverInv, TypeOK
      <4> QED BY Zenon, <4>1, <4>2 DEF CoverInv
    <3> QED BY Zenon, <1>t, <3>1, <3>2, <3>3, <3>4 DEF IInv
  <2> QED BY Zenon, <2>1, <2>2, <2>3
<1>2. ASSUME NEW t \in Threads, Wake(t) PROVE IInv'
  <2>0. pc[t] = "waiting" /\ UNCHANGED <<next, ticket, fileHolder>>
    BY Zenon, <1>2 DEF Wake
  <2>1. CASE MayEnter(ProcOf[t], ticket[t])
    <3>1. Admit(t) /\ UNCHANGED <<serving, abandoned>>
      BY Zenon, <1>2, <2>1 DEF Wake
    <3>2. ticket' = [ticket EXCEPT ![t] = ticket'[t]]
      BY Zenon, <2>0 DEF IInv, TypeOK
    <3> QED BY Zenon, <1>t, <2>0, <2>1, <3>1, <3>2, AdmitStep
  <2>2. CASE ~MayEnter(ProcOf[t], ticket[t]) /\ t \in expired
    <3>1. Abandon(t, ticket[t]) /\ ticket[t] \in Nat
      BY Zenon, <1>2, <2>2 DEF Wake, IInv, TypeOK
    <3> QED BY Zenon, <1>t, <2>0, <2>2, <3>1, AbandonStep
  <2>3. CASE ~MayEnter(ProcOf[t], ticket[t]) /\ t \notin expired
    <3>0. /\ asleep' = asleep \cup {t}
          /\ UNCHANGED <<owner, depth, serving, abandoned, pc, expired>>
      BY Zenon, <1>2, <2>3 DEF Wake
    <3> QED BY <1>t, <2>0, <2>3, <3>0
            DEF MayEnter, IInv, OwnershipInv, ServingInv, TicketInv, CoverInv, ThreadsOf
  <2> QED BY Zenon, <2>1, <2>2, <2>3
<1>3. ASSUME NEW t \in Threads, Reenter(t) PROVE IInv'
  BY <1>t, <1>3 DEF Reenter, IInv, OwnershipInv, ServingInv, TicketInv, CoverInv,
                    ThreadsOf
<1>4. ASSUME NEW t \in Threads, FileAcquire(t) PROVE IInv'
  <2>1. OwnershipInv'
    BY <1>4 DEF FileAcquire, localVars, IInv, OwnershipInv, TypeOK
  <2>2. ServingInv' /\ TicketInv'
    BY Zenon, <1>4 DEF FileAcquire, localVars, IInv, ServingInv, TicketInv, TypeOK
  <2>3. CoverInv'
    BY <1>4 DEF FileAcquire, localVars, IInv, CoverInv, ThreadsOf, TypeOK
  <2> QED BY Zenon, <1>t, <2>1, <2>2, <2>3 DEF IInv
<1>5. ASSUME NEW t \in Threads, FileAcquireFails(t) PROVE IInv'
  BY Zenon, <1>t, <1>5, PassOnStep DEF FileAcquireFails
<1>6. ASSUME NEW t \in Threads, ReleaseNested(t) PROVE IInv'
  BY <1>t, <1>6 DEF ReleaseNested, IInv, OwnershipInv, ServingInv, TicketInv,
                    CoverInv, ThreadsOf
<1>7. ASSUME NEW t \in Threads, Release(t) PROVE IInv'
  BY Zenon, <1>t, <1>7, PassOnStep DEF Release
<1>8. ASSUME NEW t \in Threads, DeadlinePasses(t) PROVE IInv'
  BY <1>t, <1>8 DEF DeadlinePasses, localVars, IInv, OwnershipInv, ServingInv,
                    TicketInv, CoverInv, ThreadsOf
<1>9. ASSUME NEW p \in Processes, Crash(p) PROVE IInv'
  <2>1. OwnershipInv'
    BY Zenon, <1>9 DEF Crash, ThreadsOf, IInv, OwnershipInv, TypeOK
  <2>2. ServingInv' /\ TicketInv'
    BY <1>9 DEF Crash, IInv, ServingInv, TicketInv, TypeOK
  <2>3. CoverInv'
    BY <1>9 DEF Crash, NotifyAll, IInv, CoverInv, ThreadsOf, TypeOK
  <2> QED BY Zenon, <1>t, <2>1, <2>2, <2>3 DEF IInv
<1>10. CASE UNCHANGED vars
  BY <1>t, <1>10 DEF vars, IInv, OwnershipInv, ServingInv, TicketInv, CoverInv,
                     ThreadsOf
<1> QED
  BY Zenon, <1>1, <1>2, <1>3, <1>4, <1>5, <1>6, <1>7, <1>8, <1>9, <1>10
     DEF Next, ThreadStep

(* The lock object starts in the invariant. *)
LEMMA InvInit == Init => IInv
  BY DEF Init, IInv, TypeOK, OwnershipInv, ServingInv, TicketInv, CoverInv

(* Hence every reachable state of the lock satisfies it. *)
LEMMA InvHolds == Spec => []IInv
  BY InvInit, InvStep, PTL DEF Spec

-----------------------------------------------------------------------------

(* FairBoundedFileLock keeps its fields in range for any number of threads *)
(* and processes.                                                          *)
THEOREM LockTypeCorrect == Spec => []TypeOK
<1>1. IInv => TypeOK
  BY Zenon DEF IInv
<1> QED BY <1>1, InvHolds, PTL

(* At most one thread of all processes is between a returned acquire() and *)
(* the outermost release().                                                *)
THEOREM LockMutualExclusion == Spec => []MutualExclusion
<1>1. IInv => MutualExclusion
  BY Zenon DEF IInv, OwnershipInv, MutualExclusion
<1> QED BY <1>1, InvHolds, PTL

(* Tickets are honoured in order: a thread never waits behind a later one  *)
(* of its own process.                                                     *)
THEOREM LockNoOvertaking == Spec => []NoOvertaking
<1>1. IInv => NoOvertaking
  <2> SUFFICES ASSUME IInv, NEW t \in Threads, NEW u \in Threads,
                      ProcOf[t] = ProcOf[u], owner[ProcOf[t]] = t,
                      pc[u] = "waiting"
               PROVE  ticket[t] < ticket[u]
    BY Zenon DEF NoOvertaking
  <2> QED BY DEF IInv, TicketInv, TypeOK
<1> QED BY <1>1, InvHolds, PTL

(* A free lock never waits for an abandoned ticket, nor for a thread that  *)
(* sleeps through its turn.                                                *)
THEOREM LockServedTicketIsLive == Spec => []ServedTicketIsLive
<1>1. IInv => ServedTicketIsLive
  <2> SUFFICES ASSUME IInv, NEW p \in Processes, owner[p] = NoThread,
                      serving[p] # next[p]
               PROVE  \E t \in ThreadsOf(p) :
                         /\ pc[t] = "waiting"
                         /\ ticket[t] = serving[p]
                         /\ t \notin asleep
    BY Zenon DEF ServedTicketIsLive
  <2>0. serving[p] \in Nat /\ next[p] \in Nat
    BY Zenon DEF IInv, TypeOK
  <2>1. serving[p] < next[p] /\ serving[p] \notin abandoned[p]
    BY <2>0 DEF IInv, ServingInv
  <2>2. PICK t \in ThreadsOf(p) :
           ticket[t] = serving[p] /\ pc[t] \in {"waiting", "filelock", "held"}
    BY <2>0, <2>1 DEF IInv, CoverInv
  <2>3. pc[t] = "waiting"
    <3>1. t \in Threads /\ ProcOf[t] = p /\ owner[ProcOf[t]] # t
      BY Zenon DEF ThreadsOf
    <3>2. pc[t] \notin {"filelock", "held"}
      BY Zenon, <3>1 DEF IInv, OwnershipInv
    <3> QED BY Zenon, <2>2, <3>2
  <2> QED BY Zenon, <2>2, <2>3 DEF IInv, CoverInv, ThreadsOf
<1> QED BY <1>1, InvHolds, PTL

=============================================================================
