------------------------------ MODULE FairLock ------------------------------
(***************************************************************************)
(* The lock every queue operation runs under: FairBoundedFileLock of       *)
(* queue_store_lock.py.                                                    *)
(*                                                                         *)
(* Each relay process owns one lock object.  Its threads first queue for   *)
(* local admission with tickets, under a threading.Condition; the admitted *)
(* thread then takes the file lock that all processes share.  Both waits   *)
(* run against one deadline, and a waiter whose deadline passes abandons   *)
(* its ticket.  The lock is reentrant for the owning thread.               *)
(*                                                                         *)
(* A critical section of the condition is one step: the condition's mutex  *)
(* makes it atomic for the threads of its process, and other processes do  *)
(* not see the local fields.  The file lock is taken outside the           *)
(* condition, in a step of its own.                                        *)
(***************************************************************************)
EXTENDS Integers, FiniteSets

CONSTANTS
    Threads,        \* every thread of every relay process
    Processes,      \* the relay processes that share the queue directory
    ProcOf,         \* the process a thread belongs to
    NoThread,       \* _owner_thread_id is None
    NoProcess,      \* nobody holds the file lock
    MaxTickets,     \* bound: tickets a process hands out in a model behaviour
    MaxDepth        \* bound: nesting of reentrant acquisitions

ASSUME ProcOfAssumption ==
    /\ ProcOf \in [Threads -> Processes]
    /\ NoThread \notin Threads
    /\ NoProcess \notin Processes

ASSUME BoundAssumption ==
    /\ MaxTickets \in Nat
    /\ MaxDepth \in Nat \ {0}

VARIABLES
    owner,          \* owner[p]: _owner_thread_id
    depth,          \* depth[p]: _owner_depth
    next,           \* next[p]: _next_ticket
    serving,        \* serving[p]: _serving_ticket
    abandoned,      \* abandoned[p]: _abandoned_tickets
    fileHolder,     \* the process whose descriptor holds the file lock
    pc,             \* where a thread stands in acquire()
    ticket,         \* the local variable `ticket' of acquire()
    asleep,         \* the threads blocked in condition.wait()
    expired         \* the acquiring threads whose deadline has passed

localVars == <<owner, depth, next, serving, abandoned>>
vars == <<owner, depth, next, serving, abandoned, fileHolder,
          pc, ticket, asleep, expired>>

ThreadsOf(p) == {t \in Threads : ProcOf[t] = p}

-----------------------------------------------------------------------------

Init ==
    /\ owner = [p \in Processes |-> NoThread]
    /\ depth = [p \in Processes |-> 0]
    /\ next = [p \in Processes |-> 0]
    /\ serving = [p \in Processes |-> 0]
    /\ abandoned = [p \in Processes |-> {}]
    /\ fileHolder = NoProcess
    /\ pc = [t \in Threads |-> "idle"]
    /\ ticket = [t \in Threads |-> 0]
    /\ asleep = {}
    /\ expired = {}

(* Mutant: the server does not skip abandoned tickets. *)
SkipNothing(p, s, A) ==
    /\ serving' = [serving EXCEPT ![p] = s]
    /\ abandoned' = [abandoned EXCEPT ![p] = A]

(* _skip_abandoned_tickets_locked: from ticket s, with the abandoned       *)
(* tickets A, serve the first ticket nobody abandoned and forget the       *)
(* abandoned ones passed on the way.                                       *)
SkipAbandoned(p, s, A) ==
    \E n \in s..next'[p] :
        /\ n \notin A
        /\ s..(n - 1) \subseteq A
        /\ serving' = [serving EXCEPT ![p] = n]
        /\ abandoned' = [abandoned EXCEPT ![p] = A \ (s..(n - 1))]

(* condition.notify_all *)
NotifyAll(p) ==
    asleep' = asleep \ ThreadsOf(p)

(* Mutant: any waiter enters a free lock, whatever its ticket. *)
MayBarge(p, k) == owner[p] = NoThread

(* The loop of acquire() lets thread t with ticket k through. *)
MayEnter(p, k) == owner[p] = NoThread /\ k = serving[p]

Admit(t) ==
    /\ owner' = [owner EXCEPT ![ProcOf[t]] = t]
    /\ depth' = [depth EXCEPT ![ProcOf[t]] = 1]
    /\ pc' = [pc EXCEPT ![t] = "filelock"]
    /\ asleep' = asleep \ {t}

(* The deadline branch of the loop: the ticket k joins the abandoned ones  *)
(* and acquire() raises Timeout.                                           *)
Abandon(t, k) ==
    LET p == ProcOf[t] IN
    /\ SkipAbandoned(p, serving[p], abandoned[p] \cup {k})
    /\ NotifyAll(p)
    /\ pc' = [pc EXCEPT ![t] = "idle"]
    /\ expired' = expired \ {t}
    /\ UNCHANGED <<owner, depth>>

(* acquire(), first critical section: take a ticket, then one pass of the  *)
(* loop.  `late' says that the deadline is already over (a zero timeout).  *)
TakeTicket(t, late) ==
    LET p == ProcOf[t]
        k == next[p]
    IN
    /\ pc[t] = "idle"
    /\ k < MaxTickets
    /\ next' = [next EXCEPT ![p] = k + 1]
    /\ ticket' = [ticket EXCEPT ![t] = k]
    /\ UNCHANGED fileHolder
    /\ \/ /\ MayEnter(p, k)
          /\ Admit(t)
          /\ expired' = IF late THEN expired \cup {t} ELSE expired
          /\ UNCHANGED <<serving, abandoned>>
       \/ /\ ~MayEnter(p, k)
          /\ late
          /\ Abandon(t, k)
       \/ /\ ~MayEnter(p, k)
          /\ ~late
          /\ pc' = [pc EXCEPT ![t] = "waiting"]
          /\ asleep' = asleep \cup {t}
          /\ UNCHANGED <<owner, depth, serving, abandoned, expired>>

(* A thread returns from condition.wait(), notified or out of time, and    *)
(* makes another pass of the loop: the admission test comes first, so a    *)
(* thread whose deadline passed may still enter.                           *)
Wake(t) ==
    LET p == ProcOf[t] IN
    /\ pc[t] = "waiting"
    /\ t \notin asleep \/ t \in expired
    /\ UNCHANGED <<next, ticket, fileHolder>>
    /\ \/ /\ MayEnter(p, ticket[t])
          /\ Admit(t)
          /\ UNCHANGED <<serving, abandoned, expired>>
       \/ /\ ~MayEnter(p, ticket[t])
          /\ t \in expired
          /\ Abandon(t, ticket[t])
       \/ /\ ~MayEnter(p, ticket[t])
          /\ t \notin expired
          /\ asleep' = asleep \cup {t}
          /\ UNCHANGED <<owner, depth, serving, abandoned, pc, expired>>

(* The owner calls acquire() again. *)
Reenter(t) ==
    LET p == ProcOf[t] IN
    /\ pc[t] = "held"
    /\ owner[p] = t
    /\ depth[p] < MaxDepth
    /\ depth' = [depth EXCEPT ![p] = @ + 1]
    /\ UNCHANGED <<owner, next, serving, abandoned, fileHolder, pc, ticket,
                   asleep, expired>>

(* _file_lock.acquire() succeeds. *)
FileAcquire(t) ==
    /\ pc[t] = "filelock"
    /\ fileHolder = NoProcess
    /\ fileHolder' = ProcOf[t]
    /\ pc' = [pc EXCEPT ![t] = "held"]
    /\ expired' = expired \ {t}
    /\ UNCHANGED <<localVars, ticket, asleep>>

(* Hand local admission to the next ticket: the common end of release()    *)
(* and of the failure path of acquire().                                   *)
PassOn(t) ==
    LET p == ProcOf[t] IN
    /\ UNCHANGED <<next, ticket>>
    /\ expired' = expired \ {t}
    /\ owner' = [owner EXCEPT ![p] = NoThread]
    /\ depth' = [depth EXCEPT ![p] = 0]
    /\ SkipAbandoned(p, serving[p] + 1, abandoned[p])
    /\ NotifyAll(p)
    /\ pc' = [pc EXCEPT ![t] = "idle"]

(* _file_lock.acquire() raises: its deadline passed, or any other          *)
(* exception.  The local admission is undone.                              *)
FileAcquireFails(t) ==
    /\ pc[t] = "filelock"
    /\ PassOn(t)
    /\ UNCHANGED fileHolder

(* Mutant: a nested release() drops the file lock. *)
ReleaseNestedDropsFile(t) ==
    LET p == ProcOf[t] IN
    /\ pc[t] = "held"
    /\ owner[p] = t
    /\ depth[p] > 1
    /\ depth' = [depth EXCEPT ![p] = @ - 1]
    /\ fileHolder' = NoProcess
    /\ UNCHANGED <<owner, next, serving, abandoned, pc, ticket, asleep, expired>>

(* Mutant: release() does not look at the depth. *)
ReleaseNestedUnguarded(t) ==
    LET p == ProcOf[t] IN
    /\ pc[t] = "held"
    /\ owner[p] = t
    /\ depth' = [depth EXCEPT ![p] = @ - 1]
    /\ UNCHANGED <<owner, next, serving, abandoned, fileHolder, pc, ticket,
                   asleep, expired>>

(* release() of a nested level *)
ReleaseNested(t) ==
    LET p == ProcOf[t] IN
    /\ pc[t] = "held"
    /\ owner[p] = t
    /\ depth[p] > 1
    /\ depth' = [depth EXCEPT ![p] = @ - 1]
    /\ UNCHANGED <<owner, next, serving, abandoned, fileHolder, pc, ticket,
                   asleep, expired>>

(* release() of the outermost level *)
Release(t) ==
    LET p == ProcOf[t] IN
    /\ pc[t] = "held"
    /\ owner[p] = t
    /\ depth[p] = 1
    /\ fileHolder' = NoProcess
    /\ PassOn(t)

(* Mutant: the file lock is acquired without a timeout. *)
DeadlinePassesWaiting(t) ==
    /\ pc[t] = "waiting"
    /\ t \notin expired
    /\ expired' = expired \cup {t}
    /\ UNCHANGED <<localVars, fileHolder, pc, ticket, asleep>>

DeadlinePasses(t) ==
    /\ pc[t] \in {"waiting", "filelock"}
    /\ t \notin expired
    /\ expired' = expired \cup {t}
    /\ UNCHANGED <<localVars, fileHolder, pc, ticket, asleep>>

(* A process dies and is started again with a fresh lock object; the       *)
(* operating system drops its file lock.                                   *)
Crash(p) ==
    /\ \E t \in ThreadsOf(p) : pc[t] # "idle"
    /\ owner' = [owner EXCEPT ![p] = NoThread]
    /\ depth' = [depth EXCEPT ![p] = 0]
    /\ next' = [next EXCEPT ![p] = 0]
    /\ serving' = [serving EXCEPT ![p] = 0]
    /\ abandoned' = [abandoned EXCEPT ![p] = {}]
    /\ fileHolder' = IF fileHolder = p THEN NoProcess ELSE fileHolder
    /\ pc' = [t \in Threads |-> IF ProcOf[t] = p THEN "idle" ELSE pc[t]]
    /\ ticket' = [t \in Threads |-> IF ProcOf[t] = p THEN 0 ELSE ticket[t]]
    /\ NotifyAll(p)
    /\ expired' = expired \ ThreadsOf(p)

ThreadStep(t) ==
    \/ \E late \in BOOLEAN : TakeTicket(t, late)
    \/ Wake(t)
    \/ Reenter(t)
    \/ FileAcquire(t)
    \/ FileAcquireFails(t)
    \/ ReleaseNested(t)
    \/ Release(t)
    \/ DeadlinePasses(t)

Next ==
    \/ \E t \in Threads : ThreadStep(t)
    \/ \E p \in Processes : Crash(p)

Spec == Init /\ [][Next]_vars

(***************************************************************************)
(* Fairness.  A thread that can run its loop does; a critical section of   *)
(* the queue is finite, so its outermost level is released in the end; the *)
(* wait for the file lock is bounded by its deadline, after which          *)
(* filelock raises.  Nothing is assumed of the deadline of a thread that   *)
(* waits for its ticket: it has to be served, not timed out.  Nothing is   *)
(* assumed of filelock's polling either: another process may win every     *)
(* race.                                                                   *)
(***************************************************************************)
Fairness ==
    \A t \in Threads :
        /\ WF_vars(Wake(t))
        /\ WF_vars(ReleaseNested(t))
        /\ SF_vars(Release(t))
        /\ WF_vars(FileAcquireFails(t) /\ t \in expired)
        /\ WF_vars(DeadlinePasses(t) /\ pc[t] = "filelock")

FairSpec == Spec /\ Fairness

-----------------------------------------------------------------------------

TypeOK ==
    /\ owner \in [Processes -> Threads \cup {NoThread}]
    /\ depth \in [Processes -> 0..MaxDepth]
    /\ next \in [Processes -> Nat]
    /\ serving \in [Processes -> Nat]
    /\ abandoned \in [Processes -> SUBSET Nat]
    /\ fileHolder \in Processes \cup {NoProcess}
    /\ pc \in [Threads -> {"idle", "waiting", "filelock", "held"}]
    /\ ticket \in [Threads -> Nat]
    /\ asleep \subseteq Threads
    /\ expired \subseteq Threads

(* At most one thread of all the processes is inside a critical section of *)
(* the queue, however acquisitions time out, fail, nest or die.            *)
MutualExclusion ==
    \A t, u \in Threads : pc[t] = "held" /\ pc[u] = "held" => t = u

(* Ticket admission prevents local overtaking: the thread that owns local  *)
(* admission came before every thread of its process that still waits.     *)
NoOvertaking ==
    \A t, u \in Threads :
        /\ ProcOf[t] = ProcOf[u]
        /\ owner[ProcOf[t]] = t
        /\ pc[u] = "waiting"
        => ticket[t] < ticket[u]

(* A free lock is never parked on a ticket nobody will use: either no      *)
(* ticket is outstanding, or the ticket being served belongs to a waiting  *)
(* thread that is not asleep (its wake-up was not lost).                   *)
ServedTicketIsLive ==
    \A p \in Processes :
        owner[p] = NoThread =>
            \/ serving[p] = next[p]
            \/ \E t \in ThreadsOf(p) :
                  /\ pc[t] = "waiting"
                  /\ ticket[t] = serving[p]
                  /\ t \notin asleep

(* acquire() always returns or raises: neither wait lasts for ever.  A     *)
(* thread that waits for its ticket gets through without the help of its   *)
(* own deadline, since no fairness is assumed of that.                     *)
AcquireReturns ==
    \A t \in Threads :
        pc[t] \in {"waiting", "filelock"} ~> pc[t] \in {"idle", "held"}

=============================================================================
