------------------------ MODULE SchedulerCancelProofs ------------------------
(* The safety of scheduler cancellation for any number of worker slots and   *)
(* scheduler jobs, any limits and any number of faults and commands.         *)
EXTENDS SchedulerCancel, TLAPS

-----------------------------------------------------------------------------
(* The inductive invariant.  K is what the tasks say of the scheduler ids, E *)
(* the scheduler's jobs and A whether a cancellation was asked for.          *)

(* A disposition that may still be worked on is of an owned job; one that    *)
(* was confirmed is of a job that is gone; a claim stands only in the state  *)
(* it was taken in.                                                          *)
GoodDisposition(d, i, K, E) ==
    /\ d \in Disposition
    /\ d.state \in Open \cup {"cancel_requested"} => K[i] = "owned"
    /\ d.state = "canceled" => E[i] = "canceled"
    /\ d.state = "terminal" => E[i] = "ended"
    /\ d.state = "not_found" => E[i] \in Gone
    /\ d.claim # None => d.state \in Open
    /\ d.confirm # None => d.state = "cancel_requested"

Reasons == {"operator_request", "scheduler_cancel", "execution_timeout"}
Resolutions == {"pending", "resolved", "none", "superseded"}

GoodRecord(r, K, E) ==
    /\ r = [reason |-> r.reason, resolution |-> r.resolution, disp |-> r.disp]
    /\ r.reason \in Reasons /\ r.resolution \in Resolutions
    /\ r.disp = [i \in DOMAIN r.disp |-> r.disp[i]]
    /\ DOMAIN r.disp \subseteq Ids
    /\ \A i \in DOMAIN r.disp : GoodDisposition(r.disp[i], i, K, E)

RecordsInv ==
    /\ pending = None \/ GoodRecord(pending, known, ext)
    /\ done = None \/ GoodRecord(done, known, ext)

Resting == {"idle", "inspect", "supersede", "close_empty"}

(* What a slot has read is still true when it acts on it. *)
GoodSlot(s, K, E, A) ==
    /\ s \in Slots
    /\ \A i \in s.owned : K[i] = "owned"
    /\ s.at \in {"cancel", "answered"} => s.id \in Ids /\ K[s.id] = "owned"
    /\ s.at \in {"poll", "polled"} => s.id \in Ids
    /\ s.at = "answered" => s.answer \in {"accepted", "failed"}
    /\ s.at = "polled" =>
          /\ s.answer \in {"unknown", "running", "canceled", "terminal", "not_found"}
          /\ s.answer = "canceled" => E[s.id] = "canceled"
          /\ s.answer = "terminal" => E[s.id] = "ended"
          /\ s.answer = "not_found" => E[s.id] \in Gone
    /\ s.at \notin Resting => A
    /\ s.at = "inspect" /\ s.reason # "operator_request" => A

SlotsInv ==
    /\ slot = [w \in Workers |-> slot[w]]
    /\ \A w \in Workers : GoodSlot(slot[w], known, ext, asked)

(* Pending work that nobody asked for carries the operator's reason. *)
AskedInv ==
    /\ pending # None /\ pending.reason # "operator_request" => asked
    /\ job.request = "cancel" => asked
    /\ job \in [state : {"active", "terminal"}, request : {None, "cancel", "keep"}]

(* While nothing is decided, what a slot works on is in the pending record. *)
Working == {"work", "cancel", "answered", "poll", "polled"}

WorksOn(s, r) ==
    s.at \in Working =>
       /\ r # None
       /\ s.attempts \cup s.confirms \subseteq DOMAIN r.disp
       /\ s.at # "work" => s.id \in DOMAIN r.disp

WorkInv == done = None => \A w \in Workers : WorksOn(slot[w], pending)

(* A slot in or after provider.cancel whose lease has not ended holds the    *)
(* running claim, unless the record was completed over it.                   *)
Calling == {"cancel", "answered"}

HoldsClaim(w) ==
    slot[w].at \in Calling /\ ~ slot[w].late =>
       \/ done # None
       \/ /\ pending # None
          /\ slot[w].id \in DOMAIN pending.disp
          /\ pending.disp[slot[w].id].claim = w
          /\ pending.disp[slot[w].id].live

ClaimsInv ==
    /\ \A w \in Workers : HoldsClaim(w)
    /\ \A v, w \in Workers :
          /\ v # w
          /\ slot[v].at \in Calling /\ slot[w].at \in Calling
          /\ slot[v].id = slot[w].id
          => slot[v].late \/ slot[w].late

WorldInv ==
    /\ known \in [Ids -> {"none", "observed", "owned"}]
    /\ ext \in [Ids -> {"running", "stopping"} \cup Gone]
    /\ calls \in [Ids -> Nat]
    /\ asked \in BOOLEAN
    /\ \A i \in Ids : calls[i] > 0 => known[i] = "owned" /\ asked

IInv == WorldInv /\ RecordsInv /\ SlotsInv /\ AskedInv /\ WorkInv /\ ClaimsInv

-----------------------------------------------------------------------------
(* Records                                                                   *)

(* A record stays good when one disposition is replaced by a good one. *)
LEMMA DispositionReplaced ==
    ASSUME NEW K, NEW E, NEW r, GoodRecord(r, K, E),
           NEW i \in DOMAIN r.disp, NEW d, GoodDisposition(d, i, K, E)
    PROVE  /\ GoodRecord([r EXCEPT !.disp[i] = d], K, E)
           /\ [r EXCEPT !.disp[i] = d].disp = [r.disp EXCEPT ![i] = d]
           /\ [r EXCEPT !.disp[i] = d].reason = r.reason
  BY SMTT(30) DEF GoodRecord

(* A record stays good when its resolution changes. *)
LEMMA Resolved ==
    ASSUME NEW K, NEW E, NEW r, GoodRecord(r, K, E), NEW x \in Resolutions
    PROVE  /\ GoodRecord([r EXCEPT !.resolution = x], K, E)
           /\ [r EXCEPT !.resolution = x].disp = r.disp
           /\ [r EXCEPT !.resolution = x].reason = r.reason
  BY SMTT(30) DEF GoodRecord

(* A new record has no disposition. *)
LEMMA NewRecordGood ==
    ASSUME NEW K, NEW E, NEW x \in Reasons
    PROVE  GoodRecord(NewRecord(x), K, E) /\ NewRecord(x).reason = x
  BY Zenon DEF GoodRecord, NewRecord, Resolutions

(* A fresh disposition is good if it is refused or its job is owned. *)
LEMMA FreshGood ==
    ASSUME NEW K, NEW E, NEW i \in Ids, NEW v \in BOOLEAN, v => K[i] = "owned"
    PROVE  GoodDisposition(Fresh(IF v THEN "pending" ELSE "refused"), i, K, E)
  BY Zenon DEF GoodDisposition, Fresh, Disposition, Open, Decided

(* register_scheduler_cancel_identity_once with an honest ownership flag     *)
(* keeps a record good and touches no claim.                                 *)
LEMMA RegisteredGood ==
    ASSUME NEW K, NEW E, NEW r, GoodRecord(r, K, E),
           NEW i \in Ids, NEW v \in BOOLEAN, v => K[i] = "owned"
    PROVE  LET q == Registered(r, i, v) IN
           /\ GoodRecord(q, K, E)
           /\ q.reason = r.reason
           /\ \A k \in DOMAIN r.disp :
                 /\ k \in DOMAIN q.disp
                 /\ r.disp[k].claim # None => q.disp[k] = r.disp[k]
<1> DEFINE new == Fresh(IF v THEN "pending" ELSE "refused")
<1>1. GoodDisposition(new, i, K, E)
  BY Zenon, FreshGood
<1>2. CASE i \notin DOMAIN r.disp
  <2> DEFINE f == [k \in DOMAIN r.disp \cup {i} |-> IF k = i THEN new ELSE r.disp[k]]
  <2>1. Registered(r, i, v) = [r EXCEPT !.disp = f]
    BY Zenon, <1>2 DEF Registered, GoodRecord
  <2> HIDE DEF new
  <2>2. QED
    BY SMTT(30), <1>1, <1>2, <2>1 DEF GoodRecord
<1>3. CASE i \in DOMAIN r.disp /\ (r.disp[i].state # "refused" \/ ~ v)
  BY Zenon, <1>3 DEF Registered
<1>4. CASE i \in DOMAIN r.disp /\ r.disp[i].state = "refused" /\ v
  <2> DEFINE d == [new EXCEPT !.attempts = r.disp[i].attempts,
                              !.confirmations = r.disp[i].confirmations]
  <2>a. /\ r.disp[i].attempts \in Nat /\ r.disp[i].confirmations \in Nat
        /\ K[i] = "owned"
    BY Zenon, <1>4 DEF GoodRecord, GoodDisposition, Disposition
  <2>b. new \in Disposition /\ new.state = "pending" /\ new.claim = None /\ new.confirm = None
    BY Zenon, <1>1, <1>4 DEF GoodDisposition, Fresh
  <2>c. d \in Disposition
    <3> HIDE DEF new
    <3>1. QED
      BY Zenon, <2>a, <2>b DEF Disposition
  <2>d. d.state = "pending" /\ d.claim = None /\ d.confirm = None
    <3> HIDE DEF new
    <3>1. QED
      BY Zenon, <2>b DEF Disposition
  <2>1. GoodDisposition(d, i, K, E)
    <3> HIDE DEF d
    <3>1. QED
      BY Zenon, <2>a, <2>c, <2>d DEF GoodDisposition, Open
  <2>2. Registered(r, i, v) = [r EXCEPT !.disp[i] = d]
    BY Zenon, <1>4 DEF Registered
  <2> HIDE DEF d
  <2>3. r.disp[i].claim = None
    BY Zenon, <1>4 DEF GoodRecord, GoodDisposition, Open
  <2>4. /\ GoodRecord(Registered(r, i, v), K, E)
        /\ Registered(r, i, v).reason = r.reason
        /\ Registered(r, i, v).disp = [r.disp EXCEPT ![i] = d]
    <3>1. i \in DOMAIN r.disp
      BY Zenon, <1>4
    <3>2. /\ GoodRecord([r EXCEPT !.disp[i] = d], K, E)
          /\ [r EXCEPT !.disp[i] = d].disp = [r.disp EXCEPT ![i] = d]
          /\ [r EXCEPT !.disp[i] = d].reason = r.reason
      BY <2>1, <3>1, DispositionReplaced
    <3>3. QED
      BY Zenon, <2>2, <3>2
  <2>5. QED
    BY Zenon, <2>3, <2>4, <1>4
<1>5. QED
  BY Zenon, <1>2, <1>3, <1>4

(* record_scheduler_cancel_attempt on a claimed disposition. *)
LEMMA AttemptedGood ==
    ASSUME NEW K, NEW E, NEW i, NEW d, GoodDisposition(d, i, K, E), d.claim # None,
           NEW a \in {"accepted", "failed"}
    PROVE  GoodDisposition(Attempted(d, a), i, K, E)
<1>1. d.state \in Open /\ K[i] = "owned" /\ d.confirm = None /\ d \in Disposition
  BY Zenon DEF GoodDisposition, Open
<1>2. d.attempts + 1 \in Nat
  BY <1>1 DEF Disposition
<1> DEFINE x == CASE a = "accepted" -> "cancel_requested"
                  [] a # "accepted" /\ d.attempts + 1 >= MaxAttempts -> "exhausted"
                  [] OTHER -> "retry_wait"
<1>3. x \in {"cancel_requested", "exhausted", "retry_wait"}
  BY Zenon
<1> DEFINE q == [d EXCEPT !.state = x, !.attempts = d.attempts + 1,
                         !.due = (a = "accepted"), !.claim = None, !.live = FALSE]
<1>4. Attempted(d, a) = q
  BY Zenon DEF Attempted
<1>5. q \in Disposition
  <2>1. x \in Open \cup Decided \cup {"cancel_requested"} /\ (a = "accepted") \in BOOLEAN
    BY Zenon, <1>3 DEF Open, Decided
  <2> HIDE DEF x
  <2>2. QED
    BY Zenon, <1>1, <1>2, <2>1 DEF Disposition
<1>6. q.state = x /\ q.claim = None /\ q.confirm = None
  <2> HIDE DEF x
  <2>1. QED
    BY Zenon, <1>1 DEF Disposition
<1> HIDE DEF x, q
<1>7. QED
  BY Zenon, <1>1, <1>3, <1>4, <1>5, <1>6 DEF GoodDisposition, Open

(* record_scheduler_cancel_observation with a truthful answer. *)
LEMMA ConfirmedGood ==
    ASSUME NEW K, NEW E, NEW i, NEW d, GoodDisposition(d, i, K, E), d.confirm # None,
           NEW a \in {"unknown", "running", "canceled", "terminal", "not_found"},
           a = "canceled" => E[i] = "canceled",
           a = "terminal" => E[i] = "ended",
           a = "not_found" => E[i] \in Gone
    PROVE  GoodDisposition(Confirmed(d, a), i, K, E)
<1>1. d.state = "cancel_requested" /\ K[i] = "owned" /\ d.claim = None /\ d \in Disposition
  BY Zenon DEF GoodDisposition, Open
<1>2. d.confirmations + 1 \in Nat
  BY <1>1 DEF Disposition
<1> DEFINE x == CASE a \in {"canceled", "terminal", "not_found"} -> a
                  [] a \in {"unknown", "running"} /\ d.confirmations + 1 >= MaxConfirmations -> "exhausted"
                  [] OTHER -> "cancel_requested"
<1>3. \/ x \in {"canceled", "terminal", "not_found"} /\ x = a
      \/ x \in {"cancel_requested", "exhausted"}
  BY Zenon
<1> DEFINE q == [d EXCEPT !.state = x, !.confirmations = d.confirmations + 1,
                         !.due = FALSE, !.confirm = None, !.live = FALSE]
<1>4. Confirmed(d, a) = q
  BY Zenon DEF Confirmed
<1>5. q \in Disposition
  <2>1. x \in Open \cup Decided \cup {"cancel_requested"}
    BY Zenon, <1>3 DEF Open, Decided
  <2> HIDE DEF x
  <2>2. QED
    BY Zenon, <1>1, <1>2, <2>1 DEF Disposition
<1>6. q.state = x /\ q.claim = None /\ q.confirm = None
  <2> HIDE DEF x
  <2>1. QED
    BY Zenon, <1>1 DEF Disposition
<1> HIDE DEF x, q
<1>7. QED
  BY Zenon, <1>1, <1>3, <1>4, <1>5, <1>6 DEF GoodDisposition, Open

(* Nothing is None where a record is needed. *)
LEMMA RecordIsSome ==
    ASSUME NEW K, NEW E, NEW r, GoodRecord(r, K, E)
    PROVE  r # None /\ r \in SchedulerCancelRecords
<1>1. r.disp \in [DOMAIN r.disp -> Disposition] /\ DOMAIN r.disp \in SUBSET Ids
  BY Zenon DEF GoodRecord, GoodDisposition
<1>2. r.disp \in UNION {[S -> Disposition] : S \in SUBSET Ids}
  BY Zenon, <1>1
<1>3. r \in SchedulerCancelRecords
  BY Zenon, <1>2 DEF GoodRecord, SchedulerCancelRecords, Reasons, Resolutions
<1>4. QED
  BY Zenon, <1>3, NoRecordAssumption

(* Evidence, ownership and a request stay: good records and slots stay good. *)
LEMMA RecordStaysGood ==
    ASSUME NEW K, NEW E, NEW L, NEW F, NEW r, GoodRecord(r, K, E),
           \A i \in Ids : K[i] = "owned" => L[i] = "owned",
           \A i \in Ids : E[i] \in Gone => F[i] = E[i]
    PROVE  GoodRecord(r, L, F)
<1>1. \A i \in DOMAIN r.disp : GoodDisposition(r.disp[i], i, L, F)
  BY Zenon DEF GoodRecord, GoodDisposition, Gone
<1>2. QED
  BY Zenon, <1>1 DEF GoodRecord

(* As above, for slots. *)
LEMMA SlotStaysGood ==
    ASSUME NEW K, NEW E, NEW A, NEW L, NEW F, NEW B, NEW s, GoodSlot(s, K, E, A),
           \A i \in Ids : K[i] = "owned" => L[i] = "owned",
           \A i \in Ids : E[i] \in Gone => F[i] = E[i],
           A => B
    PROVE  GoodSlot(s, L, F, B)
<1>1. s.owned \subseteq Ids
  BY Zenon DEF GoodSlot, Slots
<1>2. QED
  BY Zenon, <1>1 DEF GoodSlot, Gone

-----------------------------------------------------------------------------
(* Steps                                                                     *)

(* No disposition of p is lost in q, and a claim of a slot other than w      *)
(* stands as it did.                                                         *)
Carries(p, q, w) ==
    \A i \in DOMAIN p.disp :
       /\ i \in DOMAIN q.disp
       /\ p.disp[i].claim \notin {None, w} =>
             q.disp[i].claim = p.disp[i].claim /\ q.disp[i].live = p.disp[i].live

(* A step in which slot w goes on as s, which is not in provider.cancel, and *)
(* the records it leaves are good and carry the claims of the others.        *)
LEMMA MoveStep ==
    ASSUME IInv, NEW w \in Workers, NEW s,
           slot' = [slot EXCEPT ![w] = s],
           GoodSlot(s, known, ext, asked'), s.at \notin Calling,
           UNCHANGED <<known, ext, calls>>, asked' \in BOOLEAN, asked => asked',
           pending' = None \/ GoodRecord(pending', known, ext),
           done' = None \/ GoodRecord(done', known, ext),
           AskedInv',
           done # None => done' # None,
           done' = None => WorksOn(s, pending'),
           done' = None /\ pending # None => pending' # None /\ Carries(pending, pending', w)
    PROVE  IInv'
<1>0. /\ slot'[w] = s
      /\ \A v \in Workers : v # w => slot'[v] = slot[v]
      /\ slot' = [v \in Workers |-> slot'[v]]
  BY Zenon DEF IInv, SlotsInv
<1>1. WorldInv'
  BY Zenon DEF IInv, WorldInv
<1>2. RecordsInv'
  BY Zenon DEF RecordsInv
<1>3. SlotsInv'
  <2>1. \A v \in Workers : GoodSlot(slot[v], known, ext, asked')
    <3>1. SUFFICES ASSUME NEW v \in Workers PROVE GoodSlot(slot[v], known, ext, asked')
      BY Zenon
    <3>2. GoodSlot(slot[v], known, ext, asked)
      BY Zenon DEF IInv, SlotsInv
    <3>3. QED
      BY Zenon, <3>2 DEF GoodSlot
  <2>2. QED
    BY Zenon, <1>0, <2>1 DEF SlotsInv
<1>4. WorkInv'
  <2>1. SUFFICES ASSUME done' = None, NEW v \in Workers PROVE WorksOn(slot'[v], pending')
    BY Zenon DEF WorkInv, WorksOn
  <2>2. CASE v = w
    BY Zenon, <1>0, <2>1, <2>2
  <2>3. CASE v # w
    <3>1. WorksOn(slot[v], pending) /\ slot'[v] = slot[v]
      BY Zenon, <1>0, <2>1, <2>3 DEF IInv, WorkInv
    <3>2. QED
      BY Zenon, <2>1, <3>1 DEF WorksOn, Carries
  <2>4. QED
    BY Zenon, <2>2, <2>3
<1>5. ClaimsInv'
  <2>1. \A v \in Workers : slot'[v].at \in Calling => v # w /\ slot'[v] = slot[v]
    BY Zenon, <1>0
  <2>2. \A v \in Workers : HoldsClaim(v)'
    <3>1. SUFFICES ASSUME NEW v \in Workers, v # w, slot'[v] = slot[v], done' = None,
                          slot[v].at \in Calling, ~ slot[v].late
                   PROVE  /\ pending' # None
                          /\ slot[v].id \in DOMAIN pending'.disp
                          /\ pending'.disp[slot[v].id].claim = v
                          /\ pending'.disp[slot[v].id].live
      BY Zenon, <2>1 DEF HoldsClaim
    <3>2. /\ pending # None
          /\ slot[v].id \in DOMAIN pending.disp
          /\ pending.disp[slot[v].id].claim = v
          /\ pending.disp[slot[v].id].live
      BY Zenon, <3>1 DEF IInv, ClaimsInv, HoldsClaim
    <3>3. v \notin {None, w}
      BY Zenon, <3>1, CancelAssumption
    <3>4. QED
      BY Zenon, <3>1, <3>2, <3>3 DEF Carries
  <2>3. QED
    BY Zenon, <2>1, <2>2 DEF IInv, ClaimsInv
<1>6. QED
  BY Zenon, <1>1, <1>2, <1>3, <1>4, <1>5 DEF IInv

(* An idle slot has read nothing. *)
LEMMA IdleGood ==
    ASSUME NEW K, NEW E, NEW A
    PROVE  /\ GoodSlot(Idle, K, E, A)
           /\ Idle.at \notin Calling /\ Idle.at \notin Working
           /\ \A r : WorksOn(Idle, r)
<1>1. Idle \in Slots
  BY Zenon DEF Idle, Slots
<1>2. Idle.at = "idle" /\ Idle.owned = {}
  BY Zenon DEF Idle
<1>3. QED
  BY Zenon, <1>1, <1>2 DEF GoodSlot, Resting, Calling, Working, WorksOn

(* The worker process dies: its slots start over. *)
LEMMA RestStep ==
    ASSUME IInv,
           slot' = [v \in Workers |-> Idle],
           UNCHANGED <<known, ext, calls, asked>>,
           pending' = None \/ GoodRecord(pending', known, ext),
           done' = None \/ GoodRecord(done', known, ext),
           AskedInv'
    PROVE  IInv'
<1>1. \A v \in Workers : slot'[v] = Idle
  BY Zenon
<1>2. WorldInv' /\ RecordsInv'
  BY Zenon DEF IInv, WorldInv, RecordsInv
<1>3. SlotsInv'
  BY Zenon, <1>1, IdleGood DEF SlotsInv
<1>4. WorkInv'
  BY Zenon, <1>1, IdleGood DEF WorkInv
<1>5. ClaimsInv'
  BY Zenon, <1>1, IdleGood DEF ClaimsInv, HoldsClaim
<1>6. QED
  BY Zenon, <1>2, <1>3, <1>4, <1>5 DEF IInv

(* A slot writes the record r and goes on as s, or dies halfway. *)
LEMMA SaveStep ==
    ASSUME IInv, NEW w \in Workers, NEW r, NEW s,
           Save(w, r, s),
           UNCHANGED <<known, ext, calls, asked, job>>,
           pending # None,
           GoodRecord(r, known, ext), r.reason = pending.reason,
           GoodSlot(s, known, ext, asked), s.at \notin Calling,
           Complete(r) \/ (WorksOn(s, r) /\ Carries(pending, r, w))
    PROVE  IInv'
<1>0. r # None /\ GoodRecord(pending, known, ext) /\ (done = None \/ GoodRecord(done, known, ext))
      /\ asked \in BOOLEAN
  BY Zenon, RecordIsSome DEF IInv, RecordsInv, WorldInv
<1>1. CASE Persist(r) /\ Goto(w, s)
  <2>1. CASE Complete(r)
    <3>1. pending' = None /\ done' = r
      BY Zenon, <1>1, <2>1 DEF Persist
    <3>2. AskedInv'
      BY Zenon, <3>1 DEF IInv, AskedInv
    <3>3. QED
      BY Zenon, <1>0, <1>1, <3>1, <3>2, MoveStep DEF Goto
  <2>2. CASE ~ Complete(r)
    <3>1. pending' = r /\ done' = done
      BY Zenon, <1>1, <2>2 DEF Persist
    <3>2. AskedInv'
      BY Zenon, <3>1 DEF IInv, AskedInv
    <3>3. QED
      BY Zenon, <1>0, <1>1, <2>2, <3>1, <3>2, MoveStep DEF Goto
  <2>3. QED
    BY Zenon, <2>1, <2>2
<1>2. CASE PersistTorn(r)
  <2>1. AskedInv'
    BY Zenon, <1>2 DEF IInv, AskedInv, PersistTorn
  <2>2. QED
    BY Zenon, <1>0, <1>2, <2>1, RestStep DEF PersistTorn
<1>3. QED
  BY Zenon, <1>1, <1>2 DEF Save

(* No slot moves, what is known grows, and the records stay good and carry   *)
(* every claim.                                                              *)
LEMMA StayStep ==
    ASSUME IInv, slot' = slot, calls' = calls,
           known' \in [Ids -> {"none", "observed", "owned"}],
           ext' \in [Ids -> {"running", "stopping"} \cup Gone],
           \A i \in Ids : known[i] = "owned" => known'[i] = "owned",
           \A i \in Ids : ext[i] \in Gone => ext'[i] = ext[i],
           asked' \in BOOLEAN, asked => asked',
           pending' = None \/ GoodRecord(pending', known, ext),
           done' = done,
           AskedInv',
           done = None /\ pending # None => pending' # None /\ Carries(pending, pending', None)
    PROVE  IInv'
<1>1. WorldInv'
  BY Zenon DEF IInv, WorldInv
<1>2. RecordsInv'
  <2>1. done = None \/ GoodRecord(done, known, ext)
    BY Zenon DEF IInv, RecordsInv
  <2>2. QED
    BY Zenon, <2>1, RecordStaysGood DEF RecordsInv
<1>3. SlotsInv'
  <2>1. \A w \in Workers : GoodSlot(slot[w], known', ext', asked')
    <3>1. SUFFICES ASSUME NEW w \in Workers PROVE GoodSlot(slot[w], known', ext', asked')
      BY Zenon
    <3>2. GoodSlot(slot[w], known, ext, asked)
      BY Zenon DEF IInv, SlotsInv
    <3>3. QED
      BY <3>2, SlotStaysGood
  <2>2. QED
    BY Zenon, <2>1 DEF IInv, SlotsInv
<1>4. WorkInv'
  BY Zenon DEF IInv, WorkInv, WorksOn, Carries
<1>5. ClaimsInv'
  <2>1. \A w \in Workers : HoldsClaim(w)'
    <3>1. SUFFICES ASSUME NEW w \in Workers, HoldsClaim(w) PROVE HoldsClaim(w)'
      BY Zenon DEF IInv, ClaimsInv
    <3>2. w # None
      BY Zenon, CancelAssumption
    <3>3. QED
      BY Zenon, <3>1, <3>2 DEF HoldsClaim, Carries
  <2>2. QED
    BY Zenon, <2>1 DEF IInv, ClaimsInv
<1>6. QED
  BY Zenon, <1>1, <1>2, <1>3, <1>4, <1>5 DEF IInv

-----------------------------------------------------------------------------
(* The operator, the relay job and its execution                             *)

(* The records of a good state, as the step lemmas want them. *)
LEMMA RecordsOf ==
    ASSUME IInv
    PROVE  /\ pending = None \/ GoodRecord(pending, known, ext)
           /\ done = None \/ GoodRecord(done, known, ext)
           /\ asked \in BOOLEAN
           /\ \A w : Carries(pending, pending, w)
  BY Zenon DEF IInv, RecordsInv, WorldInv, Carries

(* ensure_scheduler_cancel_pending changes nothing where there is a record.  *)
LEMMA EnsureFacts ==
    ASSUME IInv, NEW x \in Reasons, EnsurePending(x)
    PROVE  /\ pending' = None \/ GoodRecord(pending', known, ext)
           /\ pending # None => pending' = pending
           /\ done = None => pending' # None
           /\ pending = None /\ pending' # None => pending'.reason = x
<1>1. GoodRecord(NewRecord(x), known, ext) /\ NewRecord(x).reason = x /\ NewRecord(x) # None
  BY Zenon, NewRecordGood, RecordIsSome
<1>2. QED
  BY Zenon, <1>1, RecordsOf DEF EnsurePending

(* Cancel and CancelTorn write the pending record and the job. *)
LEMMA CancelStep ==
    ASSUME IInv, (\E p \in {"cancel", "keep"} : Cancel(p)) \/ CancelTorn
    PROVE  IInv'
<1>0. "operator_request" \in Reasons
  BY Zenon DEF Reasons
<1>1. ASSUME NEW p \in {"cancel", "keep"}, Cancel(p)
      PROVE  IInv'
  <2>1. job' \in [state : {"active", "terminal"}, request : {None, "cancel", "keep"}]
        /\ job'.request = p
    <3>1. job \in [state : {"active", "terminal"}, request : {None, "cancel", "keep"}]
      BY Zenon DEF IInv, AskedInv
    <3>2. job' = [job EXCEPT !.request = p]
      BY Zenon, <1>1 DEF Cancel
    <3>3. QED
      BY Zenon, <3>1, <3>2
  <2>2. CASE p = "cancel"
    <3>1. EnsurePending("operator_request") /\ asked' = TRUE
      BY Zenon, <1>1, <2>2 DEF Cancel
    <3>2. AskedInv'
      BY Zenon, <2>1, <3>1 DEF AskedInv
    <3>3. QED
      BY Zenon, <1>0, <1>1, <3>1, <3>2, EnsureFacts, StayStep, RecordsOf DEF Cancel, IInv, WorldInv
  <2>3. CASE p = "keep"
    <3>1. pending' = pending /\ asked' = asked
      BY Zenon, <1>1, <2>3 DEF Cancel
    <3>2. AskedInv'
      BY Zenon, <2>1, <2>3, <3>1 DEF IInv, AskedInv
    <3>3. QED
      BY Zenon, <1>1, <3>1, <3>2, StayStep, RecordsOf DEF Cancel, IInv, WorldInv
  <2>4. QED
    BY Zenon, <2>2, <2>3
<1>2. CASE CancelTorn
  <2>1. EnsurePending("operator_request")
    BY Zenon, <1>2 DEF CancelTorn
  <2>2. AskedInv'
    BY Zenon, <1>0, <1>2, <2>1, EnsureFacts DEF IInv, AskedInv, CancelTorn
  <2>3. QED
    BY Zenon, <1>0, <1>2, <2>1, <2>2, EnsureFacts, StayStep, RecordsOf DEF CancelTorn, IInv, WorldInv
<1>3. QED
  BY Zenon, <1>1, <1>2

(* Steps outside the relay's records: the tasks and the scheduler. *)
LEMMA OutsideStep ==
    ASSUME IInv, NEW i \in Ids, Discover(i) \/ SchedulerStops(i)
    PROVE  IInv'
<1>1. CASE Discover(i)
  <2>1. AskedInv'
    BY Zenon, <1>1 DEF IInv, AskedInv, Discover
  <2>2. /\ known' \in [Ids -> {"none", "observed", "owned"}]
        /\ \A k \in Ids : known[k] = "owned" => known'[k] = "owned"
    BY Zenon, <1>1 DEF IInv, WorldInv, Discover
  <2>3. QED
    BY Zenon, <1>1, <2>1, <2>2, StayStep, RecordsOf DEF Discover, IInv, WorldInv
<1>2. CASE SchedulerStops(i)
  <2>1. AskedInv'
    BY Zenon, <1>2 DEF IInv, AskedInv, SchedulerStops
  <2>2. /\ ext' \in [Ids -> {"running", "stopping"} \cup Gone]
        /\ \A k \in Ids : ext[k] \in Gone => ext'[k] = ext[k]
    BY Zenon, <1>2 DEF IInv, WorldInv, SchedulerStops, Gone
  <2>3. QED
    BY Zenon, <1>2, <2>1, <2>2, StayStep, RecordsOf DEF SchedulerStops, IInv, WorldInv
<1>3. QED
  BY Zenon, <1>1, <1>2

(* A slot between the scan and the scheduler calls is good if somebody asked *)
(* for the cancellation and what it takes for owned is owned.                *)
LEMMA PlainSlotGood ==
    ASSUME NEW K, NEW E, NEW s \in Slots, \A i \in s.owned : K[i] = "owned",
           s.at \in {"close_timeout", "register_seen", "ensure", "register", "work"}
    PROVE  GoodSlot(s, K, E, TRUE) /\ s.at \notin Calling
  BY Zenon DEF GoodSlot, Calling

(* A slot that goes from idle to x. *)
LEMMA PlaceSlot ==
    ASSUME NEW x \in {"close_timeout", "close_empty", "supersede"}
    PROVE  LET s == [Idle EXCEPT !.at = x] IN
           s \in Slots /\ s.at = x /\ s.owned = {}
<1>1. Idle \in Slots
  BY Zenon DEF Idle, Slots
<1>2. [Idle EXCEPT !.at = x] \in Slots
  BY Zenon, <1>1 DEF Slots
<1>3. QED
  BY Zenon, <1>2 DEF Idle

(* A slot that enters _cancel_scheduler_jobs with the ids T. *)
LEMMA EnterSlot ==
    ASSUME NEW T \in SUBSET Ids
    PROVE  LET s == [Idle EXCEPT !.at = "ensure", !.todo = T] IN
           s \in Slots /\ s.at = "ensure" /\ s.owned = {}
<1>1. Idle \in Slots
  BY Zenon DEF Idle, Slots
<1>2. [Idle EXCEPT !.at = "ensure", !.todo = T] \in Slots
  BY Zenon, <1>1 DEF Slots
<1>3. QED
  BY Zenon, <1>2 DEF Idle

(* A slot that registers the ids T, of which O are owned. *)
SeenPlace(T, O) == [Idle EXCEPT !.at = "register_seen", !.todo = T, !.owned = O]

LEMMA SeenSlot ==
    ASSUME NEW T \in SUBSET Ids, NEW O \in SUBSET Ids
    PROVE  /\ SeenPlace(T, O) \in Slots
           /\ SeenPlace(T, O).at = "register_seen" /\ SeenPlace(T, O).owned = O
<1>1. Idle \in Slots
  BY Zenon DEF Idle, Slots
<1>2. [Idle EXCEPT !.at = "register_seen", !.todo = T, !.owned = O] \in Slots
  BY Zenon, <1>1 DEF Slots
<1>3. QED
  BY Zenon, <1>2 DEF Idle, SeenPlace

(* A slot that works on the confirmations T and the attempts O. *)
WorkPlace(T, O) == [Idle EXCEPT !.at = "work", !.confirms = T, !.attempts = O]

LEMMA WorkSlot ==
    ASSUME NEW T \in SUBSET Ids, NEW O \in SUBSET Ids
    PROVE  /\ WorkPlace(T, O) \in Slots
           /\ WorkPlace(T, O).at = "work" /\ WorkPlace(T, O).owned = {}
           /\ WorkPlace(T, O).confirms = T /\ WorkPlace(T, O).attempts = O
<1>1. Idle \in Slots
  BY Zenon DEF Idle, Slots
<1>2. [Idle EXCEPT !.at = "work", !.confirms = T, !.attempts = O] \in Slots
  BY Zenon, <1>1 DEF Slots
<1>3. QED
  BY Zenon, <1>2 DEF Idle, WorkPlace

(* ShouldCancelJob and ExecutionTimeout send the runner to cancel. *)
LEMMA RunnerStep ==
    ASSUME IInv, ShouldCancelJob \/ ExecutionTimeout
    PROVE  IInv'
<1>0. Owned \subseteq Ids /\ {} \subseteq Ids /\ "execution_timeout" \in Reasons /\ Runner \in Workers
  BY Zenon, CancelAssumption DEF Owned, Reasons
<1>1. CASE ShouldCancelJob
  <2>1. asked = TRUE
    BY Zenon, <1>1 DEF IInv, AskedInv, WorldInv, ShouldCancelJob
  <2>2. AskedInv'
    BY Zenon, <1>1 DEF IInv, AskedInv, ShouldCancelJob
  <2> DEFINE s == [Idle EXCEPT !.at = "ensure", !.todo = Owned]
  <2>3. GoodSlot(s, known, ext, asked') /\ s.at \notin Calling /\ s.at \notin Working
    <3>1. s \in Slots /\ s.at = "ensure" /\ s.owned = {}
      BY Zenon, <1>0, EnterSlot
    <3>2. asked' = TRUE
      BY Zenon, <1>1, <2>1 DEF ShouldCancelJob
    <3> HIDE DEF s
    <3>3. QED
      BY Zenon, <3>1, <3>2, PlainSlotGood DEF Working
  <2>4. slot' = [slot EXCEPT ![Runner] = s]
    BY Zenon, <1>1 DEF ShouldCancelJob, Goto
  <2> HIDE DEF s
  <2>5. WorksOn(s, pending')
    BY Zenon, <2>3 DEF WorksOn
  <2>6. QED
    BY Zenon, <1>0, <1>1, <2>2, <2>3, <2>4, <2>5, MoveStep, RecordsOf DEF ShouldCancelJob
<1>2. CASE ExecutionTimeout
  <2>1. asked' = TRUE /\ EnsurePending("execution_timeout")
    BY Zenon, <1>2 DEF ExecutionTimeout
  <2>2. AskedInv'
    BY Zenon, <1>2, <2>1 DEF IInv, AskedInv, ExecutionTimeout
  <2>3. CASE slot' = slot
    BY Zenon, <1>0, <1>2, <2>1, <2>2, <2>3, StayStep, EnsureFacts, RecordsOf
       DEF ExecutionTimeout, IInv, WorldInv
  <2>4. ASSUME NEW s, slot' = [slot EXCEPT ![Runner] = s],
               s \in {[Idle EXCEPT !.at = "ensure", !.todo = Owned],
                      [Idle EXCEPT !.at = "close_timeout"]}
        PROVE  IInv'
    <3>1. s \in Slots /\ s.at \in {"ensure", "close_timeout"} /\ s.owned = {}
      <4>1. CASE s = [Idle EXCEPT !.at = "ensure", !.todo = Owned]
        BY Zenon, <1>0, <4>1, EnterSlot
      <4>2. CASE s = [Idle EXCEPT !.at = "close_timeout"]
        BY Zenon, <4>2, PlaceSlot
      <4>3. QED
        BY Zenon, <2>4, <4>1, <4>2
    <3>2. GoodSlot(s, known, ext, asked') /\ s.at \notin Calling /\ s.at \notin Working
      BY Zenon, <2>1, <3>1, PlainSlotGood DEF Working
    <3>3. WorksOn(s, pending')
      BY Zenon, <3>2 DEF WorksOn
    <3>4. pending # None => Carries(pending, pending', Runner)
      BY Zenon, <1>0, <2>1, EnsureFacts, RecordsOf
    <3>5. QED
      BY Zenon, <1>0, <1>2, <2>1, <2>2, <2>4, <3>2, <3>3, <3>4, MoveStep, EnsureFacts, RecordsOf
         DEF ExecutionTimeout
  <2>5. QED
    BY Zenon, <1>2, <2>3, <2>4 DEF ExecutionTimeout, Goto
<1>3. QED
  BY Zenon, <1>1, <1>2

-----------------------------------------------------------------------------
(* _reconcile_canceled_scheduler_job                                         *)

(* A slot that writes nothing goes on as s. *)
LEMMA GotoStep ==
    ASSUME IInv, NEW w \in Workers, NEW s, Goto(w, s),
           UNCHANGED <<known, ext, asked, calls, done>>,
           pending' = pending \/ (pending' = None /\ done # None),
           job' \in [state : {"active", "terminal"}, request : {None, "cancel", "keep"}],
           job'.request = job.request,
           GoodSlot(s, known, ext, asked), s.at \notin Calling,
           done = None => WorksOn(s, pending)
    PROVE  IInv'
<1>1. AskedInv'
  BY Zenon DEF IInv, AskedInv
<1>2. QED
  BY Zenon, <1>1, MoveStep, RecordsOf DEF Goto

(* A conflict ends the slot's work, and the job if the slot executes it. *)
LEMMA RaiseStep ==
    ASSUME IInv, NEW w \in Workers, Raise(w) \/ ForgivenConflict(w),
           UNCHANGED <<known, ext, asked, calls>>
    PROVE  IInv'
<1>1. /\ Goto(w, Idle)
      /\ UNCHANGED <<pending, done>>
      /\ job' \in [state : {"active", "terminal"}, request : {None, "cancel", "keep"}]
      /\ job'.request = job.request
  <2>1. job \in [state : {"active", "terminal"}, request : {None, "cancel", "keep"}]
    BY Zenon DEF IInv, AskedInv
  <2>2. Goto(w, Idle) /\ UNCHANGED <<pending, done>> /\ job' \in {job, [job EXCEPT !.state = "terminal"]}
    BY Zenon DEF Raise, ForgivenConflict
  <2>3. QED
    BY Zenon, <2>1, <2>2
<1>2. QED
  BY Zenon, <1>1, GotoStep, IdleGood

(* The types of what a slot has read. *)
LEMMA SlotFacts ==
    ASSUME IInv, NEW w \in Workers
    PROVE  /\ GoodSlot(slot[w], known, ext, asked)
           /\ slot[w] \in Slots
           /\ slot[w].owned \in SUBSET Ids /\ slot[w].todo \in SUBSET Ids
           /\ slot[w].attempts \in SUBSET Ids /\ slot[w].confirms \in SUBSET Ids
           /\ slot[w].at \notin Resting => asked = TRUE
           /\ job \in [state : {"active", "terminal"}, request : {None, "cancel", "keep"}]
<1>1. GoodSlot(slot[w], known, ext, asked) /\ slot[w] \in Slots /\ asked \in BOOLEAN
      /\ job \in [state : {"active", "terminal"}, request : {None, "cancel", "keep"}]
  BY Zenon DEF IInv, SlotsInv, AskedInv, WorldInv, GoodSlot
<1>2. /\ slot[w].owned \in SUBSET Ids /\ slot[w].todo \in SUBSET Ids
      /\ slot[w].attempts \in SUBSET Ids /\ slot[w].confirms \in SUBSET Ids
  BY Zenon, <1>1 DEF Slots
<1>3. slot[w].at \notin Resting => asked = TRUE
  BY Zenon, <1>1 DEF GoodSlot
<1>4. QED
  BY Zenon, <1>1, <1>2, <1>3

(* scan_due_scheduler_cancellations *)
LEMMA ScanStep ==
    ASSUME IInv, NEW w \in Workers, Scan(w)
    PROVE  IInv'
<1>0. pending # None /\ GoodRecord(pending, known, ext)
      /\ job \in [state : {"active", "terminal"}, request : {None, "cancel", "keep"}]
  BY Zenon, RecordsOf, SlotFacts DEF Scan
<1>1. CASE done # None /\ pending' = None /\ UNCHANGED slot
  <2>1. AskedInv'
    BY Zenon, <1>1 DEF IInv, AskedInv, Scan
  <2>2. QED
    BY Zenon, <1>1, <2>1, StayStep, RecordsOf DEF Scan, IInv, WorldInv
<1>2. CASE RecordIsDue(pending) /\ UNCHANGED pending
           /\ Goto(w, [Idle EXCEPT !.at = "inspect", !.reason = pending.reason,
                                   !.resolution = pending.resolution])
  <2> DEFINE s == [Idle EXCEPT !.at = "inspect", !.reason = pending.reason,
                               !.resolution = pending.resolution]
  <2>1. pending.resolution \in {"pending", "resolved"} /\ pending.reason \in Reasons
    BY Zenon, <1>0, <1>2 DEF RecordIsDue, Complete, GoodRecord, Resolutions
  <2>2. s \in Slots
    <3>1. Idle \in Slots
      BY Zenon DEF Idle, Slots
    <3>2. QED
      BY Zenon, <2>1, <3>1 DEF Slots, Reasons
  <2>3. s.at = "inspect" /\ s.reason = pending.reason /\ s.owned = {}
    BY Zenon DEF Idle
  <2>4. s.reason # "operator_request" => asked
    BY Zenon, <1>0, <2>3 DEF IInv, AskedInv
  <2> HIDE DEF s
  <2>5. GoodSlot(s, known, ext, asked) /\ s.at \notin Calling /\ WorksOn(s, pending)
    BY Zenon, <2>2, <2>3, <2>4 DEF GoodSlot, Resting, Calling, Working, WorksOn
  <2>6. Goto(w, s) /\ UNCHANGED <<known, ext, asked, calls, done, pending, job>>
    BY Zenon, <1>2 DEF Scan, s
  <2>7. QED
    BY Zenon, <1>0, <2>5, <2>6, GotoStep
<1>3. QED
  BY Zenon, <1>1, <1>2 DEF Scan

(* What a slot does next after it has inspected the job. *)
LEMMA InspectStep ==
    ASSUME IInv, NEW w \in Workers, Inspect(w)
    PROVE  IInv'
<1>0. /\ UNCHANGED <<known, ext, asked, calls, done, pending, job>>
      /\ Owned \in SUBSET Ids /\ Observed \in SUBSET Ids
      /\ \A i \in Owned : known[i] = "owned"
      /\ asked \in BOOLEAN
      /\ job \in [state : {"active", "terminal"}, request : {None, "cancel", "keep"}]
  BY Zenon, SlotFacts, RecordsOf DEF Inspect, Owned, Observed
<1>1. ASSUME NEW s, Goto(w, s), s \in {[Idle EXCEPT !.at = "supersede"],
                                       [Idle EXCEPT !.at = "close_empty"]}
      PROVE  IInv'
  <2>1. s \in Slots /\ s.at \in {"supersede", "close_empty"} /\ s.owned = {}
    BY Zenon, <1>1, PlaceSlot
  <2>2. GoodSlot(s, known, ext, asked) /\ s.at \notin Calling /\ WorksOn(s, pending)
    BY Zenon, <2>1 DEF GoodSlot, Resting, Calling, Working, WorksOn
  <2>3. QED
    BY Zenon, <1>0, <1>1, <2>2, GotoStep
<1>2. ASSUME NEW s, Goto(w, s), asked = TRUE,
             s \in {[Idle EXCEPT !.at = "register_seen", !.todo = Observed, !.owned = Owned],
                    [Idle EXCEPT !.at = "ensure", !.todo = Owned]}
      PROVE  IInv'
  <2>1. s \in Slots /\ s.at \in {"register_seen", "ensure"} /\ s.owned \in {{}, Owned}
    <3>1. CASE s = [Idle EXCEPT !.at = "register_seen", !.todo = Observed, !.owned = Owned]
      <4>1. s = SeenPlace(Observed, Owned)
        BY Zenon, <3>1 DEF SeenPlace
      <4>2. QED
        BY Zenon, <1>0, <4>1, SeenSlot
    <3>2. CASE s = [Idle EXCEPT !.at = "ensure", !.todo = Owned]
      BY Zenon, <1>0, <3>2, EnterSlot
    <3>3. QED
      BY Zenon, <1>2, <3>1, <3>2
  <2>2. GoodSlot(s, known, ext, asked) /\ s.at \notin Calling
    <3>1. \A i \in s.owned : known[i] = "owned"
      BY Zenon, <1>0, <2>1
    <3>2. GoodSlot(s, known, ext, TRUE) /\ s.at \notin Calling
      BY Zenon, <2>1, <3>1, PlainSlotGood
    <3>3. QED
      BY Zenon, <1>2, <3>2
  <2>3. WorksOn(s, pending)
    BY Zenon, <2>1 DEF Working, WorksOn
  <2>4. QED
    BY Zenon, <1>0, <1>2, <2>2, <2>3, GotoStep
<1>3. CASE Goto(w, Idle)
  BY Zenon, <1>0, <1>3, GotoStep, IdleGood
<1>4. slot[w].reason # "operator_request" \/ job.request = "cancel" => asked = TRUE
  BY Zenon, <1>0, SlotFacts DEF GoodSlot, IInv, AskedInv, Inspect, At
<1>5. \E s : /\ Goto(w, s)
             /\ \/ s = Idle
                \/ s \in {[Idle EXCEPT !.at = "supersede"], [Idle EXCEPT !.at = "close_empty"]}
                \/ /\ slot[w].reason # "operator_request" \/ job.request = "cancel"
                   /\ s \in {[Idle EXCEPT !.at = "register_seen", !.todo = Observed, !.owned = Owned],
                             [Idle EXCEPT !.at = "ensure", !.todo = Owned]}
  BY Zenon DEF Inspect
<1>6. QED
  BY Zenon, <1>1, <1>2, <1>3, <1>4, <1>5

(* complete_scheduler_cancel_identity_scan, both ways. *)
LEMMA CloseStep ==
    ASSUME IInv, NEW w \in Workers, Supersede(w) \/ CloseEmpty(w)
    PROVE  IInv'
<1>0. /\ UNCHANGED <<known, ext, asked, calls>>
      /\ job \in [state : {"active", "terminal"}, request : {None, "cancel", "keep"}]
  BY Zenon, SlotFacts DEF Supersede, CloseEmpty
<1>1. CASE Raise(w) \/ ForgivenConflict(w)
  BY Zenon, <1>0, <1>1, RaiseStep
<1>2. CASE Goto(w, Idle) /\ UNCHANGED <<job, pending, done>>
  BY Zenon, <1>0, <1>2, GotoStep, IdleGood
<1>3. ASSUME pending # None, Save(w, [pending EXCEPT !.resolution = "none"], Idle), UNCHANGED job
      PROVE  IInv'
  <2> DEFINE r == [pending EXCEPT !.resolution = "none"]
  <2>1. GoodRecord(pending, known, ext) /\ "none" \in Resolutions
    BY Zenon, <1>3, RecordsOf DEF Resolutions
  <2>2. GoodRecord(r, known, ext) /\ r.reason = pending.reason
    BY <2>1, Resolved
  <2>3. Complete(r)
    BY Zenon, <2>1 DEF Complete, GoodRecord
  <2> HIDE DEF r
  <2>4. Save(w, r, Idle)
    BY Zenon, <1>3 DEF r
  <2>5. QED
    BY Zenon, <1>0, <1>3, <2>2, <2>3, <2>4, SaveStep, IdleGood
<1>4. ASSUME pending # None, Supersede(w)
      PROVE  IInv'
  <2> DEFINE f == [i \in DOMAIN pending.disp |->
                     [pending.disp[i] EXCEPT !.claim = None, !.confirm = None, !.live = FALSE]]
             r == [pending EXCEPT !.resolution = "superseded", !.disp = f]
  <2>1. GoodRecord(pending, known, ext) /\ "superseded" \in Resolutions
    BY Zenon, <1>4, RecordsOf DEF Resolutions
  <2>2. ASSUME NEW i \in DOMAIN pending.disp
        PROVE  GoodDisposition(f[i], i, known, ext)
    <3> DEFINE d == pending.disp[i]
               q == [d EXCEPT !.claim = None, !.confirm = None, !.live = FALSE]
    <3>1. GoodDisposition(d, i, known, ext)
      BY Zenon, <2>1 DEF GoodRecord
    <3>2. f[i] = q
      BY Zenon
    <3> HIDE DEF d, f
    <3>3. q \in Disposition
      BY Zenon, <3>1 DEF GoodDisposition, Disposition
    <3>4. q.state = d.state /\ q.claim = None /\ q.confirm = None
      BY Zenon, <3>1 DEF GoodDisposition, Disposition
    <3> HIDE DEF q
    <3>5. QED
      BY Zenon, <3>1, <3>2, <3>3, <3>4 DEF GoodDisposition
  <2>3. DOMAIN f = DOMAIN pending.disp /\ f = [i \in DOMAIN f |-> f[i]]
    BY Zenon
  <2>4. Save(w, r, Idle) /\ UNCHANGED job
    BY Zenon, <1>4 DEF Supersede
  <2> HIDE DEF f
  <2>5. GoodRecord(r, known, ext) /\ r.reason = pending.reason /\ r.resolution = "superseded"
    <3>1. pending \in [reason : Reasons, resolution : Resolutions, disp : {pending.disp}]
      BY Zenon, <2>1 DEF GoodRecord
    <3>2. r \in [reason : Reasons, resolution : Resolutions, disp : {f}]
      BY Zenon, <2>1, <3>1
    <3>3. r.reason = pending.reason /\ r.resolution = "superseded" /\ r.disp = f
      BY Zenon, <3>1
    <3> HIDE DEF r
    <3>4. r = [reason |-> r.reason, resolution |-> r.resolution, disp |-> r.disp]
      BY Zenon, <3>2
    <3>5. QED
      BY Zenon, <2>1, <2>2, <2>3, <3>3, <3>4 DEF GoodRecord
  <2>6. Complete(r)
    BY Zenon, <2>5 DEF Complete
  <2> HIDE DEF r
  <2>7. QED
    BY Zenon, <1>0, <1>4, <2>4, <2>5, <2>6, SaveStep, IdleGood
<1>5. QED
  BY Zenon, <1>1, <1>2, <1>3, <1>4 DEF Supersede, CloseEmpty

-----------------------------------------------------------------------------
(* Identities                                                                *)

(* The record that registration writes carries every claim. *)
LEMMA RegisteredCarries ==
    ASSUME NEW r, NEW q, NEW w,
           \A k \in DOMAIN r.disp :
              /\ k \in DOMAIN q.disp
              /\ r.disp[k].claim # None => q.disp[k] = r.disp[k]
    PROVE  Carries(r, q, w)
  BY Zenon DEF Carries

(* register_scheduler_cancel_identity_once, from either path. *)
LEMMA RegisterStep ==
    ASSUME IInv, NEW w \in Workers, NEW i \in Ids, RegisterSeen(w, i) \/ Register(w, i)
    PROVE  IInv'
<1>0. /\ UNCHANGED <<known, ext, asked, calls>>
      /\ slot[w] \in Slots /\ slot[w].at \in {"register_seen", "register"}
      /\ \A k \in slot[w].owned : known[k] = "owned"
      /\ asked = TRUE
  <2>1. slot[w].at \in {"register_seen", "register"} /\ UNCHANGED <<known, ext, asked, calls>>
    BY Zenon DEF RegisterSeen, Register, At
  <2>2. QED
    BY Zenon, <2>1, SlotFacts DEF GoodSlot, Resting
<1>1. CASE Raise(w) \/ ForgivenConflict(w)
  BY Zenon, <1>0, <1>1, RaiseStep
<1>2. ASSUME NEW v \in BOOLEAN, v => known[i] = "owned", pending # None, UNCHANGED job,
             Save(w, Registered(pending, i, v), [slot[w] EXCEPT !.todo = @ \ {i}])
      PROVE  IInv'
  <2> DEFINE r == Registered(pending, i, v)
             s == [slot[w] EXCEPT !.todo = @ \ {i}]
  <2>1. /\ GoodRecord(r, known, ext) /\ r.reason = pending.reason
        /\ \A k \in DOMAIN pending.disp :
              k \in DOMAIN r.disp /\ (pending.disp[k].claim # None => r.disp[k] = pending.disp[k])
    BY <1>2, RecordsOf, RegisteredGood
  <2>2. s \in Slots
    <3>1. slot[w].todo \ {i} \in SUBSET Ids
      BY Zenon, SlotFacts
    <3>2. QED
      BY Zenon, <1>0, <3>1 DEF Slots
  <2>3. s.at = slot[w].at /\ s.owned = slot[w].owned
    BY Zenon, <1>0 DEF Slots
  <2>4. Save(w, r, s)
    BY Zenon, <1>2
  <2> HIDE DEF r, s
  <2>5. GoodSlot(s, known, ext, TRUE) /\ s.at \notin Calling
    BY Zenon, <1>0, <2>2, <2>3, PlainSlotGood
  <2>6. GoodSlot(s, known, ext, asked) /\ WorksOn(s, r) /\ Carries(pending, r, w)
    BY Zenon, <1>0, <2>1, <2>3, <2>5, RegisteredCarries DEF WorksOn, Working
  <2>7. QED
    BY Zenon, <1>0, <1>2, <2>1, <2>4, <2>5, <2>6, SaveStep
<1>3. CASE RegisterSeen(w, i)
  <2>1. (i \in slot[w].owned) \in BOOLEAN /\ ((i \in slot[w].owned) => known[i] = "owned")
    BY <1>0
  <2>2. QED
    BY Zenon, <1>1, <1>2, <1>3, <2>1 DEF RegisterSeen
<1>4. CASE Register(w, i)
  <2>1. (i \in Owned) \in BOOLEAN /\ ((i \in Owned) => known[i] = "owned")
    BY DEF Owned
  <2>2. QED
    BY Zenon, <1>1, <1>2, <1>4, <2>1 DEF Register
<1>5. QED
  BY Zenon, <1>3, <1>4

(* finalize_scheduler_cancel_identities marks a record resolved. *)
LEMMA FinalizedRecord ==
    ASSUME IInv, pending # None, NEW w
    PROVE  LET r == [pending EXCEPT !.resolution = "resolved"] IN
           /\ GoodRecord(pending, known, ext)
           /\ GoodRecord(r, known, ext) /\ r.reason = pending.reason
           /\ r.disp = pending.disp /\ Carries(pending, r, w)
<1>1. GoodRecord(pending, known, ext) /\ "resolved" \in Resolutions
  BY Zenon, RecordsOf DEF Resolutions
<1> DEFINE r == [pending EXCEPT !.resolution = "resolved"]
<1>2. GoodRecord(r, known, ext) /\ r.reason = pending.reason /\ r.disp = pending.disp
  BY <1>1, Resolved
<1>3. Carries(pending, r, w)
  <2> HIDE DEF r
  <2>1. QED
    BY Zenon, <1>2 DEF Carries
<1>4. QED
  BY Zenon, <1>1, <1>2, <1>3

(* finalize_scheduler_cancel_identities by the reconciler. *)
LEMMA FinalizeSeenStep ==
    ASSUME IInv, NEW w \in Workers, FinalizeSeen(w)
    PROVE  IInv'
<1>0. /\ UNCHANGED <<known, ext, asked, calls>>
      /\ slot[w].owned \in SUBSET Ids /\ asked = TRUE
  BY Zenon, SlotFacts DEF FinalizeSeen, At, Resting
<1>1. CASE NothingToFinalize
  BY Zenon, <1>0, <1>1, RaiseStep DEF FinalizeSeen
<1>2. CASE ~ NothingToFinalize
  <2> DEFINE r == [pending EXCEPT !.resolution = "resolved"]
             s == IF slot[w].owned # {} THEN [Idle EXCEPT !.at = "ensure", !.todo = slot[w].owned]
                  ELSE Idle
  <2>1. Save(w, r, s) /\ UNCHANGED job /\ pending # None
    BY Zenon, <1>2 DEF FinalizeSeen, NothingToFinalize
  <2>2. GoodRecord(r, known, ext) /\ r.reason = pending.reason /\ Carries(pending, r, w)
    BY Zenon, <2>1, FinalizedRecord
  <2>3. GoodSlot(s, known, ext, asked) /\ s.at \notin Calling /\ s.at \notin Working
    <3>0. s = Idle \/ s = [Idle EXCEPT !.at = "ensure", !.todo = slot[w].owned]
      BY Zenon
    <3> HIDE DEF s
    <3>1. CASE s = Idle
      BY Zenon, <3>1, IdleGood
    <3>2. CASE s = [Idle EXCEPT !.at = "ensure", !.todo = slot[w].owned]
      <4>1. s \in Slots /\ s.at = "ensure" /\ s.owned = {}
        BY Zenon, <1>0, <3>2, EnterSlot
      <4>2. GoodSlot(s, known, ext, TRUE) /\ s.at \notin Calling
        BY Zenon, <4>1, PlainSlotGood
      <4>3. QED
        BY Zenon, <1>0, <4>1, <4>2 DEF Working
    <3>3. QED
      BY Zenon, <3>0, <3>1, <3>2
  <2> HIDE DEF r, s
  <2>4. WorksOn(s, r)
    BY Zenon, <2>3 DEF WorksOn
  <2>5. QED
    BY Zenon, <1>0, <2>1, <2>2, <2>3, <2>4, SaveStep
<1>3. QED
  BY Zenon, <1>1, <1>2

(* ensure_scheduler_cancel_pending at the start of _cancel_scheduler_jobs. *)
LEMMA EnsureStep ==
    ASSUME IInv, NEW w \in Workers, Ensure(w)
    PROVE  IInv'
<1>0. /\ UNCHANGED <<known, ext, asked, calls, done, job>>
      /\ slot[w] \in Slots /\ asked = TRUE /\ \A i \in slot[w].owned : known[i] = "owned"
      /\ job \in [state : {"active", "terminal"}, request : {None, "cancel", "keep"}]
      /\ "scheduler_cancel" \in Reasons /\ EnsurePending("scheduler_cancel")
  BY Zenon, SlotFacts DEF Ensure, At, Resting, Reasons, GoodSlot
<1>1. AskedInv'
  BY Zenon, <1>0 DEF IInv, AskedInv
<1>2. pending # None => Carries(pending, pending', w)
  BY Zenon, <1>0, EnsureFacts, RecordsOf
<1>3. ASSUME NEW s, Goto(w, s), GoodSlot(s, known, ext, asked), s.at \notin Calling,
             s.at \notin Working
      PROVE  IInv'
  <2>1. WorksOn(s, pending')
    BY Zenon, <1>3 DEF WorksOn
  <2>2. QED
    BY Zenon, <1>0, <1>1, <1>2, <1>3, <2>1, MoveStep, EnsureFacts, RecordsOf DEF Goto
<1>4. CASE Goto(w, Idle)
  BY Zenon, <1>3, <1>4, IdleGood
<1>5. CASE Goto(w, [slot[w] EXCEPT !.at = "register"])
  <2> DEFINE s == [slot[w] EXCEPT !.at = "register"]
  <2>1. s \in Slots
    BY Zenon, <1>0 DEF Slots
  <2>2. s.at = "register" /\ s.owned = slot[w].owned
    BY Zenon, <1>0 DEF Slots
  <2>3. Goto(w, s)
    BY Zenon, <1>5
  <2> HIDE DEF s
  <2>4. \A i \in s.owned : known[i] = "owned"
    BY Zenon, <1>0, <2>2
  <2>5. GoodSlot(s, known, ext, TRUE) /\ s.at \notin Calling
    BY Zenon, <2>1, <2>2, <2>4, PlainSlotGood
  <2>6. QED
    BY Zenon, <1>0, <1>3, <2>2, <2>3, <2>5 DEF Working
<1>6. QED
  BY Zenon, <1>4, <1>5 DEF Ensure

(* finalize_scheduler_cancel_identities of a slot that will do the work. *)
LEMMA FinalizeStep ==
    ASSUME IInv, NEW w \in Workers, Finalize(w)
    PROVE  IInv'
<1>0. /\ UNCHANGED <<known, ext, asked, calls>> /\ asked = TRUE
  BY Zenon, SlotFacts DEF Finalize, At, Resting
<1>1. CASE NothingToFinalize
  BY Zenon, <1>0, <1>1, RaiseStep DEF Finalize
<1>2. CASE ~ NothingToFinalize
  <2> DEFINE r == [pending EXCEPT !.resolution = "resolved"]
             Due(S) == {i \in DOMAIN r.disp : r.disp[i].state \in S /\ r.disp[i].due}
             C == Due({"cancel_requested"})
             O == Due(Open)
             s == IF Complete(r) THEN Idle
                  ELSE [Idle EXCEPT !.at = "work", !.confirms = C, !.attempts = O]
  <2>1. Save(w, r, s) /\ UNCHANGED job /\ pending # None
    BY Zenon, <1>2 DEF Finalize, NothingToFinalize
  <2>2. /\ GoodRecord(pending, known, ext) /\ r.disp = pending.disp
        /\ GoodRecord(r, known, ext) /\ r.reason = pending.reason /\ Carries(pending, r, w)
    BY Zenon, <2>1, FinalizedRecord
  <2>a. r # None
    BY Zenon, <2>2, RecordIsSome
  <2> HIDE DEF r
  <2>3. C \in SUBSET Ids /\ O \in SUBSET Ids /\ C \cup O \subseteq DOMAIN r.disp
    BY Zenon, <2>2 DEF GoodRecord
  <2> HIDE DEF C, O
  <2>4. GoodSlot(s, known, ext, asked) /\ s.at \notin Calling /\ WorksOn(s, r)
    <3>0. s = Idle \/ s = [Idle EXCEPT !.at = "work", !.confirms = C, !.attempts = O]
      BY Zenon
    <3> HIDE DEF s
    <3>1. CASE s = Idle
      BY Zenon, <3>1, IdleGood
    <3>2. CASE s = [Idle EXCEPT !.at = "work", !.confirms = C, !.attempts = O]
      <4>1. s \in Slots /\ s.at = "work" /\ s.owned = {} /\ s.confirms = C /\ s.attempts = O
        <5>1. s = WorkPlace(C, O)
          BY Zenon, <3>2 DEF WorkPlace
        <5>2. QED
          BY Zenon, <2>3, <5>1, WorkSlot
      <4>2. GoodSlot(s, known, ext, TRUE) /\ s.at \notin Calling
        BY Zenon, <4>1, PlainSlotGood
      <4>3. QED
        BY Zenon, <1>0, <2>a, <2>3, <4>1, <4>2 DEF WorksOn
    <3>3. QED
      BY Zenon, <3>0, <3>1, <3>2
  <2> HIDE DEF s
  <2>5. QED
    BY Zenon, <1>0, <2>1, <2>2, <2>4, SaveStep
<1>3. QED
  BY Zenon, <1>1, <1>2

-----------------------------------------------------------------------------
(* Attempts and confirmations                                                *)

(* A disposition that a slot claims, or whose wait or lease ends. *)
LEMMA DispositionTouched ==
    ASSUME NEW K, NEW E, NEW i, NEW d, GoodDisposition(d, i, K, E), NEW w \in Workers
    PROVE  /\ d.state \in Open =>
                 GoodDisposition([d EXCEPT !.claim = w, !.live = TRUE], i, K, E)
           /\ d.state = "cancel_requested" =>
                 /\ GoodDisposition([d EXCEPT !.confirm = w, !.live = TRUE], i, K, E)
                 /\ [d EXCEPT !.confirm = w, !.live = TRUE].claim = None
           /\ GoodDisposition([d EXCEPT !.due = TRUE], i, K, E)
           /\ GoodDisposition([d EXCEPT !.live = FALSE], i, K, E)
<1> DEFINE q1 == [d EXCEPT !.claim = w, !.live = TRUE]
           q2 == [d EXCEPT !.confirm = w, !.live = TRUE]
           q3 == [d EXCEPT !.due = TRUE]
           q4 == [d EXCEPT !.live = FALSE]
<1>1. d \in Disposition
  BY Zenon DEF GoodDisposition
<1>2. q1 \in Disposition /\ q2 \in Disposition
  BY Zenon, <1>1 DEF Disposition
<1>3. q3 \in Disposition /\ q4 \in Disposition
  BY Zenon, <1>1 DEF Disposition
<1>4. /\ q1.state = d.state /\ q1.confirm = d.confirm
      /\ q2.state = d.state /\ q2.claim = d.claim
      /\ q3.state = d.state /\ q3.claim = d.claim /\ q3.confirm = d.confirm
      /\ q4.state = d.state /\ q4.claim = d.claim /\ q4.confirm = d.confirm
  BY Zenon, <1>1 DEF Disposition
<1>5. /\ d.state \in Open => GoodDisposition(q1, i, K, E)
      /\ d.state = "cancel_requested" => GoodDisposition(q2, i, K, E) /\ q2.claim = None
      /\ GoodDisposition(q3, i, K, E)
      /\ GoodDisposition(q4, i, K, E)
  <2> HIDE DEF q1, q2, q3, q4
  <2>1. QED
    BY Zenon, <1>2, <1>3, <1>4 DEF GoodDisposition, Open
<1>6. QED
  BY Zenon, <1>5

(* A slot with less, or with nothing more to claim, is as good as it was. *)
LEMMA RestGood ==
    ASSUME IInv, NEW w \in Workers, slot[w].at = "work", NEW s \in Slots,
           s.at = "work", s.owned = slot[w].owned,
           s.attempts \subseteq slot[w].attempts, s.confirms \subseteq slot[w].confirms
    PROVE  /\ GoodSlot(s, known, ext, asked) /\ s.at \notin Calling
           /\ done = None => WorksOn(s, pending)
<1>1. asked = TRUE /\ \A i \in s.owned : known[i] = "owned"
  BY Zenon, SlotFacts DEF GoodSlot, Resting
<1>2. GoodSlot(s, known, ext, TRUE) /\ s.at \notin Calling
  BY Zenon, <1>1, PlainSlotGood
<1>3. done = None => WorksOn(slot[w], pending)
  BY Zenon DEF IInv, WorkInv
<1>4. QED
  BY Zenon, <1>1, <1>2, <1>3 DEF WorksOn, Working

(* What remains to be done after the claim of i was tried. *)
LEMMA RestSlots ==
    ASSUME IInv, NEW w \in Workers, slot[w].at = "work", NEW i
    PROVE  /\ LET s == [slot[w] EXCEPT !.attempts = @ \ {i}] IN
              /\ s \in Slots /\ s.at = "work" /\ s.owned = slot[w].owned
              /\ s.attempts = slot[w].attempts \ {i} /\ s.confirms = slot[w].confirms
              /\ s.late = slot[w].late
           /\ LET s == [slot[w] EXCEPT !.confirms = @ \ {i}] IN
              /\ s \in Slots /\ s.at = "work" /\ s.owned = slot[w].owned
              /\ s.attempts = slot[w].attempts /\ s.confirms = slot[w].confirms \ {i}
<1>1. /\ slot[w] \in Slots
      /\ slot[w].attempts \ {i} \in SUBSET Ids /\ slot[w].confirms \ {i} \in SUBSET Ids
  BY Zenon, SlotFacts
<1>2. /\ [slot[w] EXCEPT !.attempts = @ \ {i}] \in Slots
      /\ [slot[w] EXCEPT !.confirms = @ \ {i}] \in Slots
  BY Zenon, <1>1 DEF Slots
<1>3. QED
  BY Zenon, <1>1, <1>2 DEF Slots

(* A slot that tries a claim and does not get it, or finds nothing to do. *)
LEMMA NotClaimed ==
    ASSUME IInv, NEW w \in Workers, slot[w].at = "work", NEW s \in Slots,
           s.at = "work", s.owned = slot[w].owned,
           s.attempts \subseteq slot[w].attempts, s.confirms \subseteq slot[w].confirms,
           UNCHANGED <<known, ext, asked, calls>>,
           Overtaken(w, s) \/ Raise(w) \/ (Goto(w, s) /\ UNCHANGED <<pending, job, done>>)
    PROVE  IInv'
<1>1. /\ GoodSlot(s, known, ext, asked) /\ s.at \notin Calling
      /\ done = None => WorksOn(s, pending)
  BY Zenon, RestGood
<1>2. job \in [state : {"active", "terminal"}, request : {None, "cancel", "keep"}]
  BY Zenon, SlotFacts
<1>3. CASE Raise(w)
  BY Zenon, <1>3, RaiseStep
<1>4. CASE Overtaken(w, s)
  BY Zenon, <1>1, <1>2, <1>4, GotoStep DEF Overtaken
<1>5. CASE Goto(w, s) /\ UNCHANGED <<pending, job, done>>
  BY Zenon, <1>1, <1>2, <1>5, GotoStep
<1>6. QED
  BY Zenon, <1>3, <1>4, <1>5

(* A slot without work, and a slot that is told the state of a job. *)
LEMMA WorkDoneStep ==
    ASSUME IInv, NEW w \in Workers, WorkDone(w)
    PROVE  IInv'
<1>1. job \in [state : {"active", "terminal"}, request : {None, "cancel", "keep"}]
  BY Zenon, SlotFacts
<1>2. QED
  BY Zenon, <1>1, GotoStep, IdleGood DEF WorkDone

(* claim_scheduler_cancel_attempt: the claim is the new caller's, and no     *)
(* slot with a running lease was calling for that job.                       *)
LEMMA ClaimAttemptStep ==
    ASSUME IInv, NEW w \in Workers, NEW i \in Ids, ClaimAttempt(w, i)
    PROVE  IInv'
<1> DEFINE rest == [slot[w] EXCEPT !.attempts = @ \ {i}]
<1>0. slot[w].at = "work" /\ i \in slot[w].attempts /\ UNCHANGED <<known, ext, asked, calls>>
  BY Zenon DEF ClaimAttempt, At
<1>1. /\ rest \in Slots /\ rest.at = "work" /\ rest.owned = slot[w].owned
      /\ rest.attempts = slot[w].attempts \ {i} /\ rest.confirms = slot[w].confirms
  BY Zenon, <1>0, RestSlots
<1>2. CASE Overtaken(w, rest) \/ Raise(w) \/ (Goto(w, rest) /\ UNCHANGED <<pending, job, done>>)
  <2> HIDE DEF rest
  <2>1. QED
    BY Zenon, <1>0, <1>1, <1>2, NotClaimed
<1>3. CASE /\ done = None /\ pending # None /\ MayAttempt(i)
           /\ pending' = [pending EXCEPT !.disp[i] = [@ EXCEPT !.claim = w, !.live = TRUE]]
           /\ Goto(w, [rest EXCEPT !.at = "cancel", !.id = i])
           /\ UNCHANGED <<job, done>>
  <2> DEFINE d == [pending.disp[i] EXCEPT !.claim = w, !.live = TRUE]
             c == [rest EXCEPT !.at = "cancel", !.id = i]
  <2>1. /\ GoodRecord(pending, known, ext) /\ WorksOn(slot[w], pending)
        /\ slot[w].attempts \cup slot[w].confirms \subseteq DOMAIN pending.disp
        /\ i \in DOMAIN pending.disp /\ asked = TRUE
    BY Zenon, <1>0, <1>3, RecordsOf, SlotFacts DEF IInv, WorkInv, WorksOn, Working, Resting
  <2>2. /\ GoodDisposition(pending.disp[i], i, known, ext)
        /\ pending.disp[i].state \in Open /\ ~ pending.disp[i].live /\ known[i] = "owned"
    BY Zenon, <1>3, <2>1 DEF GoodRecord, GoodDisposition, MayAttempt
  <2>3. GoodDisposition(d, i, known, ext) /\ d.claim = w /\ d.live = TRUE
    <3>1. GoodDisposition(d, i, known, ext)
      BY Zenon, <2>2, DispositionTouched
    <3>2. pending.disp[i] \in Disposition
      BY Zenon, <2>2 DEF GoodDisposition
    <3>3. d.claim = w /\ d.live = TRUE
      BY Zenon, <3>2 DEF Disposition
    <3>4. QED
      BY Zenon, <3>1, <3>3
  <2>4. pending' = [pending EXCEPT !.disp[i] = d]
    BY Zenon, <1>3
  <2>5. slot' = [slot EXCEPT ![w] = c]
    BY Zenon, <1>3 DEF Goto
  <2>6. c \in Slots
    <3> HIDE DEF rest
    <3>1. QED
      BY Zenon, <1>1 DEF Slots
  <2>7. /\ c.at = "cancel" /\ c.id = i /\ c.owned = slot[w].owned
        /\ c.attempts \subseteq slot[w].attempts /\ c.confirms = slot[w].confirms
    <3> HIDE DEF rest
    <3>1. QED
      BY Zenon, <1>1 DEF Slots
  <2> HIDE DEF c, d, rest
  <2>8. /\ GoodRecord(pending', known, ext) /\ pending'.reason = pending.reason
        /\ pending'.disp = [pending.disp EXCEPT ![i] = d]
    BY <2>1, <2>3, <2>4, DispositionReplaced
  <2>9. pending' # None
    BY Zenon, <2>8, RecordIsSome
  <2>10. GoodSlot(c, known, ext, asked)
    BY Zenon, <1>0, <2>1, <2>2, <2>6, <2>7, SlotFacts DEF GoodSlot, Resting
  <2>11. /\ slot'[w] = c
         /\ \A v \in Workers : v # w => slot'[v] = slot[v]
         /\ slot' = [v \in Workers |-> slot'[v]]
    BY Zenon, <2>5 DEF IInv, SlotsInv
  <2>12. WorldInv' /\ RecordsInv' /\ AskedInv'
    BY Zenon, <1>0, <1>3, <2>8 DEF IInv, WorldInv, RecordsInv, AskedInv
  <2>13. SlotsInv'
    BY Zenon, <1>0, <2>10, <2>11 DEF IInv, SlotsInv
  <2>14. /\ DOMAIN pending'.disp = DOMAIN pending.disp
         /\ pending'.disp[i].claim = w /\ pending'.disp[i].live = TRUE
         /\ \A k \in DOMAIN pending.disp : k # i => pending'.disp[k] = pending.disp[k]
    BY Zenon, <2>1, <2>3, <2>8 DEF GoodRecord
  <2>15. WorkInv'
    <3>1. ASSUME NEW v \in Workers PROVE WorksOn(slot'[v], pending')
      <4>1. CASE v = w
        BY Zenon, <2>1, <2>7, <2>9, <2>11, <2>14, <4>1 DEF WorksOn
      <4>2. CASE v # w
        BY Zenon, <1>3, <2>9, <2>11, <2>14, <4>2 DEF IInv, WorkInv, WorksOn
      <4>3. QED
        BY Zenon, <4>1, <4>2
    <3>2. QED
      BY Zenon, <3>1 DEF WorkInv, WorksOn
  <2>16. ClaimsInv'
    <3>1. ASSUME NEW v \in Workers, v # w, slot[v].at \in Calling, ~ slot[v].late
          PROVE  /\ slot[v].id # i
                 /\ slot[v].id \in DOMAIN pending.disp
                 /\ pending.disp[slot[v].id].claim = v
                 /\ pending.disp[slot[v].id].live
      BY Zenon, <1>3, <2>2, <3>1 DEF IInv, ClaimsInv, HoldsClaim
    <3>2. ASSUME NEW v \in Workers PROVE HoldsClaim(v)'
      <4>1. CASE v = w
        BY Zenon, <2>1, <2>7, <2>9, <2>11, <2>14, <4>1 DEF HoldsClaim
      <4>2. CASE v # w
        BY <2>9, <2>11, <2>14, <3>1, <4>2 DEF HoldsClaim
      <4>3. QED
        BY Zenon, <4>1, <4>2
    <3>3. QED
      BY <2>7, <2>11, <3>1, <3>2 DEF IInv, ClaimsInv
  <2>17. QED
    BY Zenon, <2>12, <2>13, <2>15, <2>16 DEF IInv
<1>4. QED
  BY Zenon, <1>2, <1>3 DEF ClaimAttempt, Undecided

(* claim_scheduler_cancel_confirmation *)
LEMMA ClaimConfirmationStep ==
    ASSUME IInv, NEW w \in Workers, NEW i \in Ids, ClaimConfirmation(w, i)
    PROVE  IInv'
<1> DEFINE rest == [slot[w] EXCEPT !.confirms = @ \ {i}]
<1>0. slot[w].at = "work" /\ i \in slot[w].confirms /\ UNCHANGED <<known, ext, asked, calls>>
  BY Zenon DEF ClaimConfirmation, At
<1>1. /\ rest \in Slots /\ rest.at = "work" /\ rest.owned = slot[w].owned
      /\ rest.attempts = slot[w].attempts /\ rest.confirms = slot[w].confirms \ {i}
  BY Zenon, <1>0, RestSlots
<1>2. CASE Overtaken(w, rest) \/ Raise(w) \/ (Goto(w, rest) /\ UNCHANGED <<pending, job, done>>)
  <2> HIDE DEF rest
  <2>1. QED
    BY Zenon, <1>0, <1>1, <1>2, NotClaimed
<1>3. CASE /\ done = None /\ pending # None /\ MayConfirm(i)
           /\ pending' = [pending EXCEPT !.disp[i] = [@ EXCEPT !.confirm = w, !.live = TRUE]]
           /\ Goto(w, [rest EXCEPT !.at = "poll", !.id = i])
           /\ UNCHANGED <<job, done>>
  <2> DEFINE d == [pending.disp[i] EXCEPT !.confirm = w, !.live = TRUE]
             c == [rest EXCEPT !.at = "poll", !.id = i]
  <2>1. /\ GoodRecord(pending, known, ext)
        /\ slot[w].attempts \cup slot[w].confirms \subseteq DOMAIN pending.disp
        /\ i \in DOMAIN pending.disp /\ asked = TRUE
    BY Zenon, <1>0, <1>3, RecordsOf, SlotFacts DEF IInv, WorkInv, WorksOn, Working, Resting
  <2>2. /\ GoodDisposition(pending.disp[i], i, known, ext)
        /\ pending.disp[i].state = "cancel_requested"
    BY Zenon, <1>3, <2>1 DEF GoodRecord, MayConfirm
  <2>3. GoodDisposition(d, i, known, ext) /\ pending.disp[i].claim = None
    <3>1. GoodDisposition(d, i, known, ext)
      BY Zenon, <2>2, DispositionTouched
    <3>2. pending.disp[i].claim = None
      BY Zenon, <2>2 DEF GoodDisposition, Open
    <3>3. QED
      BY Zenon, <3>1, <3>2
  <2>4. pending' = [pending EXCEPT !.disp[i] = d]
    BY Zenon, <1>3
  <2>5. slot' = [slot EXCEPT ![w] = c]
    BY Zenon, <1>3 DEF Goto
  <2>6. c \in Slots
    <3> HIDE DEF rest
    <3>1. QED
      BY Zenon, <1>1 DEF Slots
  <2>7. /\ c.at = "poll" /\ c.id = i /\ c.owned = slot[w].owned
        /\ c.attempts \cup c.confirms \subseteq slot[w].attempts \cup slot[w].confirms
    <3> HIDE DEF rest
    <3>1. QED
      BY Zenon, <1>1 DEF Slots
  <2> HIDE DEF c, d, rest
  <2>8. /\ GoodRecord(pending', known, ext) /\ pending'.reason = pending.reason
        /\ pending'.disp = [pending.disp EXCEPT ![i] = d]
    BY <2>1, <2>3, <2>4, DispositionReplaced
  <2>9. pending' # None
    BY Zenon, <2>8, RecordIsSome
  <2>10. GoodSlot(c, known, ext, asked) /\ c.at \notin Calling
    BY Zenon, <1>0, <2>1, <2>6, <2>7, SlotFacts DEF GoodSlot, Resting, Calling
  <2>11. AskedInv'
    BY Zenon, <1>0, <1>3, <2>8 DEF IInv, AskedInv
  <2>12. Carries(pending, pending', w)
    BY Zenon, <2>1, <2>3, <2>8 DEF Carries, GoodRecord
  <2>13. WorksOn(c, pending')
    BY Zenon, <2>1, <2>7, <2>8, <2>9 DEF WorksOn, GoodRecord
  <2>14. QED
    BY Zenon, <1>0, <1>3, <2>5, <2>8, <2>9, <2>10, <2>11, <2>12, <2>13, MoveStep, RecordsOf
<1>4. QED
  BY Zenon, <1>2, <1>3 DEF ClaimConfirmation, Undecided

(* provider.cancel is called by a slot that asked and whose job is owned. *)
LEMMA ProviderCancelStep ==
    ASSUME IInv, NEW w \in Workers, ProviderCancel(w)
    PROVE  IInv'
<1> DEFINE i == slot[w].id
<1>0. /\ i \in Ids /\ known[i] = "owned" /\ asked = TRUE
      /\ slot[w] \in Slots /\ slot[w].at = "cancel"
      /\ UNCHANGED <<job, known, pending, done, asked>>
      /\ calls' = [calls EXCEPT ![i] = @ + 1]
      /\ ext' = ext \/ (ext[i] = "running" /\ ext' = [ext EXCEPT ![i] = "stopping"])
  BY Zenon, SlotFacts DEF ProviderCancel, At, GoodSlot, Resting
<1>1. PICK a \in {"accepted", "failed"} :
        slot' = [slot EXCEPT ![w] = [slot[w] EXCEPT !.at = "answered", !.answer = a]]
  BY Zenon DEF ProviderCancel, Goto
<1> DEFINE s == [slot[w] EXCEPT !.at = "answered", !.answer = a]
<1>2. s \in Slots
  BY Zenon, <1>0, <1>1 DEF Slots
<1>3. /\ s.at = "answered" /\ s.answer = a /\ s.id = i /\ s.late = slot[w].late
      /\ s.owned = slot[w].owned /\ s.attempts = slot[w].attempts /\ s.confirms = slot[w].confirms
  BY Zenon, <1>0 DEF Slots
<1>4. /\ slot'[w] = s
      /\ \A v \in Workers : v # w => slot'[v] = slot[v]
      /\ slot' = [v \in Workers |-> slot'[v]]
  BY Zenon, <1>1 DEF IInv, SlotsInv
<1> HIDE DEF s, i
<1>5. /\ ext' \in [Ids -> {"running", "stopping"} \cup Gone]
      /\ \A k \in Ids : ext[k] \in Gone => ext'[k] = ext[k]
  BY Zenon, <1>0 DEF IInv, WorldInv, Gone
<1>6. WorldInv'
  <2>1. /\ known \in [Ids -> {"none", "observed", "owned"}] /\ calls \in [Ids -> Nat]
        /\ \A k \in Ids : calls[k] > 0 => known[k] = "owned" /\ asked
    BY Zenon DEF IInv, WorldInv
  <2>2. calls' \in [Ids -> Nat]
    BY <1>0, <2>1
  <2>3. ASSUME NEW k \in Ids PROVE calls'[k] > 0 => known[k] = "owned" /\ asked
    <3>1. CASE k = i
      BY Zenon, <1>0, <3>1
    <3>2. CASE k # i
      BY Zenon, <1>0, <2>1, <3>2
    <3>3. QED
      BY Zenon, <3>1, <3>2
  <2>4. QED
    BY Zenon, <1>0, <1>5, <2>1, <2>2, <2>3 DEF WorldInv
<1>7. RecordsInv' /\ AskedInv'
  <2>1. RecordsInv'
    BY Zenon, <1>0, <1>5, RecordsOf, RecordStaysGood DEF RecordsInv
  <2>2. AskedInv'
    BY Zenon, <1>0 DEF IInv, AskedInv
  <2>3. QED
    BY Zenon, <2>1, <2>2
<1>8. SlotsInv'
  <2>1. GoodSlot(s, known, ext', asked)
    BY <1>0, <1>1, <1>2, <1>3, SlotFacts DEF GoodSlot
  <2>2. ASSUME NEW v \in Workers PROVE GoodSlot(slot[v], known, ext', asked)
    <3>1. GoodSlot(slot[v], known, ext, asked)
      BY Zenon, SlotFacts
    <3>2. QED
      BY <1>5, <3>1, SlotStaysGood
  <2>3. QED
    BY Zenon, <1>0, <1>4, <2>1, <2>2 DEF SlotsInv
<1>9. WorkInv'
  <2>1. ASSUME done = None, NEW v \in Workers PROVE WorksOn(slot'[v], pending)
    <3>1. WorksOn(slot[v], pending)
      BY Zenon, <2>1 DEF IInv, WorkInv
    <3>2. CASE v = w
      BY Zenon, <1>0, <1>3, <1>4, <3>1, <3>2 DEF WorksOn, Working, i
    <3>3. CASE v # w
      BY Zenon, <1>4, <3>1, <3>3
    <3>4. QED
      BY Zenon, <3>2, <3>3
  <2>2. QED
    BY Zenon, <1>0, <2>1 DEF WorkInv, WorksOn
<1>10. ClaimsInv'
  <2>1. ASSUME NEW v \in Workers
        PROVE  /\ slot'[v].id = slot[v].id /\ slot'[v].late = slot[v].late
               /\ slot'[v].at \in Calling <=> slot[v].at \in Calling
    BY Zenon, <1>0, <1>3, <1>4 DEF Calling, i
  <2>2. ASSUME NEW v \in Workers PROVE HoldsClaim(v)'
    <3>1. HoldsClaim(v)
      BY Zenon DEF IInv, ClaimsInv
    <3>2. QED
      BY Zenon, <1>0, <2>1, <3>1 DEF HoldsClaim
  <2>3. QED
    BY Zenon, <2>1, <2>2 DEF IInv, ClaimsInv
<1>11. QED
  BY Zenon, <1>6, <1>7, <1>8, <1>9, <1>10 DEF IInv

(* A slot that has its answer goes back to its work. *)
LEMMA BackGood ==
    ASSUME IInv, NEW w \in Workers, slot[w].at \in {"answered", "polled"},
           NEW C, C = slot[w].confirms \/ C = slot[w].confirms \cup {slot[w].id}
    PROVE  LET s == [Back(w) EXCEPT !.confirms = C] IN
           /\ GoodSlot(Back(w), known, ext, asked) /\ Back(w).at \notin Calling
           /\ GoodSlot(s, known, ext, asked) /\ s.at \notin Calling
           /\ done = None => /\ pending # None
                             /\ slot[w].id \in DOMAIN pending.disp
                             /\ WorksOn(Back(w), pending) /\ WorksOn(s, pending)
<1> DEFINE b == Back(w)
           s == [b EXCEPT !.confirms = C]
<1>0. /\ slot[w] \in Slots /\ asked = TRUE /\ slot[w].id \in Ids
      /\ \A i \in slot[w].owned : known[i] = "owned"
      /\ C \in SUBSET Ids
  BY Zenon, SlotFacts DEF GoodSlot, Resting
<1>1. b \in Slots
  BY Zenon, <1>0 DEF Back, Slots
<1>2. /\ b.at = "work" /\ b.owned = slot[w].owned
      /\ b.attempts = slot[w].attempts /\ b.confirms = slot[w].confirms
  BY Zenon, <1>0 DEF Back, Slots
<1> HIDE DEF b
<1>3. s \in Slots
  BY Zenon, <1>0, <1>1 DEF Slots
<1>4. /\ s.at = "work" /\ s.owned = slot[w].owned
      /\ s.attempts = slot[w].attempts /\ s.confirms = C
  BY Zenon, <1>1, <1>2 DEF Slots
<1> HIDE DEF s
<1>5. /\ GoodSlot(b, known, ext, TRUE) /\ b.at \notin Calling
      /\ GoodSlot(s, known, ext, TRUE) /\ s.at \notin Calling
  BY Zenon, <1>0, <1>1, <1>2, <1>3, <1>4, PlainSlotGood
<1>6. done = None => WorksOn(slot[w], pending)
  BY Zenon DEF IInv, WorkInv
<1>7. done = None => /\ pending # None
                     /\ slot[w].id \in DOMAIN pending.disp
                     /\ WorksOn(b, pending) /\ WorksOn(s, pending)
  BY Zenon, <1>2, <1>4, <1>6 DEF WorksOn, Working
<1>8. QED
  BY Zenon, <1>0, <1>5, <1>7 DEF b, s

(* A decision or an answer is recorded over the slot's own claim. *)
LEMMA RecordStep ==
    ASSUME IInv, NEW w \in Workers, NEW i \in Ids, NEW d, NEW s,
           pending # None, done = None, i \in DOMAIN pending.disp,
           pending.disp[i].claim \in {None, w},
           GoodDisposition(d, i, known, ext),
           Save(w, [pending EXCEPT !.disp[i] = d], s),
           UNCHANGED <<known, ext, calls, asked, job>>,
           GoodSlot(s, known, ext, asked), s.at \notin Calling, WorksOn(s, pending)
    PROVE  IInv'
<1> DEFINE r == [pending EXCEPT !.disp[i] = d]
<1>1. GoodRecord(pending, known, ext)
  BY Zenon, RecordsOf
<1>2. /\ GoodRecord(r, known, ext) /\ r.reason = pending.reason
      /\ r.disp = [pending.disp EXCEPT ![i] = d]
  BY <1>1, DispositionReplaced
<1>3. Save(w, r, s)
  BY Zenon
<1> HIDE DEF r
<1>4. r # None
  BY Zenon, <1>2, RecordIsSome
<1>5. Carries(pending, r, w) /\ WorksOn(s, r)
  BY Zenon, <1>1, <1>2, <1>4 DEF Carries, WorksOn, GoodRecord
<1>6. QED
  BY Zenon, <1>2, <1>3, <1>5, SaveStep

(* record_scheduler_cancel_attempt *)
LEMMA RecordAttemptStep ==
    ASSUME IInv, NEW w \in Workers, RecordAttempt(w)
    PROVE  IInv'
<1> DEFINE i == slot[w].id
           C == IF slot[w].answer = "accepted" THEN slot[w].confirms \cup {i} ELSE slot[w].confirms
           s == [Back(w) EXCEPT !.confirms = C]
<1>0. /\ slot[w].at = "answered" /\ i \in Ids /\ slot[w].answer \in {"accepted", "failed"}
      /\ UNCHANGED <<known, ext, asked, calls>>
      /\ job \in [state : {"active", "terminal"}, request : {None, "cancel", "keep"}]
  BY Zenon, SlotFacts DEF RecordAttempt, At, GoodSlot
<1>1. /\ GoodSlot(Back(w), known, ext, asked) /\ Back(w).at \notin Calling
      /\ GoodSlot(s, known, ext, asked) /\ s.at \notin Calling
      /\ done = None => /\ pending # None
                        /\ i \in DOMAIN pending.disp
                        /\ WorksOn(Back(w), pending) /\ WorksOn(s, pending)
  <2>1. C = slot[w].confirms \/ C = slot[w].confirms \cup {slot[w].id}
    BY Zenon
  <2> HIDE DEF C
  <2>2. QED
    BY Zenon, <1>0, <2>1, BackGood
<1>2. CASE Overtaken(w, Back(w))
  BY Zenon, <1>0, <1>1, <1>2, GotoStep DEF Overtaken
<1>3. CASE Raise(w)
  BY Zenon, <1>0, <1>3, RaiseStep
<1>4. CASE Goto(w, Back(w)) /\ UNCHANGED <<job, pending, done>>
  BY Zenon, <1>0, <1>1, <1>4, GotoStep
<1>5. CASE /\ done = None /\ pending.disp[i].claim = w /\ UNCHANGED job
           /\ Save(w, [pending EXCEPT !.disp[i] = Attempted(@, slot[w].answer)], s)
  <2> DEFINE d == Attempted(pending.disp[i], slot[w].answer)
  <2>1. GoodDisposition(pending.disp[i], i, known, ext) /\ pending.disp[i].claim # None
    BY Zenon, <1>1, <1>5, RecordsOf, CancelAssumption DEF GoodRecord
  <2>2. GoodDisposition(d, i, known, ext)
    BY Zenon, <1>0, <2>1, AttemptedGood
  <2>3. Save(w, [pending EXCEPT !.disp[i] = d], s)
    BY Zenon, <1>5
  <2> HIDE DEF d, s, i
  <2>4. QED
    BY Zenon, <1>0, <1>1, <1>5, <2>2, <2>3, RecordStep
<1>6. Back(w).confirms = slot[w].confirms
  BY Zenon, <1>0, SlotFacts DEF Back, Slots
<1>7. QED
  BY Zenon, <1>2, <1>3, <1>4, <1>5, <1>6 DEF RecordAttempt, Undecided

(* provider.poll tells the truth about the exact id, or nothing. *)
LEMMA ProviderPollStep ==
    ASSUME IInv, NEW w \in Workers, ProviderPoll(w)
    PROVE  IInv'
<1> DEFINE i == slot[w].id
<1>0. /\ i \in Ids /\ asked = TRUE /\ slot[w] \in Slots /\ slot[w].at = "poll"
      /\ \A k \in slot[w].owned : known[k] = "owned"
      /\ UNCHANGED <<job, known, pending, done, ext, asked, calls>>
      /\ job \in [state : {"active", "terminal"}, request : {None, "cancel", "keep"}]
  BY Zenon, SlotFacts DEF ProviderPoll, At, GoodSlot, Resting
<1>1. PICK a \in PollAnswers(i) : Goto(w, [slot[w] EXCEPT !.at = "polled", !.answer = a])
  BY Zenon DEF ProviderPoll
<1>2. /\ a \in {"unknown", "running", "canceled", "terminal", "not_found"}
      /\ a = "canceled" => ext[i] = "canceled"
      /\ a = "terminal" => ext[i] = "ended"
      /\ a = "not_found" => ext[i] \in Gone
  BY Zenon, <1>1 DEF PollAnswers, Gone
<1> DEFINE s == [slot[w] EXCEPT !.at = "polled", !.answer = a]
<1>3. s \in Slots
  BY Zenon, <1>0, <1>2 DEF Slots
<1>4. /\ s.at = "polled" /\ s.answer = a /\ s.id = i /\ s.owned = slot[w].owned
      /\ s.attempts = slot[w].attempts /\ s.confirms = slot[w].confirms
  BY Zenon, <1>0 DEF Slots
<1>5. Goto(w, s)
  BY Zenon, <1>1
<1> HIDE DEF s
<1>6. GoodSlot(s, known, ext, asked) /\ s.at \notin Calling
  BY Zenon, <1>0, <1>2, <1>3, <1>4 DEF GoodSlot, Calling, Resting
<1>7. done = None => WorksOn(s, pending)
  BY Zenon, <1>0, <1>4 DEF IInv, WorkInv, WorksOn, Working
<1>8. QED
  BY Zenon, <1>0, <1>5, <1>6, <1>7, GotoStep

(* record_scheduler_cancel_observation *)
LEMMA RecordObservationStep ==
    ASSUME IInv, NEW w \in Workers, RecordObservation(w)
    PROVE  IInv'
<1> DEFINE i == slot[w].id
           a == slot[w].answer
<1>0. /\ slot[w].at = "polled" /\ i \in Ids
      /\ a \in {"unknown", "running", "canceled", "terminal", "not_found"}
      /\ a = "canceled" => ext[i] = "canceled"
      /\ a = "terminal" => ext[i] = "ended"
      /\ a = "not_found" => ext[i] \in Gone
      /\ UNCHANGED <<known, ext, asked, calls>>
      /\ job \in [state : {"active", "terminal"}, request : {None, "cancel", "keep"}]
  BY Zenon, SlotFacts DEF RecordObservation, At, GoodSlot
<1>1. /\ GoodSlot(Back(w), known, ext, asked) /\ Back(w).at \notin Calling
      /\ done = None => /\ pending # None
                        /\ i \in DOMAIN pending.disp
                        /\ WorksOn(Back(w), pending)
  BY Zenon, <1>0, BackGood
<1>2. CASE Overtaken(w, Back(w))
  BY Zenon, <1>0, <1>1, <1>2, GotoStep DEF Overtaken
<1>3. CASE Raise(w)
  BY Zenon, <1>0, <1>3, RaiseStep
<1>4. CASE Goto(w, Back(w)) /\ UNCHANGED <<job, pending, done>>
  BY Zenon, <1>0, <1>1, <1>4, GotoStep
<1>5. CASE /\ done = None /\ pending.disp[i].confirm = w /\ UNCHANGED job
           /\ Save(w, [pending EXCEPT !.disp[i] = Confirmed(@, a)], Back(w))
  <2> DEFINE d == Confirmed(pending.disp[i], a)
  <2>1. GoodDisposition(pending.disp[i], i, known, ext) /\ pending.disp[i].confirm # None
    BY Zenon, <1>1, <1>5, RecordsOf, CancelAssumption DEF GoodRecord
  <2>2. GoodDisposition(d, i, known, ext)
    BY Zenon, <1>0, <2>1, ConfirmedGood
  <2>3. pending.disp[i].claim = None
    BY Zenon, <2>1 DEF GoodDisposition, Open
  <2>4. Save(w, [pending EXCEPT !.disp[i] = d], Back(w))
    BY Zenon, <1>5
  <2> HIDE DEF d, i
  <2>5. QED
    BY Zenon, <1>0, <1>1, <1>5, <2>2, <2>3, <2>4, RecordStep
<1>6. QED
  BY Zenon, <1>2, <1>3, <1>4, <1>5 DEF RecordObservation, Undecided

-----------------------------------------------------------------------------
(* Time and crashes                                                          *)

(* A wait ends. *)
LEMMA BackoffStep ==
    ASSUME IInv, NEW i \in Ids, BackoffEnds(i)
    PROVE  IInv'
<1> DEFINE d == [pending.disp[i] EXCEPT !.due = TRUE]
<1>1. /\ pending # None /\ i \in DOMAIN pending.disp
      /\ pending' = [pending EXCEPT !.disp[i] = d]
      /\ UNCHANGED <<job, known, done, ext, slot, asked, calls>>
  BY Zenon DEF BackoffEnds
<1>2. GoodRecord(pending, known, ext) /\ GoodDisposition(pending.disp[i], i, known, ext)
  BY Zenon, <1>1, RecordsOf DEF GoodRecord
<1>3. GoodDisposition(d, i, known, ext)
  BY Zenon, <1>2, CancelAssumption, DispositionTouched
<1>4. d.claim = pending.disp[i].claim /\ d.live = pending.disp[i].live
  BY Zenon, <1>2 DEF GoodDisposition, Disposition
<1> HIDE DEF d
<1>5. /\ GoodRecord(pending', known, ext) /\ pending'.reason = pending.reason
      /\ pending'.disp = [pending.disp EXCEPT ![i] = d]
  BY <1>1, <1>2, <1>3, DispositionReplaced
<1>6. pending' # None
  BY Zenon, <1>5, RecordIsSome
<1>7. AskedInv'
  BY Zenon, <1>1, <1>5 DEF IInv, AskedInv
<1>8. Carries(pending, pending', None)
  BY Zenon, <1>2, <1>4, <1>5 DEF Carries, GoodRecord
<1>9. QED
  BY Zenon, <1>1, <1>5, <1>6, <1>7, <1>8, StayStep DEF IInv, WorldInv

(* A claim's lease ends; its slot, if still at work, is marked late. *)
LEMMA LeaseEndsStep ==
    ASSUME IInv, NEW i \in Ids, LeaseEnds(i)
    PROVE  IInv'
<1> DEFINE d == [pending.disp[i] EXCEPT !.live = FALSE]
           C == Claimants(pending.disp[i], i)
<1>1. /\ pending # None /\ i \in DOMAIN pending.disp
      /\ pending' = [pending EXCEPT !.disp[i] = d]
      /\ slot' = [w \in Workers |-> IF w \in C THEN [slot[w] EXCEPT !.late = TRUE] ELSE slot[w]]
      /\ UNCHANGED <<job, known, done, ext, asked, calls>>
  BY Zenon DEF LeaseEnds
<1>2. GoodRecord(pending, known, ext) /\ GoodDisposition(pending.disp[i], i, known, ext)
  BY Zenon, <1>1, RecordsOf DEF GoodRecord
<1>3. GoodDisposition(d, i, known, ext)
  BY Zenon, <1>2, CancelAssumption, DispositionTouched
<1>4. d.claim = pending.disp[i].claim
  BY Zenon, <1>2 DEF GoodDisposition, Disposition
<1> HIDE DEF d
<1>5. /\ GoodRecord(pending', known, ext) /\ pending'.reason = pending.reason
      /\ pending'.disp = [pending.disp EXCEPT ![i] = d]
  BY <1>1, <1>2, <1>3, DispositionReplaced
<1>6. /\ pending' # None
      /\ DOMAIN pending'.disp = DOMAIN pending.disp
      /\ pending'.disp[i].claim = pending.disp[i].claim
      /\ \A k \in DOMAIN pending.disp : k # i => pending'.disp[k] = pending.disp[k]
  <2>1. pending' # None
    BY Zenon, <1>5, RecordIsSome
  <2>2. DOMAIN pending'.disp = DOMAIN pending.disp
    BY Zenon, <1>5
  <2>3. /\ pending'.disp[i] = d
        /\ \A k \in DOMAIN pending.disp : k # i => pending'.disp[k] = pending.disp[k]
    BY Zenon, <1>1, <1>5
  <2>4. QED
    BY Zenon, <1>4, <2>1, <2>2, <2>3
<1>7. WorldInv' /\ RecordsInv' /\ AskedInv'
  BY Zenon, <1>1, <1>5 DEF IInv, WorldInv, RecordsInv, AskedInv
<1>8. ASSUME NEW w \in Workers
      PROVE  /\ slot'[w] \in Slots
             /\ slot'[w].at = slot[w].at /\ slot'[w].id = slot[w].id
             /\ slot'[w].owned = slot[w].owned /\ slot'[w].answer = slot[w].answer
             /\ slot'[w].reason = slot[w].reason
             /\ slot'[w].attempts = slot[w].attempts /\ slot'[w].confirms = slot[w].confirms
             /\ slot'[w].late = IF w \in C THEN TRUE ELSE slot[w].late
  <2> HIDE DEF C
  <2>1. slot[w] \in Slots
    BY Zenon, SlotFacts
  <2>2. CASE w \in C
    <3>1. slot'[w] = [slot[w] EXCEPT !.late = TRUE]
      BY Zenon, <1>1, <2>2
    <3>2. slot'[w] \in Slots
      BY Zenon, <2>1, <3>1 DEF Slots
    <3>3. QED
      BY Zenon, <2>1, <2>2, <3>1, <3>2 DEF Slots
  <2>3. CASE w \notin C
    BY Zenon, <1>1, <2>1, <2>3
  <2>4. QED
    BY Zenon, <2>2, <2>3
<1>9. SlotsInv'
  <2>1. slot' = [w \in Workers |-> slot'[w]]
    BY Zenon, <1>1
  <2>2. ASSUME NEW w \in Workers PROVE GoodSlot(slot'[w], known, ext, asked)
    <3>1. GoodSlot(slot[w], known, ext, asked)
      BY Zenon, SlotFacts
    <3>2. QED
      BY Zenon, <1>8, <3>1 DEF GoodSlot
  <2>3. QED
    BY Zenon, <1>1, <2>1, <2>2 DEF SlotsInv
<1>10. WorkInv'
  BY <1>1, <1>6, <1>8 DEF IInv, WorkInv, WorksOn
<1>11. ClaimsInv'
  <2>1. ASSUME NEW w \in Workers PROVE HoldsClaim(w)'
    <3>1. SUFFICES ASSUME slot[w].at \in Calling, ~ slot[w].late, w \notin C, done = None
                   PROVE  /\ slot[w].id \in DOMAIN pending'.disp
                          /\ pending'.disp[slot[w].id].claim = w
                          /\ pending'.disp[slot[w].id].live
      BY Zenon, <1>1, <1>6, <1>8 DEF HoldsClaim
    <3>2. /\ slot[w].id \in DOMAIN pending.disp
          /\ pending.disp[slot[w].id].claim = w
          /\ pending.disp[slot[w].id].live
      BY Zenon, <3>1 DEF IInv, ClaimsInv, HoldsClaim
    <3>3. slot[w].id # i
      BY Zenon, <3>1, <3>2 DEF Claimants, Calling
    <3>4. QED
      BY Zenon, <1>6, <3>2, <3>3
  <2>2. QED
    BY Zenon, <1>8, <2>1 DEF IInv, ClaimsInv
<1>12. QED
  BY Zenon, <1>7, <1>9, <1>10, <1>11 DEF IInv

(* The process dies. *)
LEMMA CrashStep ==
    ASSUME IInv, Crash
    PROVE  IInv'
<1>1. AskedInv'
  BY Zenon DEF IInv, AskedInv, Crash
<1>2. QED
  BY Zenon, <1>1, RestStep, RecordsOf DEF Crash

-----------------------------------------------------------------------------
(* The invariant is established and kept. *)
THEOREM CancelInvariant == Spec => []IInv
<1>1. Init => IInv
  <2> SUFFICES ASSUME Init PROVE IInv
    BY Zenon
  <2>1. WorldInv /\ RecordsInv
    <3>1. \A i \in Ids : calls[i] = 0
      BY Zenon DEF Init
    <3>2. \A i \in Ids : calls[i] > 0 => known[i] = "owned" /\ asked
      BY <3>1
    <3>3. calls \in [Ids -> Nat] /\ asked \in BOOLEAN
      BY Zenon DEF Init
    <3>4. known \in [Ids -> {"none", "observed", "owned"}]
      BY Zenon DEF Init
    <3>5. ext \in [Ids -> {"running", "stopping"} \cup Gone]
      BY Zenon DEF Init
    <3>6. QED
      BY Zenon, <3>2, <3>3, <3>4, <3>5 DEF Init, WorldInv, RecordsInv
  <2>2. AskedInv
    BY Zenon, CancelAssumption DEF Init, AskedInv
  <2>3. \A w \in Workers : slot[w] = Idle
    BY Zenon DEF Init
  <2>4. SlotsInv
    BY Zenon, <2>3, IdleGood DEF Init, SlotsInv
  <2>5. WorkInv /\ ClaimsInv
    BY Zenon, <2>3, IdleGood DEF WorkInv, ClaimsInv, HoldsClaim
  <2>6. QED
    BY Zenon, <2>1, <2>2, <2>4, <2>5 DEF IInv
<1>2. IInv /\ [Next]_vars => IInv'
  <2> SUFFICES ASSUME IInv, [Next]_vars PROVE IInv'
    BY Zenon
  <2>1. ASSUME NEW w \in Workers, Step(w) PROVE IInv'
    BY Zenon, <2>1, ScanStep, InspectStep, CloseStep, RegisterStep, FinalizeSeenStep, EnsureStep,
       FinalizeStep, WorkDoneStep, ClaimAttemptStep, ClaimConfirmationStep,
       ProviderCancelStep, RecordAttemptStep, ProviderPollStep, RecordObservationStep
       DEF Step
  <2>2. ASSUME NEW i \in Ids, Discover(i) \/ BackoffEnds(i) \/ LeaseEnds(i) \/ SchedulerStops(i)
        PROVE  IInv'
    BY Zenon, <2>2, OutsideStep, BackoffStep, LeaseEndsStep
  <2>3. CASE EndJob
    <3>1. AskedInv'
      BY Zenon, <2>3 DEF IInv, AskedInv, EndJob
    <3>2. QED
      BY Zenon, <2>3, <3>1, StayStep, RecordsOf DEF EndJob, IInv, WorldInv
  <2>4. CASE UNCHANGED vars
    BY Zenon, <2>4 DEF vars, IInv, WorldInv, RecordsInv, SlotsInv, AskedInv, WorkInv, ClaimsInv, HoldsClaim
  <2>5. QED
    BY Zenon, <2>1, <2>2, <2>3, <2>4, CancelStep, RunnerStep, CrashStep DEF Next
<1>3. QED
  BY <1>1, <1>2, PTL DEF Spec

(* Recorded evidence agrees with the scheduler, for any number of jobs,      *)
(* slots, polls in flight and faults (EvidenceIsTrue).                       *)
THEOREM CancelEvidenceIsTrue == Spec => []EvidenceIsTrue
<1>1. IInv => EvidenceIsTrue
  BY DEF IInv, RecordsInv, GoodRecord, GoodDisposition, EvidenceIsTrue, Records
<1>2. QED
  BY <1>1, CancelInvariant, PTL

(* provider.cancel is called only for owned scheduler jobs, and only after a *)
(* command that asked for it or a timeout (OnlyAskedAndOwned).               *)
THEOREM CancelOnlyAskedAndOwned == Spec => []OnlyAskedAndOwned
<1>1. IInv => OnlyAskedAndOwned
  BY Zenon DEF IInv, WorldInv, OnlyAskedAndOwned
<1>2. QED
  BY <1>1, CancelInvariant, PTL

(* Two slots call provider.cancel for one job only if the lease of one of    *)
(* them ended (OneCancelAtATime).                                            *)
THEOREM CancelOneAtATime == Spec => []OneCancelAtATime
<1>1. IInv => OneCancelAtATime
  BY Zenon DEF IInv, ClaimsInv, OneCancelAtATime, At, Calling
<1>2. QED
  BY <1>1, CancelInvariant, PTL
=============================================================================
