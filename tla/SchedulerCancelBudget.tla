------------------------ MODULE SchedulerCancelBudget ------------------------
(* What a cancellation may cost and what it leaves behind, for any number of *)
(* worker slots and scheduler jobs, any limits and any number of faults and  *)
(* commands: how often the scheduler is called for a job, and that what was  *)
(* proved of a job is never replaced.                                        *)
EXTENDS SchedulerCancelProofs, FiniteSets

-----------------------------------------------------------------------------
(* The second invariant: the files, the claims that ran out, and the budget  *)
(* of calls.                                                                 *)

(* A disposition that may be attempted, or registered again, has an attempt  *)
(* left.                                                                     *)
InBudget(d) ==
    /\ d.attempts <= MaxAttempts
    /\ d.state \in Open \cup {"refused"} => d.attempts < MaxAttempts

(* What a pending file holds. *)
Unfinished(r) ==
    /\ ~ Complete(r)
    /\ r.resolution = "resolved" => DOMAIN r.disp # {}
    /\ \A i \in DOMAIN r.disp : InBudget(r.disp[i])

FilesInv ==
    /\ pending # None => Unfinished(pending)
    /\ done # None => Complete(done)

(* A slot is late only under a claim. *)
Claiming == {"cancel", "answered", "poll", "polled"}

LateInv == \A w \in Workers : slot[w].late => slot[w].at \in Claiming

(* A pending file that a crash left beside the completed record: the slots   *)
(* that had scanned it are gone, and what it says is decided of a job that   *)
(* the completed record decided is what that record says.                    *)
Scanned == {"inspect", "supersede"}

Agrees(p, q) ==
    \A i \in DOMAIN q.disp :
       q.disp[i].state \in Decided =>
          /\ i \in DOMAIN p.disp
          /\ p.disp[i].state \in Decided => p.disp[i].state = q.disp[i].state

LeftInv ==
    done # None /\ pending # None =>
       /\ \A w \in Workers : slot[w].at \notin Scanned
       /\ Agrees(pending, done)

(* The calls for i that slots S have made or are about to make, c of them    *)
(* made, and what covers them: the attempts that p records, and one that is  *)
(* still to be recorded by a slot whose lease runs.                          *)
Callers(S, i) == {w \in Workers : S[w].at = "cancel" /\ S[w].id = i}
OnTime(S, i) == \E w \in Workers : S[w].at \in Calling /\ S[w].id = i /\ ~ S[w].late
Spent(p, i) == IF p # None /\ i \in DOMAIN p.disp THEN p.disp[i].attempts ELSE 0
Debt(c, S, i) == c[i] + Cardinality(Callers(S, i))
Credit(S, p, i) == IF OnTime(S, i) THEN Spent(p, i) + 1 ELSE Spent(p, i)

BudgetInv ==
    \A i \in Ids :
       /\ IsFiniteSet(Callers(slot, i))
       /\ done = None => Debt(calls, slot, i) <= Credit(slot, pending, i) + faults
       /\ done # None => Debt(calls, slot, i) <= MaxAttempts + faults

FlagsInv ==
    /\ tried \in BOOLEAN /\ timedOut \in BOOLEAN
    /\ faults \in 0..MaxFaults /\ requests \in 0..MaxRequests

JInv == FilesInv /\ LateInv /\ LeftInv /\ BudgetInv /\ FlagsInv

(* What ProofIsKept asks of a step. *)
KeepsProof ==
    \A i \in Ids :
       /\ done # None
       /\ i \in DOMAIN done.disp
       /\ done.disp[i].state \in Decided
       => i \in DOMAIN done'.disp /\ done'.disp[i].state = done.disp[i].state

-----------------------------------------------------------------------------
(* Slots and budgets                                                         *)

(* One slot goes on, neither from nor to provider.cancel. *)
LEMMA CallersMoved ==
    ASSUME NEW S, NEW T, NEW w \in Workers, \A v \in Workers : v # w => T[v] = S[v],
           S[w].at # "cancel", T[w].at # "cancel", NEW i
    PROVE  Callers(T, i) = Callers(S, i)
<1>1. \A v \in Workers : (T[v].at = "cancel" /\ T[v].id = i) <=> (S[v].at = "cancel" /\ S[v].id = i)
  BY Zenon
<1>2. QED
  BY Zenon, <1>1 DEF Callers

(* A slot that goes on to something else than provider.cancel. *)
LEMMA OnTimeMoved ==
    ASSUME NEW S, NEW T, NEW w \in Workers, \A v \in Workers : v # w => T[v] = S[v],
           T[w].at \notin Calling, NEW i
    PROVE  /\ OnTime(T, i) => OnTime(S, i)
           /\ OnTime(S, i) => \/ OnTime(T, i)
                              \/ S[w].at \in Calling /\ S[w].id = i /\ ~ S[w].late
  BY Zenon DEF OnTime

(* Nobody calls once the slots start over. *)
LEMMA NobodyCalls ==
    ASSUME NEW i
    PROVE  LET S == [v \in Workers |-> Idle] IN
           /\ Callers(S, i) = {} /\ ~ OnTime(S, i)
           /\ \A v \in Workers : S[v] = Idle
<1> DEFINE S == [v \in Workers |-> Idle]
<1>1. \A v \in Workers : S[v] = Idle
  BY Zenon
<1>2. Idle.at = "idle" /\ "idle" \notin Calling /\ "idle" # "cancel"
  BY Zenon DEF Idle, Calling
<1> HIDE DEF S
<1>3. Callers(S, i) = {} /\ ~ OnTime(S, i)
  BY Zenon, <1>1, <1>2 DEF Callers, OnTime
<1>4. QED
  BY Zenon, <1>1, <1>3 DEF S

(* What the proof uses of counting; CountingFacts, below, establishes it.    *)
Counting ==
    /\ IsFiniteSet({}) /\ Cardinality({}) = 0
    /\ \A S : IsFiniteSet(S) => Cardinality(S) \in Nat
    /\ \A S, x : IsFiniteSet(S) /\ x \notin S =>
          IsFiniteSet(S \cup {x}) /\ Cardinality(S \cup {x}) = Cardinality(S) + 1
    /\ \A S, x : IsFiniteSet(S) /\ x \in S =>
          IsFiniteSet(S \ {x}) /\ Cardinality(S \ {x}) = Cardinality(S) - 1

(* The numbers of the budget are numbers. *)
LEMMA SpentType ==
    ASSUME NEW K, NEW E, NEW p, p = None \/ GoodRecord(p, K, E), NEW S, NEW i
    PROVE  /\ Spent(p, i) \in Nat /\ Credit(S, p, i) \in Nat
           /\ Spent(p, i) <= Credit(S, p, i) /\ Credit(S, p, i) <= Spent(p, i) + 1
<1>1. p # None /\ i \in DOMAIN p.disp => p.disp[i].attempts \in Nat
  BY Zenon DEF GoodRecord, GoodDisposition, Disposition
<1>2. Spent(p, i) \in Nat
  BY <1>1 DEF Spent
<1>3. QED
  BY <1>2 DEF Credit

LEMMA DebtType ==
    ASSUME Counting, NEW c \in [Ids -> Nat], NEW i \in Ids, NEW S, IsFiniteSet(Callers(S, i))
    PROVE  Debt(c, S, i) \in Nat /\ c[i] <= Debt(c, S, i) /\ Cardinality(Callers(S, i)) \in Nat
<1>1. Cardinality(Callers(S, i)) \in Nat
  BY DEF Counting
<1>2. QED
  BY <1>1 DEF Debt

(* What is recorded and still to be recorded stays within the limit: a slot  *)
(* whose lease runs holds the claim of an open disposition.                  *)
LEMMA CreditBound ==
    ASSUME IInv, FilesInv, done = None, NEW i \in Ids
    PROVE  Credit(slot, pending, i) <= MaxAttempts
<1>0. MaxAttempts \in Nat \ {0} /\ (pending = None \/ GoodRecord(pending, known, ext))
  BY Zenon, CancelAssumption, RecordsOf
<1>1. pending # None /\ i \in DOMAIN pending.disp =>
         pending.disp[i].attempts \in Nat /\ pending.disp[i].attempts <= MaxAttempts
  BY Zenon, <1>0 DEF FilesInv, Unfinished, InBudget, GoodRecord, GoodDisposition, Disposition
<1>2. Spent(pending, i) <= MaxAttempts
  BY <1>0, <1>1 DEF Spent
<1>3. CASE ~ OnTime(slot, i)
  BY Zenon, <1>2, <1>3 DEF Credit
<1>4. CASE OnTime(slot, i)
  <2>1. /\ pending # None /\ i \in DOMAIN pending.disp
        /\ pending.disp[i].claim # None
    <3>1. PICK w \in Workers : slot[w].at \in Calling /\ slot[w].id = i /\ ~ slot[w].late
      BY Zenon, <1>4 DEF OnTime
    <3>2. /\ pending # None /\ slot[w].id \in DOMAIN pending.disp
          /\ pending.disp[slot[w].id].claim = w
      BY Zenon, <3>1 DEF IInv, ClaimsInv, HoldsClaim
    <3>3. w # None
      BY Zenon, CancelAssumption
    <3>4. QED
      BY Zenon, <3>1, <3>2, <3>3
  <2>2. pending.disp[i].state \in Open
    BY Zenon, <1>0, <2>1 DEF GoodRecord, GoodDisposition
  <2>3. pending.disp[i].attempts < MaxAttempts
    BY Zenon, <2>1, <2>2 DEF FilesInv, Unfinished, InBudget
  <2>4. Spent(pending, i) = pending.disp[i].attempts
    BY Zenon, <2>1 DEF Spent
  <2>5. Credit(slot, pending, i) = Spent(pending, i) + 1
    BY Zenon, <1>4 DEF Credit
  <2>6. QED
    BY <1>0, <1>1, <2>1, <2>3, <2>4, <2>5
<1>5. QED
  BY Zenon, <1>3, <1>4

(* Steps that add no call keep the budget if what covers the calls does not  *)
(* shrink by more than the faults grow.                                      *)
LEMMA BudgetStep ==
    ASSUME Counting, IInv, IInv', FilesInv, BudgetInv, FlagsInv,
           faults' \in Nat, faults <= faults',
           done # None => done' # None,
           \A i \in Ids :
              /\ IsFiniteSet(Callers(slot', i))
              /\ Debt(calls', slot', i) <= Debt(calls, slot, i)
              /\ done' = None =>
                    Credit(slot, pending, i) + faults <= Credit(slot', pending', i) + faults'
    PROVE  BudgetInv'
<1>0. /\ MaxAttempts \in Nat /\ faults \in Nat
      /\ calls \in [Ids -> Nat] /\ calls' \in [Ids -> Nat]
      /\ pending = None \/ GoodRecord(pending, known, ext)
      /\ pending' = None \/ GoodRecord(pending', known', ext')
  <2>1. MaxAttempts \in Nat /\ MaxFaults \in Nat
    BY Zenon, CancelAssumption
  <2>2. faults \in Nat
    BY <2>1 DEF FlagsInv
  <2>3. QED
    BY Zenon, <2>1, <2>2 DEF IInv, WorldInv, RecordsInv
<1>1. SUFFICES ASSUME NEW i \in Ids
               PROVE  /\ done' = None =>
                            Debt(calls', slot', i) <= Credit(slot', pending', i) + faults'
                      /\ done' # None => Debt(calls', slot', i) <= MaxAttempts + faults'
  BY Zenon DEF BudgetInv, Debt
<1>2. /\ Debt(calls, slot, i) \in Nat /\ Debt(calls', slot', i) \in Nat
      /\ Credit(slot, pending, i) \in Nat /\ Credit(slot', pending', i) \in Nat
  <2>1. IsFiniteSet(Callers(slot, i)) /\ IsFiniteSet(Callers(slot', i))
    BY Zenon DEF BudgetInv
  <2>2. Debt(calls, slot, i) \in Nat /\ Debt(calls', slot', i) \in Nat
    BY Zenon, <1>0, <2>1, DebtType
  <2>3. Credit(slot, pending, i) \in Nat /\ Credit(slot', pending', i) \in Nat
    BY <1>0, SpentType
  <2>4. QED
    BY Zenon, <2>2, <2>3
<1>3. Debt(calls', slot', i) <= Debt(calls, slot, i)
  BY Zenon
<1>4. CASE done # None
  <2>1. done' # None /\ Debt(calls, slot, i) <= MaxAttempts + faults
    BY Zenon, <1>4 DEF BudgetInv
  <2>2. Debt(calls', slot', i) <= MaxAttempts + faults'
    BY <1>0, <1>2, <1>3, <2>1
  <2>3. QED
    BY Zenon, <2>1, <2>2
<1>5. CASE done = None
  <2>1. /\ Debt(calls, slot, i) <= Credit(slot, pending, i) + faults
        /\ Credit(slot, pending, i) <= MaxAttempts
    BY Zenon, <1>5, CreditBound DEF BudgetInv
  <2>2. Debt(calls', slot', i) <= MaxAttempts + faults'
    BY <1>0, <1>2, <1>3, <2>1
  <2>3. CASE done' = None
    <3>1. Credit(slot, pending, i) + faults <= Credit(slot', pending', i) + faults'
      BY Zenon, <2>3
    <3>2. Debt(calls', slot', i) <= Credit(slot', pending', i) + faults'
      BY <1>0, <1>2, <1>3, <2>1, <3>1
    <3>3. QED
      BY Zenon, <2>3, <3>2
  <2>4. QED
    BY Zenon, <2>2, <2>3
<1>6. QED
  BY Zenon, <1>4, <1>5

-----------------------------------------------------------------------------
(* Steps that leave the completed record alone                               *)

(* The same dispositions up to their claims and waits. *)
Same(p, q) ==
    /\ q.resolution = p.resolution
    /\ DOMAIN q.disp = DOMAIN p.disp
    /\ \A i \in DOMAIN p.disp :
          q.disp[i].state = p.disp[i].state /\ q.disp[i].attempts = p.disp[i].attempts

(* What such a step does to the pending record. *)
Kept ==
    \/ pending' = pending
    \/ done # None /\ pending' = None
    \/ pending = None /\ done = None /\ \E x \in Reasons : pending' = NewRecord(x)
    \/ pending # None /\ pending' # None /\ Same(pending, pending')

(* A new record spends nothing and decides nothing. *)
LEMMA NewUnfinished ==
    ASSUME NEW x, NEW i
    PROVE  Unfinished(NewRecord(x)) /\ Spent(NewRecord(x), i) = 0
<1>1. /\ NewRecord(x).resolution = "pending" /\ DOMAIN NewRecord(x).disp = {}
  BY Zenon DEF NewRecord
<1>2. QED
  BY Zenon, <1>1 DEF Unfinished, Complete, Spent

LEMMA KeptFacts ==
    ASSUME FilesInv, LeftInv, Kept, done' = done
    PROVE  /\ FilesInv'
           /\ done' # None /\ pending' # None => pending # None /\ Agrees(pending', done')
           /\ done' = None => \A i : Spent(pending', i) = Spent(pending, i)
           /\ KeepsProof
<1>0. KeepsProof
  BY Zenon DEF KeepsProof
<1>1. CASE pending' = pending
  BY Zenon, <1>0, <1>1 DEF FilesInv, LeftInv, Unfinished, Complete
<1>2. CASE done # None /\ pending' = None
  BY Zenon, <1>0, <1>2 DEF FilesInv, LeftInv, Unfinished, Complete
<1>3. ASSUME pending = None, done = None, NEW x \in Reasons, pending' = NewRecord(x)
      PROVE  FilesInv' /\ \A i : Spent(pending', i) = Spent(pending, i)
  <2>1. Unfinished(pending') /\ \A i : Spent(pending', i) = 0
    BY Zenon, <1>3, NewUnfinished
  <2>2. \A i : Spent(pending, i) = 0
    BY Zenon, <1>3 DEF Spent
  <2>3. QED
    BY Zenon, <1>3, <2>1, <2>2 DEF FilesInv, Unfinished, Complete
<1>4. CASE pending # None /\ pending' # None /\ Same(pending, pending')
  <2>1. Unfinished(pending)
    BY Zenon, <1>4 DEF FilesInv
  <2>2. ~ Complete(pending')
    BY Zenon, <1>4, <2>1 DEF Unfinished, Complete, Same
  <2>3. Unfinished(pending')
    BY Zenon, <1>4, <2>1, <2>2 DEF Unfinished, Same, InBudget
  <2>4. FilesInv'
    BY Zenon, <2>3 DEF FilesInv, Unfinished, Complete
  <2>5. done # None => Agrees(pending', done)
    BY Zenon, <1>4 DEF LeftInv, Agrees, Same
  <2>6. \A i : Spent(pending', i) = Spent(pending, i)
    BY Zenon, <1>4 DEF Spent, Same
  <2>7. QED
    BY Zenon, <1>0, <1>4, <2>4, <2>5, <2>6 DEF Agrees
<1>5. QED
  BY Zenon, <1>0, <1>1, <1>2, <1>3, <1>4 DEF Kept

(* No slot moves. *)
LEMMA StayKeeps ==
    ASSUME IInv, IInv', JInv, Kept, FlagsInv',
           UNCHANGED <<slot, done, calls, faults>>
    PROVE  JInv' /\ KeepsProof
<1>1. /\ FilesInv' /\ KeepsProof
      /\ done' # None /\ pending' # None => pending # None /\ Agrees(pending', done')
      /\ done' = None => \A i : Spent(pending', i) = Spent(pending, i)
  BY Zenon, KeptFacts DEF JInv
<1>2. LateInv'
  BY Zenon DEF JInv, LateInv
<1>3. LeftInv'
  BY Zenon, <1>1 DEF JInv, LeftInv, Agrees
<1>4. BudgetInv'
  BY Zenon, <1>1 DEF JInv, BudgetInv, Debt, Credit, Callers, OnTime
<1>5. QED
  BY Zenon, <1>1, <1>2, <1>3, <1>4 DEF JInv

(* Slot w goes on as s; if it was calling the scheduler, its lease has ended *)
(* or the record was completed.                                              *)
LEMMA MoveKeeps ==
    ASSUME IInv, IInv', JInv, Kept, FlagsInv',
           UNCHANGED <<done, calls, faults>>,
           NEW w \in Workers, NEW s, Goto(w, s),
           slot[w].at # "cancel",
           slot[w].at \notin Calling \/ slot[w].late \/ done # None,
           s.at \notin Calling, s.late => s.at \in Claiming,
           s.at \in Scanned => slot[w].at \in Scanned \/ done = None
    PROVE  JInv' /\ KeepsProof
<1>0. slot'[w] = s /\ \A v \in Workers : v # w => slot'[v] = slot[v]
  BY Zenon DEF IInv, SlotsInv, Goto
<1>1. /\ FilesInv' /\ KeepsProof
      /\ done' # None /\ pending' # None => pending # None /\ Agrees(pending', done')
      /\ done' = None => \A i : Spent(pending', i) = Spent(pending, i)
  BY Zenon, KeptFacts DEF JInv
<1>2. LateInv'
  BY Zenon, <1>0 DEF JInv, LateInv
<1>3. LeftInv'
  <2>1. SUFFICES ASSUME done' # None, pending' # None, NEW v \in Workers
                 PROVE  slot'[v].at \notin Scanned
    BY Zenon, <1>1 DEF LeftInv, Agrees
  <2>2. slot[v].at \notin Scanned /\ slot[w].at \notin Scanned
    BY Zenon, <1>1, <2>1 DEF JInv, LeftInv
  <2>3. QED
    BY Zenon, <1>0, <2>1, <2>2
<1>4. ASSUME NEW i \in Ids
      PROVE  /\ Callers(slot', i) = Callers(slot, i)
             /\ done' = None => Credit(slot', pending', i) = Credit(slot, pending, i)
  <2>1. slot'[w].at # "cancel" /\ slot'[w].at \notin Calling
    BY Zenon, <1>0 DEF Calling
  <2>2. Callers(slot', i) = Callers(slot, i)
    BY Zenon, <1>0, <2>1, CallersMoved
  <2>3. done' = None => (OnTime(slot', i) <=> OnTime(slot, i))
    <3>1. /\ OnTime(slot', i) => OnTime(slot, i)
          /\ OnTime(slot, i) => \/ OnTime(slot', i)
                                \/ slot[w].at \in Calling /\ slot[w].id = i /\ ~ slot[w].late
      BY Zenon, <1>0, <2>1, OnTimeMoved
    <3>2. QED
      BY Zenon, <3>1
  <2>4. QED
    BY Zenon, <1>1, <2>2, <2>3 DEF Credit
<1>5. BudgetInv'
  <2>1. ASSUME NEW i \in Ids
        PROVE  Debt(calls', slot', i) = Debt(calls, slot, i)
    BY Zenon, <1>4 DEF Debt
  <2>2. QED
    BY Zenon, <1>4, <2>1 DEF JInv, BudgetInv, Debt, Credit, Callers, OnTime
<1>6. QED
  BY Zenon, <1>1, <1>2, <1>3, <1>5 DEF JInv

-----------------------------------------------------------------------------
(* Steps that write a record                                                 *)

(* The process dies, perhaps after it has written the completed record. *)
LEMMA DieKeeps ==
    ASSUME Counting, IInv, IInv', JInv, FilesInv',
           slot' = [v \in Workers |-> Idle], tried' = FALSE,
           faults < MaxFaults, faults' = faults + 1,
           UNCHANGED <<pending, calls, timedOut, requests>>,
           done # None => done' # None,
           done' # None /\ pending # None => Agrees(pending, done')
    PROVE  JInv'
<1>0. /\ \A v \in Workers : slot'[v] = Idle
      /\ \A i : Callers(slot', i) = {} /\ ~ OnTime(slot', i)
  BY Zenon, NobodyCalls
<1>1. Idle.at = "idle" /\ Idle.late = FALSE /\ "idle" \notin Scanned
  BY Zenon DEF Idle, Scanned
<1>2. LateInv'
  BY Zenon, <1>0, <1>1 DEF LateInv
<1>3. LeftInv'
  BY Zenon, <1>0, <1>1 DEF LeftInv, Agrees
<1>4. /\ FlagsInv' /\ faults \in Nat /\ faults' \in Nat /\ faults <= faults'
  <2>1. MaxFaults \in Nat /\ faults \in 0..MaxFaults
    BY Zenon, CancelAssumption DEF JInv, FlagsInv
  <2>2. faults' \in 0..MaxFaults /\ faults \in Nat /\ faults' \in Nat /\ faults <= faults'
    BY <2>1
  <2>3. QED
    BY Zenon, <2>2 DEF JInv, FlagsInv
<1>5. ASSUME NEW i \in Ids
      PROVE  /\ IsFiniteSet(Callers(slot', i))
             /\ Debt(calls', slot', i) <= Debt(calls, slot, i)
             /\ Credit(slot, pending, i) + faults <= Credit(slot', pending', i) + faults'
  <2>1. IsFiniteSet({}) /\ Cardinality({}) = 0 /\ IsFiniteSet(Callers(slot, i))
    BY Zenon DEF Counting, JInv, BudgetInv
  <2>2. /\ calls \in [Ids -> Nat] /\ (pending = None \/ GoodRecord(pending, known, ext))
    BY Zenon DEF IInv, WorldInv, RecordsInv
  <2>3. calls[i] \in Nat /\ calls[i] <= Debt(calls, slot, i)
    BY Zenon, <2>1, <2>2, DebtType
  <2>4. Debt(calls', slot', i) = calls[i] + 0
    BY Zenon, <1>0, <2>1 DEF Debt
  <2>5. /\ Spent(pending, i) \in Nat
        /\ Credit(slot, pending, i) \in Nat
        /\ Credit(slot, pending, i) <= Spent(pending, i) + 1
    BY <2>2, SpentType
  <2>6. Credit(slot', pending', i) = Spent(pending, i)
    BY Zenon, <1>0 DEF Credit
  <2>7. Credit(slot, pending, i) + faults <= Credit(slot', pending', i) + faults'
    BY <1>4, <2>5, <2>6
  <2>8. Debt(calls', slot', i) <= Debt(calls, slot, i)
    BY <2>3, <2>4
  <2>9. QED
    BY Zenon, <1>0, <2>1, <2>7, <2>8
<1>6. BudgetInv'
  BY Zenon, <1>4, <1>5, BudgetStep DEF JInv
<1>7. QED
  BY Zenon, <1>2, <1>3, <1>4, <1>6 DEF JInv

(* The record q keeps the dispositions of p and their attempts. *)
Spends(p, q) ==
    \A i \in DOMAIN p.disp :
       i \in DOMAIN q.disp /\ p.disp[i].attempts <= q.disp[i].attempts

(* What q says is decided, p said. *)
Decides(p, q) ==
    \A i \in DOMAIN p.disp :
       /\ i \in DOMAIN q.disp
       /\ q.disp[i].state \in Decided => p.disp[i].state = q.disp[i].state

(* Slot w writes r over the pending record and goes on as s, or dies halfway. *)
LEMMA SaveKeeps ==
    ASSUME Counting, IInv, IInv', JInv, NEW w \in Workers, NEW r, NEW s,
           Save(w, r, s), pending # None, r # None,
           GoodRecord(r, known, ext),
           UNCHANGED <<calls, timedOut, requests>>,
           Complete(r) \/ Unfinished(r),
           slot[w].at # "cancel", s.at \notin Calling, ~ s.late, s.at \notin Scanned,
           Spends(pending, r),
           slot[w].at \in Calling =>
              /\ slot[w].id \in DOMAIN pending.disp
              /\ pending.disp[slot[w].id].attempts + 1 <= r.disp[slot[w].id].attempts,
           Complete(r) => Agrees(pending, r),
           done # None => Decides(pending, r),
           done # None /\ Complete(r) => \A i \in DOMAIN r.disp : r.disp[i].state \in Decided
    PROVE  JInv' /\ KeepsProof
<1>0. KeepsProof
  <2>1. CASE done' = done
    BY Zenon, <2>1 DEF KeepsProof
  <2>2. CASE Complete(r) /\ done' = r
    <3>1. SUFFICES ASSUME NEW i \in Ids, done # None, i \in DOMAIN done.disp,
                          done.disp[i].state \in Decided
                   PROVE  i \in DOMAIN r.disp /\ r.disp[i].state = done.disp[i].state
      BY Zenon, <2>2 DEF KeepsProof
    <3>2. /\ i \in DOMAIN pending.disp
          /\ pending.disp[i].state \in Decided => pending.disp[i].state = done.disp[i].state
      BY Zenon, <3>1 DEF JInv, LeftInv, Agrees
    <3>3. i \in DOMAIN r.disp /\ r.disp[i].state \in Decided
      BY Zenon, <2>2, <3>1, <3>2 DEF Decides
    <3>4. pending.disp[i].state = r.disp[i].state
      BY Zenon, <3>1, <3>2, <3>3 DEF Decides
    <3>5. QED
      BY Zenon, <3>2, <3>3, <3>4
  <2>3. QED
    BY Zenon, <2>1, <2>2 DEF Save, Persist, PersistTorn
<1>1. CASE PersistTorn(r)
  <2>1. FilesInv'
    BY Zenon, <1>1 DEF PersistTorn, JInv, FilesInv, Unfinished, Complete
  <2>2. JInv'
    BY Zenon, <1>1, <2>1, DieKeeps DEF PersistTorn
  <2>3. QED
    BY Zenon, <1>0, <2>2
<1>2. CASE Persist(r) /\ Goto(w, s) /\ UNCHANGED <<tried, faults>>
  <2>1. slot'[w] = s /\ \A v \in Workers : v # w => slot'[v] = slot[v]
    BY Zenon, <1>2 DEF IInv, SlotsInv, Goto
  <2>2. \/ Complete(r) /\ pending' = None /\ done' = r
        \/ Unfinished(r) /\ ~ Complete(r) /\ pending' = r /\ done' = done
    BY Zenon, <1>2 DEF Persist
  <2>3. FilesInv'
    BY Zenon, <2>2 DEF JInv, FilesInv, Unfinished, Complete
  <2>4. LateInv' /\ FlagsInv'
    BY Zenon, <1>2, <2>1 DEF JInv, LateInv, FlagsInv
  <2>5. LeftInv'
    <3>1. SUFFICES ASSUME done # None, pending' = r, done' = done
                   PROVE  (\A v \in Workers : slot'[v].at \notin Scanned) /\ Agrees(r, done)
      BY Zenon, <2>2 DEF LeftInv, Agrees
    <3>2. \A v \in Workers : slot'[v].at \notin Scanned
      BY Zenon, <2>1, <3>1 DEF JInv, LeftInv
    <3>3. Agrees(pending, done) /\ Decides(pending, r)
      BY Zenon, <3>1 DEF JInv, LeftInv
    <3>4. Agrees(r, done)
      BY Zenon, <3>3 DEF Agrees, Decides
    <3>5. QED
      BY Zenon, <3>2, <3>4
  <2>6. ASSUME NEW i \in Ids
        PROVE  /\ IsFiniteSet(Callers(slot', i))
               /\ Debt(calls', slot', i) <= Debt(calls, slot, i)
               /\ done' = None =>
                     Credit(slot, pending, i) + faults <= Credit(slot', pending', i) + faults'
    <3>0. slot'[w].at # "cancel" /\ slot'[w].at \notin Calling
      BY Zenon, <2>1 DEF Calling
    <3>1. Callers(slot', i) = Callers(slot, i) /\ IsFiniteSet(Callers(slot, i))
      BY Zenon, <2>1, <3>0, CallersMoved DEF JInv, BudgetInv
    <3>2. /\ Debt(calls, slot, i) \in Nat /\ Debt(calls', slot', i) = Debt(calls, slot, i)
      BY Zenon, <3>1, DebtType DEF IInv, WorldInv, Debt
    <3>3. ASSUME done' = None
          PROVE  Credit(slot, pending, i) <= Credit(slot', pending', i)
      <4>0. pending' = r /\ done = None
        BY Zenon, <2>2, <3>3
      <4>a. GoodRecord(pending, known, ext)
        BY Zenon, RecordsOf
      <4>1. /\ Spent(pending, i) \in Nat /\ Spent(r, i) \in Nat
            /\ Credit(slot, pending, i) <= Spent(pending, i) + 1
            /\ Credit(slot, pending, i) \in Nat
            /\ Spent(r, i) <= Credit(slot', r, i)
            /\ Credit(slot', r, i) \in Nat
        BY <4>a, SpentType
      <4>2. Spent(pending, i) <= Spent(r, i)
        <5>1. CASE i \in DOMAIN pending.disp
          BY Zenon, <5>1 DEF Spent, Spends
        <5>2. CASE i \notin DOMAIN pending.disp
          <6>1. Spent(pending, i) = 0
            BY Zenon, <5>2 DEF Spent
          <6>2. QED
            BY <4>1, <6>1
        <5>3. QED
          BY Zenon, <5>1, <5>2
      <4>3. /\ OnTime(slot', i) => OnTime(slot, i)
            /\ OnTime(slot, i) => \/ OnTime(slot', i)
                                  \/ slot[w].at \in Calling /\ slot[w].id = i /\ ~ slot[w].late
        BY Zenon, <2>1, <3>0, OnTimeMoved
      <4>4. CASE OnTime(slot, i) <=> OnTime(slot', i)
        <5>1. CASE OnTime(slot, i)
          <6>1. /\ Credit(slot, pending, i) = Spent(pending, i) + 1
                /\ Credit(slot', r, i) = Spent(r, i) + 1
            BY Zenon, <4>4, <5>1 DEF Credit
          <6>2. QED
            BY <4>0, <4>1, <4>2, <6>1
        <5>2. CASE ~ OnTime(slot, i)
          BY Zenon, <4>0, <4>2, <4>4, <5>2 DEF Credit
        <5>3. QED
          BY Zenon, <5>1, <5>2
      <4>5. CASE slot[w].at \in Calling /\ slot[w].id = i
        <5>1. i \in DOMAIN pending.disp /\ i \in DOMAIN r.disp
              /\ pending.disp[i].attempts + 1 <= r.disp[i].attempts
          BY Zenon, <4>5 DEF Spends
        <5>2. Spent(pending, i) + 1 <= Spent(r, i)
          BY Zenon, <5>1 DEF Spent
        <5>3. QED
          BY <4>0, <4>1, <5>2
      <4>6. QED
        BY Zenon, <4>3, <4>4, <4>5
    <3>4. done' = None =>
             Credit(slot, pending, i) + faults <= Credit(slot', pending', i) + faults'
      <4>1. SUFFICES ASSUME done' = None
                     PROVE  Credit(slot, pending, i) + faults
                              <= Credit(slot', pending', i) + faults'
        BY Zenon
      <4>2. /\ Credit(slot, pending, i) \in Nat /\ Credit(slot', pending', i) \in Nat
            /\ faults \in Nat /\ faults' = faults
        <5>1. pending' = None \/ GoodRecord(pending', known', ext')
          BY Zenon DEF IInv, RecordsInv
        <5>2. GoodRecord(pending, known, ext)
          BY Zenon, RecordsOf
        <5>3. Credit(slot, pending, i) \in Nat /\ Credit(slot', pending', i) \in Nat
          BY <5>1, <5>2, SpentType
        <5>4. faults \in Nat
          BY CancelAssumption DEF JInv, FlagsInv
        <5>5. QED
          BY Zenon, <1>2, <5>3, <5>4
      <4>3. QED
        BY <3>3, <4>1, <4>2
    <3>5. QED
      BY <3>1, <3>2, <3>4
  <2>7. BudgetInv'
    <3>1. faults' \in Nat /\ faults <= faults'
      BY <1>2, CancelAssumption DEF JInv, FlagsInv
    <3>2. done # None => done' # None
      BY Zenon, <2>2
    <3>3. QED
      BY Zenon, <2>6, <3>1, <3>2, BudgetStep DEF JInv
  <2>8. QED
    BY Zenon, <1>0, <2>3, <2>4, <2>5, <2>7 DEF JInv
<1>3. QED
  BY Zenon, <1>1, <1>2 DEF Save

-----------------------------------------------------------------------------
(* The operator, the relay job and its execution                             *)

(* ensure_scheduler_cancel_pending keeps a record or starts one. *)
LEMMA EnsureKept ==
    ASSUME NEW x \in Reasons, EnsurePending(x)
    PROVE  Kept
  BY Zenon DEF EnsurePending, Kept

(* One disposition is replaced. *)
LEMMA ReplacedParts ==
    ASSUME NEW K, NEW E, NEW r, GoodRecord(r, K, E), NEW i \in DOMAIN r.disp, NEW d
    PROVE  LET q == [r EXCEPT !.disp[i] = d] IN
           /\ q.resolution = r.resolution
           /\ DOMAIN q.disp = DOMAIN r.disp
           /\ q.disp[i] = d
           /\ \A k \in DOMAIN r.disp : k # i => q.disp[k] = r.disp[k]
<1> DEFINE q == [r EXCEPT !.disp[i] = d]
<1>1. r = [reason |-> r.reason, resolution |-> r.resolution, disp |-> r.disp]
  BY Zenon DEF GoodRecord
<1>2. q.resolution = r.resolution /\ q.disp = [r.disp EXCEPT ![i] = d]
  BY <1>1
<1> HIDE DEF q
<1>3. QED
  BY Zenon, <1>2 DEF q

(* A claim is taken, a wait or a lease ends. *)
LEMMA TouchedSame ==
    ASSUME NEW K, NEW E, NEW r, GoodRecord(r, K, E), NEW i \in DOMAIN r.disp, NEW d,
           d.state = r.disp[i].state, d.attempts = r.disp[i].attempts
    PROVE  Same(r, [r EXCEPT !.disp[i] = d])
<1> DEFINE q == [r EXCEPT !.disp[i] = d]
<1>1. /\ q.resolution = r.resolution
      /\ DOMAIN q.disp = DOMAIN r.disp
      /\ q.disp[i] = d
      /\ \A k \in DOMAIN r.disp : k # i => q.disp[k] = r.disp[k]
  BY ReplacedParts
<1> HIDE DEF q
<1>2. Same(r, q)
  BY Zenon, <1>1 DEF Same
<1>3. QED
  BY Zenon, <1>2 DEF q

(* The fields of a disposition that a claim, a wait or a lease leaves alone. *)
LEMMA TouchedParts ==
    ASSUME NEW d \in Disposition, NEW w
    PROVE  \A q \in {[d EXCEPT !.claim = w, !.live = TRUE], [d EXCEPT !.confirm = w, !.live = TRUE],
                     [d EXCEPT !.due = TRUE], [d EXCEPT !.live = FALSE]} :
              q.state = d.state /\ q.attempts = d.attempts
  BY Zenon DEF Disposition

(* Cancel and CancelTorn *)
LEMMA CancelKeeps ==
    ASSUME IInv, IInv', JInv, (\E p \in {"cancel", "keep"} : Cancel(p)) \/ CancelTorn
    PROVE  JInv' /\ KeepsProof
<1>1. /\ requests < MaxRequests /\ requests' = requests + 1
      /\ UNCHANGED <<slot, done, calls, faults, tried, timedOut>>
  BY Zenon DEF Cancel, CancelTorn
<1>2. requests' \in 0..MaxRequests
  BY <1>1, CancelAssumption DEF JInv, FlagsInv
<1>3. FlagsInv'
  BY Zenon, <1>1, <1>2 DEF JInv, FlagsInv
<1>4. pending' = pending \/ EnsurePending("operator_request")
  BY Zenon DEF Cancel, CancelTorn
<1>5. "operator_request" \in Reasons
  BY Zenon DEF Reasons
<1>6. Kept
  BY Zenon, <1>4, <1>5, EnsureKept DEF Kept
<1>7. QED
  BY Zenon, <1>1, <1>3, <1>6, StayKeeps

(* Steps outside the records, and none. *)
LEMMA OutsideKeeps ==
    ASSUME IInv, IInv', JInv,
           (\E i \in Ids : Discover(i) \/ SchedulerStops(i)) \/ EndJob \/ UNCHANGED vars
    PROVE  JInv' /\ KeepsProof
<1>1. UNCHANGED <<pending, done, slot, tried, timedOut, calls, faults, requests>>
  BY Zenon DEF Discover, SchedulerStops, EndJob, vars
<1>2. FlagsInv' /\ Kept
  BY Zenon, <1>1 DEF JInv, FlagsInv, Kept
<1>3. QED
  BY Zenon, <1>1, <1>2, StayKeeps

(* A wait ends. *)
LEMMA BackoffKeeps ==
    ASSUME IInv, IInv', JInv, NEW i \in Ids, BackoffEnds(i)
    PROVE  JInv' /\ KeepsProof
<1> DEFINE d == [pending.disp[i] EXCEPT !.due = TRUE]
<1>1. /\ pending # None /\ i \in DOMAIN pending.disp
      /\ pending' = [pending EXCEPT !.disp[i] = d]
      /\ UNCHANGED <<done, slot, tried, timedOut, calls, faults, requests>>
  BY Zenon DEF BackoffEnds
<1>2. GoodRecord(pending, known, ext)
  BY Zenon, <1>1, RecordsOf
<1>3. d.state = pending.disp[i].state /\ d.attempts = pending.disp[i].attempts
  <2>1. pending.disp[i] \in Disposition
    BY Zenon, <1>1, <1>2 DEF GoodRecord, GoodDisposition
  <2>2. QED
    BY Zenon, <2>1, TouchedParts
<1> HIDE DEF d
<1>4. Same(pending, pending')
  BY Zenon, <1>1, <1>2, <1>3, TouchedSame
<1>5. pending' # None
  <2>1. UNCHANGED <<known, ext>>
    BY Zenon DEF BackoffEnds
  <2>2. GoodDisposition(d, i, known, ext)
    <3>1. GoodDisposition(pending.disp[i], i, known, ext) /\ Runner \in Workers
      BY Zenon, <1>1, <1>2, CancelAssumption DEF GoodRecord
    <3>2. QED
      BY Zenon, <3>1, DispositionTouched DEF d
  <2>3. GoodRecord(pending', known, ext)
    BY <1>1, <1>2, <2>2, DispositionReplaced
  <2>4. QED
    BY Zenon, <2>3, RecordIsSome
<1>6. FlagsInv' /\ Kept
  BY Zenon, <1>1, <1>4, <1>5 DEF JInv, FlagsInv, Kept
<1>7. QED
  BY Zenon, <1>1, <1>6, StayKeeps

(* Where a slot can be put from idle: on time, and calling nobody. *)
LEMMA FreshSlots ==
    ASSUME NEW T, NEW O, NEW x
    PROVE  /\ Idle.at = "idle" /\ ~ Idle.late /\ Idle.at \notin Calling /\ Idle.at \notin Scanned
           /\ LET s == [Idle EXCEPT !.at = x] IN s.at = x /\ ~ s.late
           /\ LET s == [Idle EXCEPT !.at = "ensure", !.todo = T] IN
              s.at = "ensure" /\ ~ s.late /\ s.at \notin Calling /\ s.at \notin Scanned
           /\ LET s == [Idle EXCEPT !.at = "register_seen", !.todo = T, !.owned = O] IN
              s.at = "register_seen" /\ ~ s.late /\ s.at \notin Calling /\ s.at \notin Scanned
           /\ LET s == [Idle EXCEPT !.at = "work", !.confirms = T, !.attempts = O] IN
              s.at = "work" /\ ~ s.late /\ s.at \notin Calling /\ s.at \notin Scanned
           /\ LET s == [Idle EXCEPT !.at = "inspect", !.reason = T, !.resolution = O] IN
              s.at = "inspect" /\ ~ s.late /\ s.at \notin Calling
  BY Zenon DEF Idle, Calling, Scanned

(* A slot that was put somewhere from idle, or takes less with it. *)
LEMMA PlainMoveKeeps ==
    ASSUME IInv, IInv', JInv, Kept, FlagsInv',
           UNCHANGED <<done, calls, faults>>,
           NEW w \in Workers, NEW s, Goto(w, s),
           slot[w].at \notin Calling, s.at \notin Calling, ~ s.late,
           s.at \in Scanned => slot[w].at \in Scanned \/ done = None
    PROVE  JInv' /\ KeepsProof
<1>1. slot[w].at # "cancel"
  BY Zenon DEF Calling
<1>2. QED
  BY Zenon, <1>1, MoveKeeps

(* ShouldCancelJob and ExecutionTimeout *)
LEMMA RunnerKeeps ==
    ASSUME IInv, IInv', JInv, ShouldCancelJob \/ ExecutionTimeout
    PROVE  JInv' /\ KeepsProof
<1>0. /\ Runner \in Workers /\ slot[Runner].at = "idle" /\ slot[Runner].at \notin Calling
      /\ UNCHANGED <<done, calls, faults, requests>>
      /\ "execution_timeout" \in Reasons
  BY Zenon, CancelAssumption DEF ShouldCancelJob, ExecutionTimeout, At, Calling, Reasons
<1>1. FlagsInv'
  BY Zenon, <1>0 DEF ShouldCancelJob, ExecutionTimeout, JInv, FlagsInv
<1>2. Kept
  BY Zenon, <1>0, EnsureKept DEF ShouldCancelJob, ExecutionTimeout, Kept
<1>3. CASE slot' = slot
  BY Zenon, <1>0, <1>1, <1>2, <1>3, StayKeeps
<1>4. ASSUME NEW s, Goto(Runner, s),
             s \in {[Idle EXCEPT !.at = "ensure", !.todo = Owned],
                    [Idle EXCEPT !.at = "close_timeout"]}
      PROVE  JInv' /\ KeepsProof
  <2>1. s.at \in {"ensure", "close_timeout"} /\ ~ s.late
    <3>1. CASE s = [Idle EXCEPT !.at = "ensure", !.todo = Owned]
      BY Zenon, <3>1, FreshSlots
    <3>2. CASE s = [Idle EXCEPT !.at = "close_timeout"]
      BY Zenon, <3>2, FreshSlots
    <3>3. QED
      BY Zenon, <1>4, <3>1, <3>2
  <2>2. s.at \notin Calling /\ s.at \notin Scanned
    BY Zenon, <2>1 DEF Calling, Scanned
  <2>3. QED
    BY Zenon, <1>0, <1>1, <1>2, <1>4, <2>1, <2>2, PlainMoveKeeps
<1>5. QED
  BY Zenon, <1>3, <1>4 DEF ShouldCancelJob, ExecutionTimeout

-----------------------------------------------------------------------------
(* _reconcile_canceled_scheduler_job                                         *)

(* A conflict ends the slot's work. *)
LEMMA RaiseKeeps ==
    ASSUME IInv, IInv', JInv, NEW w \in Workers, Raise(w) \/ ForgivenConflict(w),
           slot[w].at \notin Calling, UNCHANGED <<calls, timedOut, requests>>
    PROVE  JInv' /\ KeepsProof
<1>1. Goto(w, Idle) /\ UNCHANGED <<pending, done, tried, faults>>
  BY Zenon DEF Raise, ForgivenConflict
<1>2. FlagsInv' /\ Kept
  BY Zenon, <1>1 DEF JInv, FlagsInv, Kept
<1>3. ~ Idle.late /\ Idle.at \notin Calling /\ Idle.at \notin Scanned
  BY Zenon, FreshSlots
<1>4. QED
  BY Zenon, <1>1, <1>2, <1>3, PlainMoveKeeps

(* The steps of a slot that write no record: scan_due_scheduler_cancellations, *)
(* the inspection, the start of _cancel_scheduler_jobs and its end.            *)
LEMMA ScanKeeps ==
    ASSUME IInv, IInv', JInv, NEW w \in Workers,
           Scan(w) \/ Inspect(w) \/ Ensure(w) \/ WorkDone(w)
    PROVE  JInv' /\ KeepsProof
<1>0. /\ UNCHANGED <<done, tried, timedOut, calls, faults, requests>>
      /\ "scheduler_cancel" \in Reasons
  BY Zenon DEF Scan, Inspect, Ensure, WorkDone, Reasons
<1>1. FlagsInv'
  BY Zenon, <1>0 DEF JInv, FlagsInv
<1>2. slot[w].at \in {"idle", "inspect", "ensure", "work"}
  BY Zenon DEF Scan, Free, Inspect, Ensure, WorkDone, At
<1>3. slot[w].at \notin Calling
  BY Zenon, <1>2 DEF Calling
<1>4. CASE Scan(w)
  <2>1. Kept
    BY Zenon, <1>4 DEF Scan, Kept
  <2>2. CASE slot' = slot
    BY Zenon, <1>0, <1>1, <2>1, <2>2, StayKeeps
  <2>3. CASE done = None /\ Goto(w, [Idle EXCEPT !.at = "inspect", !.reason = pending.reason,
                                                 !.resolution = pending.resolution])
    <3> DEFINE s == [Idle EXCEPT !.at = "inspect", !.reason = pending.reason,
                                 !.resolution = pending.resolution]
    <3>1. s.at \notin Calling /\ ~ s.late /\ Goto(w, s) /\ done = None
      BY Zenon, <2>3, FreshSlots
    <3> HIDE DEF s
    <3>2. QED
      BY Zenon, <1>0, <1>1, <1>3, <2>1, <3>1, PlainMoveKeeps
  <2>4. QED
    BY Zenon, <1>4, <2>2, <2>3 DEF Scan
<1>5. CASE Inspect(w)
  <2>1. Kept /\ slot[w].at \in Scanned
    BY Zenon, <1>5 DEF Inspect, Kept, At, Scanned
  <2>2. PICK s : /\ Goto(w, s)
                 /\ s \in {[Idle EXCEPT !.at = "supersede"], [Idle EXCEPT !.at = "close_empty"],
                           [Idle EXCEPT !.at = "register_seen", !.todo = Observed, !.owned = Owned],
                           [Idle EXCEPT !.at = "ensure", !.todo = Owned], Idle}
    BY Zenon, <1>5 DEF Inspect
  <2>3. ~ s.late /\ s.at \notin Calling
    <3>1. CASE s = [Idle EXCEPT !.at = "supersede"]
      <4>1. s.at = "supersede" /\ ~ s.late
        BY Zenon, <3>1, FreshSlots
      <4>2. QED
        BY Zenon, <4>1 DEF Calling
    <3>2. CASE s = [Idle EXCEPT !.at = "close_empty"]
      <4>1. s.at = "close_empty" /\ ~ s.late
        BY Zenon, <3>2, FreshSlots
      <4>2. QED
        BY Zenon, <4>1 DEF Calling
    <3>3. CASE s = [Idle EXCEPT !.at = "register_seen", !.todo = Observed, !.owned = Owned]
      BY Zenon, <3>3, FreshSlots
    <3>4. CASE s = [Idle EXCEPT !.at = "ensure", !.todo = Owned]
      BY Zenon, <3>4, FreshSlots
    <3>5. CASE s = Idle
      BY Zenon, <3>5, FreshSlots
    <3>6. QED
      BY Zenon, <2>2, <3>1, <3>2, <3>3, <3>4, <3>5
  <2>4. QED
    BY Zenon, <1>0, <1>1, <1>3, <2>1, <2>2, <2>3, PlainMoveKeeps
<1>6. CASE Ensure(w)
  <2>1. Kept
    BY Zenon, <1>0, <1>6, EnsureKept DEF Ensure
  <2>2. slot[w].at = "ensure" /\ slot[w] \in Slots
    BY Zenon, <1>6, SlotFacts DEF Ensure, At
  <2>3. PICK s : Goto(w, s) /\ s \in {Idle, [slot[w] EXCEPT !.at = "register"]}
    BY Zenon, <1>6 DEF Ensure
  <2>4. ~ s.late /\ s.at \notin Calling /\ s.at \notin Scanned
    <3>1. CASE s = Idle
      BY Zenon, <3>1, FreshSlots
    <3>2. CASE s = [slot[w] EXCEPT !.at = "register"]
      <4>1. s.at = "register" /\ s.late = slot[w].late
        BY Zenon, <2>2, <3>2 DEF Slots
      <4>2. ~ slot[w].late
        BY Zenon, <2>2 DEF JInv, LateInv, Claiming
      <4>3. QED
        BY Zenon, <4>1, <4>2 DEF Calling, Scanned
    <3>3. QED
      BY Zenon, <2>3, <3>1, <3>2
  <2>5. QED
    BY Zenon, <1>0, <1>1, <1>3, <2>1, <2>3, <2>4, PlainMoveKeeps
<1>7. CASE WorkDone(w)
  <2>1. Kept /\ Goto(w, Idle)
    BY Zenon, <1>7 DEF WorkDone, Kept
  <2>2. ~ Idle.late /\ Idle.at \notin Calling /\ Idle.at \notin Scanned
    BY Zenon, FreshSlots
  <2>3. QED
    BY Zenon, <1>0, <1>1, <1>3, <2>1, <2>2, PlainMoveKeeps
<1>8. QED
  BY Zenon, <1>4, <1>5, <1>6, <1>7

(* A slot that is not calling writes a record with the dispositions of the   *)
(* pending one, up to their claims.                                          *)
LEMMA RewriteKeeps ==
    ASSUME Counting, IInv, IInv', JInv, NEW w \in Workers, NEW r, NEW s,
           Save(w, r, s), pending # None,
           GoodRecord(r, known, ext),
           UNCHANGED <<calls, timedOut, requests>>,
           r.resolution = "resolved" => DOMAIN r.disp # {},
           DOMAIN r.disp = DOMAIN pending.disp,
           \A i \in DOMAIN pending.disp : /\ r.disp[i].state = pending.disp[i].state
                                          /\ r.disp[i].attempts = pending.disp[i].attempts,
           slot[w].at \notin Calling, s.at \notin Calling, ~ s.late, s.at \notin Scanned,
           done # None /\ Complete(r) => \A i \in DOMAIN r.disp : r.disp[i].state \in Decided
    PROVE  JInv' /\ KeepsProof
<1>0. slot[w].at # "cancel" /\ r # None /\ GoodRecord(pending, known, ext) /\ Unfinished(pending)
  BY Zenon, RecordIsSome, RecordsOf DEF Calling, JInv, FilesInv
<1>1. Spends(pending, r)
  <2>1. ASSUME NEW i \in DOMAIN pending.disp PROVE pending.disp[i].attempts <= r.disp[i].attempts
    <3>1. pending.disp[i].attempts \in Nat /\ r.disp[i].attempts = pending.disp[i].attempts
      BY Zenon, <1>0 DEF GoodRecord, GoodDisposition, Disposition
    <3>2. QED
      BY <3>1
  <2>2. QED
    BY Zenon, <2>1 DEF Spends
<1>2. Agrees(pending, r) /\ Decides(pending, r)
  BY Zenon DEF Agrees, Decides
<1>3. Complete(r) \/ Unfinished(r)
  BY Zenon, <1>0 DEF Unfinished, InBudget
<1>4. QED
  BY Zenon, <1>0, <1>1, <1>2, <1>3, SaveKeeps

(* A record whose resolution changes. *)
LEMMA ResolvedParts ==
    ASSUME NEW K, NEW E, NEW r, GoodRecord(r, K, E), NEW x
    PROVE  /\ [r EXCEPT !.resolution = x].resolution = x
           /\ [r EXCEPT !.resolution = x].disp = r.disp
<1>1. r = [reason |-> r.reason, resolution |-> r.resolution, disp |-> r.disp]
  BY Zenon DEF GoodRecord
<1>2. QED
  BY <1>1

(* complete_scheduler_cancel_identity_scan, both ways. *)
LEMMA CloseKeeps ==
    ASSUME Counting, IInv, IInv', JInv, NEW w \in Workers, Supersede(w) \/ CloseEmpty(w)
    PROVE  JInv' /\ KeepsProof
<1>0. UNCHANGED <<known, ext, calls, timedOut, requests>>
  BY Zenon DEF Supersede, CloseEmpty
<1>1. slot[w].at \in {"supersede", "close_empty", "close_timeout"}
  BY Zenon DEF Supersede, CloseEmpty, At
<1>2. slot[w].at \notin Calling
  BY Zenon, <1>1 DEF Calling
<1>3. ~ Idle.late /\ Idle.at \notin Calling /\ Idle.at \notin Scanned
  BY Zenon, FreshSlots
<1>4. CASE Raise(w) \/ ForgivenConflict(w)
  BY Zenon, <1>0, <1>2, <1>4, RaiseKeeps
<1>5. CASE Goto(w, Idle) /\ UNCHANGED <<pending, done, tried, faults>>
  <2>1. FlagsInv' /\ Kept
    BY Zenon, <1>0, <1>5 DEF JInv, FlagsInv, Kept
  <2>2. QED
    BY Zenon, <1>0, <1>2, <1>3, <1>5, <2>1, PlainMoveKeeps
<1>6. CASE /\ pending # None /\ DOMAIN pending.disp = {}
           /\ Save(w, [pending EXCEPT !.resolution = "none"], Idle)
  <2> DEFINE r == [pending EXCEPT !.resolution = "none"]
  <2>1. GoodRecord(pending, known, ext) /\ "none" \in Resolutions
    BY Zenon, <1>6, RecordsOf DEF Resolutions
  <2>2. r.disp = pending.disp /\ r.resolution = "none"
    BY <2>1, ResolvedParts
  <2>3. GoodRecord(r, known, ext)
    BY <2>1, Resolved
  <2>4. Save(w, r, Idle)
    BY Zenon, <1>6
  <2> HIDE DEF r
  <2>5. QED
    BY Zenon, <1>0, <1>2, <1>3, <1>6, <2>2, <2>3, <2>4, RewriteKeeps
<1>7. CASE pending # None /\ Supersede(w)
  <2> DEFINE f == [i \in DOMAIN pending.disp |->
                     [pending.disp[i] EXCEPT !.claim = None, !.confirm = None, !.live = FALSE]]
             r == [pending EXCEPT !.resolution = "superseded", !.disp = f]
  <2>1. GoodRecord(pending, known, ext) /\ "superseded" \in Resolutions
    BY Zenon, <1>7, RecordsOf DEF Resolutions
  <2>2. ASSUME NEW i \in DOMAIN pending.disp
        PROVE  /\ GoodDisposition(f[i], i, known, ext)
               /\ f[i].state = pending.disp[i].state /\ f[i].attempts = pending.disp[i].attempts
    <3> DEFINE d == pending.disp[i]
               q == [d EXCEPT !.claim = None, !.confirm = None, !.live = FALSE]
    <3>1. GoodDisposition(d, i, known, ext)
      BY Zenon, <2>1 DEF GoodRecord
    <3>2. f[i] = q
      BY Zenon
    <3> HIDE DEF d, f
    <3>3. q \in Disposition
      BY Zenon, <3>1 DEF GoodDisposition, Disposition
    <3>4. q.state = d.state /\ q.claim = None /\ q.confirm = None /\ q.attempts = d.attempts
      BY Zenon, <3>1 DEF GoodDisposition, Disposition
    <3> HIDE DEF q
    <3>5. GoodDisposition(q, i, known, ext)
      BY Zenon, <3>1, <3>3, <3>4 DEF GoodDisposition
    <3>6. QED
      BY Zenon, <3>2, <3>4, <3>5 DEF d
  <2>3. DOMAIN f = DOMAIN pending.disp /\ f = [i \in DOMAIN f |-> f[i]]
    BY Zenon
  <2>4. Save(w, r, Idle)
    BY Zenon, <1>7 DEF Supersede
  <2> HIDE DEF f
  <2>5. GoodRecord(r, known, ext) /\ r.resolution = "superseded" /\ r.disp = f
    <3>1. pending \in [reason : Reasons, resolution : Resolutions, disp : {pending.disp}]
      BY Zenon, <2>1 DEF GoodRecord
    <3>2. r \in [reason : Reasons, resolution : Resolutions, disp : {f}]
      BY Zenon, <2>1, <3>1
    <3>3. r.reason = pending.reason /\ r.resolution = "superseded" /\ r.disp = f
      BY Zenon, <3>1
    <3> HIDE DEF r
    <3>4. r = [reason |-> r.reason, resolution |-> r.resolution, disp |-> r.disp]
      BY Zenon, <3>2
    <3>5. QED
      BY Zenon, <2>1, <2>2, <2>3, <3>3, <3>4 DEF GoodRecord
  <2> HIDE DEF r
  <2>6. done = None
    <3>1. slot[w].at \in Scanned
      BY Zenon, <1>7 DEF Supersede, At, Scanned
    <3>2. QED
      BY Zenon, <1>7, <3>1 DEF JInv, LeftInv
  <2>7. /\ r.resolution # "resolved"
        /\ DOMAIN r.disp = DOMAIN pending.disp
        /\ \A i \in DOMAIN pending.disp : /\ r.disp[i].state = pending.disp[i].state
                                          /\ r.disp[i].attempts = pending.disp[i].attempts
    BY Zenon, <2>2, <2>3, <2>5
  <2>8. QED
    BY Zenon, <1>0, <1>2, <1>3, <1>7, <2>4, <2>5, <2>6, <2>7, RewriteKeeps
<1>8. QED
  BY Zenon, <1>4, <1>5, <1>6, <1>7 DEF Supersede, CloseEmpty

-----------------------------------------------------------------------------
(* Identities                                                                *)

(* register_scheduler_cancel_identity_once completes nothing, forgets        *)
(* nothing and decides nothing of a job that was registered before.          *)
LEMMA RegisteredParts ==
    ASSUME NEW K, NEW E, NEW r, GoodRecord(r, K, E), Unfinished(r),
           NEW i \in Ids, NEW v \in BOOLEAN
    PROVE  LET q == Registered(r, i, v) IN
           Unfinished(q) /\ Spends(r, q) /\ Decides(r, q)
<1> DEFINE x == IF v THEN "pending" ELSE "refused"
           q == Registered(r, i, v)
<1>0. /\ x \in {"pending", "refused"} /\ (v => x = "pending")
      /\ MaxAttempts \in Nat \ {0}
      /\ r = [reason |-> r.reason, resolution |-> r.resolution, disp |-> r.disp]
  BY Zenon, CancelAssumption DEF GoodRecord
<1>a. \A k \in DOMAIN r.disp : r.disp[k].attempts \in Nat
  BY Zenon DEF GoodRecord, GoodDisposition, Disposition
<1>b. \A k \in DOMAIN r.disp : r.disp[k].attempts <= r.disp[k].attempts
  BY <1>a
<1>1. CASE i \notin DOMAIN r.disp
  <2> DEFINE f == [k \in DOMAIN r.disp \cup {i} |-> IF k = i THEN Fresh(x) ELSE r.disp[k]]
  <2>1. q = [r EXCEPT !.disp = f]
    BY Zenon, <1>1 DEF Registered, GoodRecord
  <2>2. q.resolution = r.resolution /\ q.disp = f
    <3> HIDE DEF f, q
    <3>1. QED
      BY <1>0, <2>1
  <2>3. /\ DOMAIN f = DOMAIN r.disp \cup {i} /\ f[i] = Fresh(x)
        /\ \A k \in DOMAIN r.disp : f[k] = r.disp[k]
    BY Zenon, <1>1
  <2> HIDE DEF f, q, x
  <2>4. f[i].state = x /\ f[i].attempts = 0
    <3>1. Fresh(x).state = x /\ Fresh(x).attempts = 0
      BY Zenon DEF Fresh
    <3>2. f[i] = Fresh(x)
      BY Zenon, <2>3
    <3>3. QED
      BY Zenon, <3>1, <3>2
  <2>5. InBudget(f[i])
    BY <1>0, <2>4 DEF InBudget
  <2>6. ~ Complete(q)
    <3>1. r.resolution \notin {"none", "superseded"}
      BY Zenon DEF Unfinished, Complete
    <3>2. r.resolution = "resolved" => \E k \in DOMAIN r.disp : r.disp[k].state \notin Decided
      BY Zenon DEF Unfinished, Complete
    <3>3. r.resolution = "resolved" => \E k \in DOMAIN q.disp : q.disp[k].state \notin Decided
      BY Zenon, <2>2, <2>3, <3>2
    <3>4. QED
      BY Zenon, <2>2, <3>1, <3>3 DEF Complete
  <2>7. Unfinished(q)
    BY Zenon, <2>2, <2>3, <2>5, <2>6 DEF Unfinished
  <2>8. Spends(r, q) /\ Decides(r, q)
    BY Zenon, <1>b, <2>2, <2>3 DEF Spends, Decides
  <2>9. QED
    BY Zenon, <2>7, <2>8 DEF q
<1>2. CASE i \in DOMAIN r.disp /\ (r.disp[i].state # "refused" \/ ~ v)
  <2>1. q = r
    BY Zenon, <1>2 DEF Registered
  <2>2. QED
    BY Zenon, <1>b, <2>1 DEF Spends, Decides
<1>3. CASE i \in DOMAIN r.disp /\ r.disp[i].state = "refused" /\ v
  <2> DEFINE d == [Fresh(x) EXCEPT !.attempts = r.disp[i].attempts,
                                   !.confirmations = r.disp[i].confirmations]
  <2>1. q = [r EXCEPT !.disp[i] = d]
    BY Zenon, <1>3 DEF Registered
  <2>a. x = "pending"
    BY Zenon, <1>3
  <2> HIDE DEF x
  <2>b. d.state = x /\ d.attempts = r.disp[i].attempts
    BY Zenon DEF Fresh
  <2> HIDE DEF d
  <2>2. d.state = "pending" /\ d.attempts = r.disp[i].attempts
    BY Zenon, <2>a, <2>b
  <2>3. /\ q.resolution = r.resolution
        /\ DOMAIN q.disp = DOMAIN r.disp
        /\ q.disp[i] = d
        /\ \A k \in DOMAIN r.disp : k # i => q.disp[k] = r.disp[k]
    <3>1. i \in DOMAIN r.disp
      BY Zenon, <1>3
    <3> HIDE DEF q
    <3>2. QED
      BY <2>1, <3>1, ReplacedParts
  <2> HIDE DEF q
  <2>4. InBudget(d)
    <3>1. InBudget(r.disp[i]) /\ r.disp[i].state = "refused"
      BY Zenon, <1>3 DEF Unfinished
    <3>2. QED
      BY Zenon, <2>2, <3>1 DEF InBudget
  <2>5. "pending" \notin Decided
    BY Zenon DEF Decided
  <2>6. ~ Complete(q)
    <3>1. r.resolution \notin {"none", "superseded"}
      BY Zenon DEF Unfinished, Complete
    <3>2. q.disp[i].state \notin Decided /\ i \in DOMAIN q.disp
      BY Zenon, <1>3, <2>2, <2>3, <2>5
    <3>3. QED
      BY Zenon, <2>3, <3>1, <3>2 DEF Complete
  <2>7. Unfinished(q)
    BY Zenon, <1>3, <2>3, <2>4, <2>6 DEF Unfinished
  <2>8. Spends(r, q)
    BY Zenon, <1>b, <2>2, <2>3 DEF Spends
  <2>9. Decides(r, q)
    BY Zenon, <2>2, <2>3, <2>5 DEF Decides
  <2>10. QED
    BY Zenon, <2>7, <2>8, <2>9 DEF q
<1>4. QED
  BY Zenon, <1>1, <1>2, <1>3

(* register_scheduler_cancel_identity_once, from either path. *)
LEMMA RegisterKeeps ==
    ASSUME Counting, IInv, IInv', JInv, NEW w \in Workers, NEW i \in Ids,
           RegisterSeen(w, i) \/ Register(w, i)
    PROVE  JInv' /\ KeepsProof
<1>0. /\ UNCHANGED <<known, ext, calls, timedOut, requests>>
      /\ slot[w].at \in {"register_seen", "register"} /\ slot[w] \in Slots
  BY Zenon, SlotFacts DEF RegisterSeen, Register, At
<1>1. slot[w].at \notin Calling /\ slot[w].at # "cancel" /\ slot[w].at \notin Scanned
      /\ slot[w].at \notin Claiming
  BY Zenon, <1>0 DEF Calling, Scanned, Claiming
<1>2. CASE Raise(w) \/ ForgivenConflict(w)
  BY Zenon, <1>0, <1>1, <1>2, RaiseKeeps
<1>3. ASSUME NEW v \in BOOLEAN, v => known[i] = "owned", pending # None,
             Save(w, Registered(pending, i, v), [slot[w] EXCEPT !.todo = @ \ {i}])
      PROVE  JInv' /\ KeepsProof
  <2> DEFINE r == Registered(pending, i, v)
             s == [slot[w] EXCEPT !.todo = @ \ {i}]
  <2>1. GoodRecord(pending, known, ext) /\ Unfinished(pending)
    BY Zenon, <1>3, RecordsOf DEF JInv, FilesInv
  <2>2. GoodRecord(r, known, ext)
    BY <1>3, <2>1, RegisteredGood
  <2>3. Unfinished(r) /\ Spends(pending, r) /\ Decides(pending, r)
    BY <1>3, <2>1, RegisteredParts
  <2>4. s.at = slot[w].at /\ s.late = slot[w].late
    BY Zenon, <1>0 DEF Slots
  <2>5. ~ slot[w].late
    BY Zenon, <1>1 DEF JInv, LateInv
  <2>6. Save(w, r, s)
    BY Zenon, <1>3
  <2> HIDE DEF r, s
  <2>7. s.at \notin Calling /\ ~ s.late /\ s.at \notin Scanned
    BY Zenon, <1>1, <2>4, <2>5
  <2>8. ~ Complete(r) /\ r # None
    BY Zenon, <2>2, <2>3, RecordIsSome DEF Unfinished
  <2>9. QED
    BY Zenon, <1>0, <1>1, <1>3, <2>2, <2>3, <2>6, <2>7, <2>8, SaveKeeps
<1>4. CASE RegisterSeen(w, i)
  <2>1. (i \in slot[w].owned) \in BOOLEAN /\ ((i \in slot[w].owned) => known[i] = "owned")
    <3>1. \A k \in slot[w].owned : known[k] = "owned"
      BY Zenon, SlotFacts DEF GoodSlot
    <3>2. QED
      BY <3>1
  <2>2. QED
    BY Zenon, <1>2, <1>3, <1>4, <2>1 DEF RegisterSeen
<1>5. CASE Register(w, i)
  <2>1. (i \in Owned) \in BOOLEAN /\ ((i \in Owned) => known[i] = "owned")
    BY DEF Owned
  <2>2. QED
    BY Zenon, <1>2, <1>3, <1>5, <2>1 DEF Register
<1>6. QED
  BY Zenon, <1>4, <1>5

(* finalize_scheduler_cancel_identities, from either path. *)
LEMMA FinalizeKeeps ==
    ASSUME Counting, IInv, IInv', JInv, NEW w \in Workers, FinalizeSeen(w) \/ Finalize(w)
    PROVE  JInv' /\ KeepsProof
<1>0. /\ UNCHANGED <<known, ext, calls, timedOut, requests>>
      /\ slot[w].at \in {"register_seen", "register"}
  BY Zenon DEF FinalizeSeen, Finalize, At
<1>1. slot[w].at \notin Calling
  BY Zenon, <1>0 DEF Calling
<1>2. CASE NothingToFinalize
  BY Zenon, <1>0, <1>1, <1>2, RaiseKeeps DEF FinalizeSeen, Finalize
<1>3. CASE ~ NothingToFinalize
  <2> DEFINE r == [pending EXCEPT !.resolution = "resolved"]
             Due(S) == {i \in DOMAIN r.disp : r.disp[i].state \in S /\ r.disp[i].due}
             C == Due({"cancel_requested"})
             O == Due(Open)
  <2>1. pending # None /\ DOMAIN pending.disp # {}
    BY Zenon, <1>3 DEF NothingToFinalize
  <2>2. PICK s : /\ Save(w, r, s)
                 /\ s \in {Idle, [Idle EXCEPT !.at = "ensure", !.todo = slot[w].owned],
                           [Idle EXCEPT !.at = "work", !.confirms = C, !.attempts = O]}
    <3>1. CASE FinalizeSeen(w)
      BY Zenon, <1>3, <3>1 DEF FinalizeSeen
    <3>2. CASE Finalize(w)
      BY Zenon, <1>3, <3>2 DEF Finalize
    <3>3. QED
      BY Zenon, <3>1, <3>2
  <2>3. s.at \notin Calling /\ ~ s.late /\ s.at \notin Scanned
    <3> HIDE DEF C, O
    <3>1. CASE s = Idle
      BY Zenon, <3>1, FreshSlots
    <3>2. CASE s = [Idle EXCEPT !.at = "ensure", !.todo = slot[w].owned]
      BY Zenon, <3>2, FreshSlots
    <3>3. CASE s = [Idle EXCEPT !.at = "work", !.confirms = C, !.attempts = O]
      BY Zenon, <3>3, FreshSlots
    <3>4. QED
      BY Zenon, <2>2, <3>1, <3>2, <3>3
  <2>4. GoodRecord(pending, known, ext) /\ GoodRecord(r, known, ext) /\ r.disp = pending.disp
    BY Zenon, <2>1, FinalizedRecord
  <2>5. r.resolution = "resolved"
    BY <2>4, ResolvedParts
  <2> HIDE DEF r
  <2>6. Complete(r) => \A i \in DOMAIN r.disp : r.disp[i].state \in Decided
    BY Zenon, <2>5 DEF Complete
  <2>7. Save(w, r, s)
    BY Zenon, <2>2
  <2> HIDE DEF C, O, Due
  <2>8. QED
    BY Zenon, <1>0, <1>1, <2>1, <2>3, <2>4, <2>6, <2>7, RewriteKeeps
<1>4. QED
  BY Zenon, <1>2, <1>3

-----------------------------------------------------------------------------
(* Attempts and confirmations                                                *)

(* A slot that tried a claim in vain goes on with less. *)
LEMMA NotClaimedKeeps ==
    ASSUME IInv, IInv', JInv, NEW w \in Workers, slot[w].at = "work",
           NEW s, s.at = "work", s.late = slot[w].late,
           UNCHANGED <<calls, timedOut, requests>>,
           \/ Overtaken(w, s) \/ Raise(w)
           \/ Goto(w, s) /\ UNCHANGED <<pending, done, tried, faults>>
    PROVE  JInv' /\ KeepsProof
<1>1. slot[w].at \notin Calling /\ s.at \notin Calling /\ s.at \notin Scanned
      /\ slot[w].at \notin Claiming
  BY Zenon DEF Calling, Scanned, Claiming
<1>2. ~ s.late
  BY Zenon, <1>1 DEF JInv, LateInv
<1>3. CASE Raise(w)
  BY Zenon, <1>1, <1>3, RaiseKeeps
<1>4. CASE Goto(w, s) /\ UNCHANGED <<done, tried, faults>> /\ Kept
  <2>1. FlagsInv'
    BY Zenon, <1>4 DEF JInv, FlagsInv
  <2>2. QED
    BY Zenon, <1>1, <1>2, <1>4, <2>1, PlainMoveKeeps
<1>5. QED
  BY Zenon, <1>3, <1>4 DEF Overtaken, Kept

(* claim_scheduler_cancel_confirmation *)
LEMMA ClaimConfirmationKeeps ==
    ASSUME IInv, IInv', JInv, NEW w \in Workers, NEW i \in Ids, ClaimConfirmation(w, i)
    PROVE  JInv' /\ KeepsProof
<1> DEFINE rest == [slot[w] EXCEPT !.confirms = @ \ {i}]
<1>0. /\ slot[w].at = "work" /\ i \in slot[w].confirms /\ slot[w] \in Slots
      /\ UNCHANGED <<known, ext, calls, timedOut, requests>>
  BY Zenon, SlotFacts DEF ClaimConfirmation, At
<1>1. rest.at = "work" /\ rest.late = slot[w].late /\ rest \in Slots
  <2>1. rest \in Slots
    BY Zenon, <1>0, RestSlots
  <2>2. QED
    BY Zenon, <1>0, <2>1 DEF Slots
<1>2. CASE \/ Overtaken(w, rest) \/ Raise(w)
           \/ Goto(w, rest) /\ UNCHANGED <<pending, done, tried, faults>>
  <2> HIDE DEF rest
  <2>1. QED
    BY Zenon, <1>0, <1>1, <1>2, NotClaimedKeeps
<1>3. CASE /\ done = None /\ pending # None
           /\ pending' = [pending EXCEPT !.disp[i] = [@ EXCEPT !.confirm = w, !.live = TRUE]]
           /\ Goto(w, [rest EXCEPT !.at = "poll", !.id = i])
           /\ UNCHANGED <<done, tried, faults>>
  <2> DEFINE d == [pending.disp[i] EXCEPT !.confirm = w, !.live = TRUE]
             c == [rest EXCEPT !.at = "poll", !.id = i]
  <2>1. GoodRecord(pending, known, ext) /\ i \in DOMAIN pending.disp
    BY Zenon, <1>0, <1>3, RecordsOf DEF IInv, WorkInv, WorksOn, Working
  <2>2. pending.disp[i] \in Disposition
    BY Zenon, <2>1 DEF GoodRecord, GoodDisposition
  <2>3. d.state = pending.disp[i].state /\ d.attempts = pending.disp[i].attempts
    BY Zenon, <2>2, TouchedParts
  <2>4. pending' = [pending EXCEPT !.disp[i] = d] /\ Goto(w, c)
    BY Zenon, <1>3
  <2>5. c.at = "poll" /\ c.late = slot[w].late
    <3> HIDE DEF rest
    <3>1. QED
      BY Zenon, <1>1 DEF Slots
  <2> HIDE DEF c, d, rest
  <2>6. Same(pending, pending')
    BY Zenon, <2>1, <2>3, <2>4, TouchedSame
  <2>7. pending' # None
    <3>1. w # None
      BY Zenon, CancelAssumption
    <3>2. slot'[w] = c
      BY Zenon, <2>4 DEF Goto, IInv, SlotsInv
    <3>3. QED
      BY Zenon, <1>3, <2>5, <3>2 DEF IInv, WorkInv, WorksOn, Working
  <2>8. Kept /\ FlagsInv'
    BY Zenon, <1>0, <1>3, <2>6, <2>7 DEF Kept, JInv, FlagsInv
  <2>9. /\ slot[w].at # "cancel" /\ slot[w].at \notin Calling
        /\ c.at \notin Calling /\ c.at \in Claiming /\ c.at \notin Scanned
    BY Zenon, <1>0, <2>5 DEF Calling, Claiming, Scanned
  <2>10. QED
    BY Zenon, <1>0, <1>3, <2>4, <2>8, <2>9, MoveKeeps
<1>4. QED
  BY Zenon, <1>2, <1>3 DEF ClaimConfirmation, Undecided

(* claim_scheduler_cancel_attempt: one call more to be made, and one attempt *)
(* more to be recorded.                                                      *)
LEMMA ClaimAttemptKeeps ==
    ASSUME Counting, IInv, IInv', JInv, NEW w \in Workers, NEW i \in Ids, ClaimAttempt(w, i)
    PROVE  JInv' /\ KeepsProof
<1> DEFINE rest == [slot[w] EXCEPT !.attempts = @ \ {i}]
<1>0. /\ slot[w].at = "work" /\ i \in slot[w].attempts /\ slot[w] \in Slots
      /\ UNCHANGED <<known, ext, calls, timedOut, requests>>
  BY Zenon, SlotFacts DEF ClaimAttempt, At
<1>1. rest.at = "work" /\ rest.late = slot[w].late /\ rest \in Slots
  BY Zenon, <1>0, RestSlots
<1>2. CASE \/ Overtaken(w, rest) \/ Raise(w)
           \/ Goto(w, rest) /\ UNCHANGED <<pending, done, tried, faults>>
  <2> HIDE DEF rest
  <2>1. QED
    BY Zenon, <1>0, <1>1, <1>2, NotClaimedKeeps
<1>3. CASE /\ done = None /\ pending # None /\ MayAttempt(i)
           /\ pending' = [pending EXCEPT !.disp[i] = [@ EXCEPT !.claim = w, !.live = TRUE]]
           /\ Goto(w, [rest EXCEPT !.at = "cancel", !.id = i])
           /\ UNCHANGED <<done, tried, faults>>
  <2> DEFINE d == [pending.disp[i] EXCEPT !.claim = w, !.live = TRUE]
             c == [rest EXCEPT !.at = "cancel", !.id = i]
  <2>1. GoodRecord(pending, known, ext) /\ i \in DOMAIN pending.disp
    BY Zenon, <1>0, <1>3, RecordsOf DEF IInv, WorkInv, WorksOn, Working
  <2>2. pending.disp[i] \in Disposition
    BY Zenon, <2>1 DEF GoodRecord, GoodDisposition
  <2>3. d.state = pending.disp[i].state /\ d.attempts = pending.disp[i].attempts
    BY Zenon, <2>2, TouchedParts
  <2>4. pending' = [pending EXCEPT !.disp[i] = d] /\ Goto(w, c)
    BY Zenon, <1>3
  <2>5. c.at = "cancel" /\ c.late = slot[w].late /\ c.id = i
    <3> HIDE DEF rest
    <3>1. QED
      BY Zenon, <1>1 DEF Slots
  <2> HIDE DEF c, d, rest
  <2>6. Same(pending, pending')
    BY Zenon, <2>1, <2>3, <2>4, TouchedSame
  <2>7. /\ slot'[w] = c /\ \A v \in Workers : v # w => slot'[v] = slot[v]
    BY Zenon, <2>4 DEF Goto, IInv, SlotsInv
  <2>8. pending' # None
    BY Zenon, <1>3, <2>5, <2>7 DEF IInv, WorkInv, WorksOn, Working
  <2>9. Kept /\ FlagsInv'
    BY Zenon, <1>0, <1>3, <2>6, <2>8 DEF Kept, JInv, FlagsInv
  <2>10. /\ FilesInv' /\ KeepsProof
         /\ \A k : Spent(pending', k) = Spent(pending, k)
    BY Zenon, <1>3, <2>9, KeptFacts DEF JInv
  <2>11. ~ slot[w].late
    BY Zenon, <1>0 DEF JInv, LateInv, Claiming
  <2>12. LateInv' /\ LeftInv'
    BY Zenon, <1>3, <2>5, <2>7, <2>11 DEF JInv, LateInv, LeftInv
  <2>13. BudgetInv'
    <3>1. ASSUME NEW k \in Ids, k # i
          PROVE  /\ Callers(slot', k) = Callers(slot, k)
                 /\ OnTime(slot', k) <=> OnTime(slot, k)
      <4>1. slot[w].at # "cancel" /\ slot[w].at \notin Calling
        BY Zenon, <1>0 DEF Calling
      <4>2. /\ Callers(slot', k) \subseteq Callers(slot, k)
            /\ Callers(slot, k) \subseteq Callers(slot', k)
        BY Zenon, <2>5, <2>7, <3>1, <4>1 DEF Callers
      <4>3. OnTime(slot', k) <=> OnTime(slot, k)
        BY Zenon, <2>5, <2>7, <3>1, <4>1 DEF OnTime
      <4>4. QED
        BY Zenon, <4>2, <4>3
    <3>2. ASSUME NEW k \in Ids, k # i
          PROVE  /\ IsFiniteSet(Callers(slot', k))
                 /\ Debt(calls', slot', k) <= Credit(slot', pending', k) + faults'
      <4>1. /\ IsFiniteSet(Callers(slot, k))
            /\ Debt(calls, slot, k) <= Credit(slot, pending, k) + faults
        BY Zenon, <1>3 DEF JInv, BudgetInv
      <4>2. /\ Debt(calls', slot', k) = Debt(calls, slot, k)
            /\ Credit(slot', pending', k) = Credit(slot, pending, k)
        BY Zenon, <1>0, <2>10, <3>1, <3>2 DEF Debt, Credit
      <4>3. QED
        BY Zenon, <1>3, <3>1, <3>2, <4>1, <4>2
    <3>3. /\ IsFiniteSet(Callers(slot', i))
          /\ Debt(calls', slot', i) <= Credit(slot', pending', i) + faults'
      <4>0. /\ IsFiniteSet(Callers(slot, i))
            /\ Debt(calls, slot, i) <= Credit(slot, pending, i) + faults
        BY Zenon, <1>3 DEF JInv, BudgetInv
      <4>1. Callers(slot', i) = Callers(slot, i) \cup {w}
        <5>1. \A v \in Workers : (slot'[v].at = "cancel" /\ slot'[v].id = i)
                                    <=> (slot[v].at = "cancel" /\ slot[v].id = i) \/ v = w
          BY Zenon, <2>5, <2>7
        <5>2. QED
          BY Zenon, <5>1 DEF Callers
      <4>2. w \notin Callers(slot, i)
        BY Zenon, <1>0 DEF Callers
      <4>3. /\ IsFiniteSet(Callers(slot', i))
            /\ Cardinality(Callers(slot', i)) = Cardinality(Callers(slot, i)) + 1
            /\ Cardinality(Callers(slot, i)) \in Nat
        BY <4>0, <4>1, <4>2 DEF Counting
      <4>4. ~ OnTime(slot, i)
        <5>1. SUFFICES ASSUME NEW v \in Workers, slot[v].at \in Calling, slot[v].id = i,
                              ~ slot[v].late
                       PROVE  FALSE
          BY Zenon DEF OnTime
        <5>2. pending.disp[slot[v].id].live
          BY Zenon, <1>3, <5>1 DEF IInv, ClaimsInv, HoldsClaim
        <5>3. QED
          BY Zenon, <1>3, <5>1, <5>2 DEF MayAttempt
      <4>5. OnTime(slot', i)
        BY Zenon, <2>5, <2>7, <2>11 DEF OnTime, Calling
      <4>6. /\ Credit(slot, pending, i) = Spent(pending, i)
            /\ Credit(slot', pending', i) = Spent(pending, i) + 1
        BY Zenon, <2>10, <4>4, <4>5 DEF Credit
      <4>7. Spent(pending, i) \in Nat
        BY <2>1, SpentType
      <4>8. calls[i] \in Nat /\ faults \in Nat /\ calls' = calls /\ faults' = faults
        BY <1>0, <1>3, CancelAssumption DEF IInv, WorldInv, JInv, FlagsInv
      <4>9. Debt(calls', slot', i) = Debt(calls, slot, i) + 1 /\ Debt(calls, slot, i) \in Nat
        BY <4>3, <4>8 DEF Debt
      <4>10. QED
        BY <4>0, <4>3, <4>6, <4>7, <4>8, <4>9
    <3>4. QED
      BY Zenon, <1>3, <3>2, <3>3 DEF BudgetInv, Debt
  <2>14. QED
    BY Zenon, <2>9, <2>10, <2>12, <2>13 DEF JInv
<1>4. QED
  BY Zenon, <1>2, <1>3 DEF ClaimAttempt, Undecided

(* provider.cancel: a call that was to be made is made. *)
LEMMA ProviderCancelKeeps ==
    ASSUME Counting, IInv, IInv', JInv, NEW w \in Workers, ProviderCancel(w)
    PROVE  JInv' /\ KeepsProof
<1> DEFINE i == slot[w].id
<1>0. /\ i \in Ids /\ slot[w] \in Slots /\ slot[w].at = "cancel"
      /\ UNCHANGED <<pending, done, tried, timedOut, faults, requests>>
      /\ calls' = [calls EXCEPT ![i] = @ + 1]
  BY Zenon, SlotFacts DEF ProviderCancel, At, GoodSlot
<1>1. PICK a \in {"accepted", "failed"} :
        Goto(w, [slot[w] EXCEPT !.at = "answered", !.answer = a])
  BY Zenon DEF ProviderCancel
<1> DEFINE s == [slot[w] EXCEPT !.at = "answered", !.answer = a]
<1>2. s.at = "answered" /\ s.id = i /\ s.late = slot[w].late
  BY Zenon, <1>0 DEF Slots
<1>3. slot'[w] = s /\ \A v \in Workers : v # w => slot'[v] = slot[v]
  BY Zenon, <1>1 DEF Goto, IInv, SlotsInv
<1>4. i = slot[w].id
  BY Zenon
<1> HIDE DEF s, i
<1>5. Kept /\ FlagsInv'
  BY Zenon, <1>0 DEF Kept, JInv, FlagsInv
<1>6. FilesInv' /\ KeepsProof
  BY Zenon, <1>0, <1>5, KeptFacts DEF JInv
<1>7. LateInv'
  BY Zenon, <1>2, <1>3 DEF JInv, LateInv, Claiming
<1>8. LeftInv'
  <2>1. s.at \notin Scanned
    BY Zenon, <1>2 DEF Scanned
  <2>2. QED
    BY Zenon, <1>0, <1>3, <2>1 DEF JInv, LeftInv, Agrees
<1>9. ASSUME NEW k \in Ids
      PROVE  /\ IsFiniteSet(Callers(slot', k))
             /\ Debt(calls', slot', k) <= Debt(calls, slot, k)
             /\ Credit(slot', pending', k) = Credit(slot, pending, k)
  <2>1. OnTime(slot', k) <=> OnTime(slot, k)
    <3>1. \A v \in Workers : /\ slot'[v].at \in Calling <=> slot[v].at \in Calling
                             /\ slot'[v].id = slot[v].id /\ slot'[v].late = slot[v].late
      BY Zenon, <1>0, <1>2, <1>3, <1>4 DEF Calling
    <3>2. QED
      BY Zenon, <3>1 DEF OnTime
  <2>2. Credit(slot', pending', k) = Credit(slot, pending, k)
    BY Zenon, <1>0, <2>1 DEF Credit
  <2>3. IsFiniteSet(Callers(slot, k)) /\ calls \in [Ids -> Nat]
    BY Zenon DEF JInv, BudgetInv, IInv, WorldInv
  <2>4. CASE k = i
    <3>1. Callers(slot', k) = Callers(slot, k) \ {w}
      <4>1. \A v \in Workers : (slot'[v].at = "cancel" /\ slot'[v].id = k)
                                  <=> (slot[v].at = "cancel" /\ slot[v].id = k) /\ v # w
        BY Zenon, <1>2, <1>3
      <4>2. QED
        BY Zenon, <4>1 DEF Callers
    <3>2. w \in Callers(slot, k)
      BY Zenon, <1>0, <1>4, <2>4 DEF Callers
    <3>3. /\ IsFiniteSet(Callers(slot', k))
          /\ Cardinality(Callers(slot', k)) = Cardinality(Callers(slot, k)) - 1
          /\ Cardinality(Callers(slot, k)) \in Nat
      BY <2>3, <3>1, <3>2 DEF Counting
    <3>4. calls'[k] = calls[k] + 1 /\ calls[k] \in Nat
      BY <1>0, <2>3, <2>4
    <3>5. Debt(calls', slot', k) <= Debt(calls, slot, k)
      BY <3>3, <3>4 DEF Debt
    <3>6. QED
      BY Zenon, <2>2, <3>3, <3>5
  <2>5. CASE k # i
    <3>1. Callers(slot', k) = Callers(slot, k)
      <4>1. \A v \in Workers : (slot'[v].at = "cancel" /\ slot'[v].id = k)
                                  <=> (slot[v].at = "cancel" /\ slot[v].id = k)
        BY Zenon, <1>2, <1>3, <1>4, <2>5
      <4>2. QED
        BY Zenon, <4>1 DEF Callers
    <3>2. calls'[k] = calls[k]
      BY Zenon, <1>0, <2>3, <2>5
    <3>3. Debt(calls', slot', k) = Debt(calls, slot, k) /\ Debt(calls, slot, k) \in Nat
      BY Zenon, <2>3, <3>1, <3>2, DebtType DEF Debt
    <3>4. Debt(calls', slot', k) <= Debt(calls, slot, k)
      BY <3>3
    <3>5. QED
      BY Zenon, <2>2, <2>3, <3>1, <3>4
  <2>6. QED
    BY Zenon, <2>4, <2>5
<1>10. BudgetInv'
  <2>1. faults \in Nat /\ faults' = faults /\ faults <= faults'
    BY <1>0, CancelAssumption DEF JInv, FlagsInv
  <2>2. ASSUME NEW k \in Ids
        PROVE  Credit(slot, pending, k) + faults <= Credit(slot', pending', k) + faults'
    <3>1. Credit(slot, pending, k) \in Nat
      BY RecordsOf, SpentType
    <3>2. QED
      BY <1>9, <2>1, <3>1
  <2>3. QED
    BY Zenon, <1>0, <1>9, <2>1, <2>2, BudgetStep DEF JInv
<1>11. QED
  BY Zenon, <1>5, <1>6, <1>7, <1>8, <1>10 DEF JInv

(* Where a slot goes back to. *)
LEMMA BackParts ==
    ASSUME IInv, NEW w \in Workers, NEW C
    PROVE  /\ Back(w).at = "work" /\ ~ Back(w).late /\ Back(w).confirms = slot[w].confirms
           /\ [Back(w) EXCEPT !.confirms = C].at = "work"
           /\ ~ [Back(w) EXCEPT !.confirms = C].late
<1> DEFINE b == Back(w)
<1>1. slot[w] \in Slots
  BY Zenon, SlotFacts
<1>2. b \in Slots
  BY Zenon, <1>1 DEF Back, Slots
<1>3. b.at = "work" /\ ~ b.late /\ b.confirms = slot[w].confirms
  BY Zenon, <1>1 DEF Back, Slots
<1> HIDE DEF b
<1>4. [b EXCEPT !.confirms = C].at = "work" /\ ~ [b EXCEPT !.confirms = C].late
  BY Zenon, <1>2, <1>3 DEF Slots
<1>5. QED
  BY Zenon, <1>3, <1>4 DEF b

(* record_scheduler_cancel_attempt counts the attempt and leaves one to be   *)
(* made only within the limit.                                               *)
LEMMA AttemptedParts ==
    ASSUME NEW d \in Disposition, InBudget(d), d.state \in Open,
           NEW a \in {"accepted", "failed"}
    PROVE  /\ Attempted(d, a).attempts = d.attempts + 1
           /\ InBudget(Attempted(d, a))
           /\ Attempted(d, a).state \in {"cancel_requested", "exhausted", "retry_wait"}
<1> DEFINE x == CASE a = "accepted" -> "cancel_requested"
                  [] a # "accepted" /\ d.attempts + 1 >= MaxAttempts -> "exhausted"
                  [] OTHER -> "retry_wait"
           q == [d EXCEPT !.state = x, !.attempts = d.attempts + 1,
                         !.due = (a = "accepted"), !.claim = None, !.live = FALSE]
<1>1. /\ d.attempts \in Nat /\ MaxAttempts \in Nat /\ d.attempts < MaxAttempts
  BY Zenon, CancelAssumption DEF Disposition, InBudget
<1>2. /\ x \in {"cancel_requested", "exhausted", "retry_wait"}
      /\ x = "retry_wait" => ~ (d.attempts + 1 >= MaxAttempts)
  BY Zenon
<1>3. q = Attempted(d, a)
  BY Zenon DEF Attempted
<1>4. q.state = x /\ q.attempts = d.attempts + 1
  <2> HIDE DEF x
  <2>1. QED
    BY Zenon DEF Disposition
<1> HIDE DEF x, q
<1>5. d.attempts + 1 <= MaxAttempts
  BY <1>1
<1>6. x \in Open \cup {"refused"} => d.attempts + 1 < MaxAttempts
  <2>1. x \in Open \cup {"refused"} => x = "retry_wait"
    BY Zenon, <1>2 DEF Open
  <2>2. ~ (d.attempts + 1 >= MaxAttempts) => d.attempts + 1 < MaxAttempts
    BY <1>1
  <2>3. QED
    BY Zenon, <1>2, <2>1, <2>2
<1>7. QED
  BY Zenon, <1>2, <1>3, <1>4, <1>5, <1>6 DEF InBudget

(* record_scheduler_cancel_observation counts no attempt and reopens nothing. *)
LEMMA ConfirmedParts ==
    ASSUME NEW d \in Disposition, InBudget(d),
           NEW a \in {"unknown", "running", "canceled", "terminal", "not_found"}
    PROVE  Confirmed(d, a).attempts = d.attempts /\ InBudget(Confirmed(d, a))
<1> DEFINE x == CASE a \in {"canceled", "terminal", "not_found"} -> a
                  [] /\ a \in {"unknown", "running"}
                      /\ d.confirmations + 1 >= MaxConfirmations -> "exhausted"
                  [] OTHER -> "cancel_requested"
           q == [d EXCEPT !.state = x, !.confirmations = d.confirmations + 1,
                         !.due = FALSE, !.confirm = None, !.live = FALSE]
<1>1. x \in {"canceled", "terminal", "not_found", "exhausted", "cancel_requested"}
  BY Zenon
<1>2. q = Confirmed(d, a)
  BY Zenon DEF Confirmed
<1>3. q.state = x /\ q.attempts = d.attempts
  <2> HIDE DEF x
  <2>1. QED
    BY Zenon DEF Disposition
<1> HIDE DEF x, q
<1>4. x \notin Open \cup {"refused"}
  BY Zenon, <1>1 DEF Open
<1>5. QED
  BY Zenon, <1>2, <1>3, <1>4 DEF InBudget

(* An answer is recorded over the slot's own claim. *)
LEMMA RecordKeeps ==
    ASSUME Counting, IInv, IInv', JInv, NEW w \in Workers, slot[w].at \in {"answered", "polled"},
           NEW i \in Ids, i = slot[w].id, NEW d, NEW s,
           pending # None, done = None, i \in DOMAIN pending.disp,
           GoodDisposition(d, i, known, ext), InBudget(d),
           pending.disp[i].state \in Open \cup {"cancel_requested"},
           Save(w, [pending EXCEPT !.disp[i] = d], s),
           UNCHANGED <<calls, timedOut, requests>>,
           s.at = "work", ~ s.late,
           \/ d.attempts = pending.disp[i].attempts /\ slot[w].at = "polled"
           \/ d.attempts = pending.disp[i].attempts + 1
    PROVE  JInv' /\ KeepsProof
<1> DEFINE r == [pending EXCEPT !.disp[i] = d]
<1>1. GoodRecord(pending, known, ext) /\ Unfinished(pending)
  BY Zenon, RecordsOf DEF JInv, FilesInv
<1>2. GoodRecord(r, known, ext)
  BY <1>1, DispositionReplaced
<1>3. /\ r.resolution = pending.resolution
      /\ DOMAIN r.disp = DOMAIN pending.disp
      /\ r.disp[i] = d
      /\ \A k \in DOMAIN pending.disp : k # i => r.disp[k] = pending.disp[k]
  BY <1>1, ReplacedParts
<1>4. Save(w, r, s)
  BY Zenon
<1> HIDE DEF r
<1>5. r # None
  BY Zenon, <1>2, RecordIsSome
<1>6. /\ slot[w].at # "cancel" /\ s.at \notin Calling /\ s.at \notin Scanned
      /\ slot[w].at \in Calling => slot[w].at # "polled"
  BY Zenon DEF Calling, Scanned
<1>7. Complete(r) \/ Unfinished(r)
  BY Zenon, <1>1, <1>3 DEF Unfinished
<1>8. pending.disp[i].state \notin Decided
  BY Zenon DEF Open, Decided
<1>9. Agrees(pending, r)
  BY Zenon, <1>3, <1>8 DEF Agrees
<1>10. \A k \in DOMAIN pending.disp : pending.disp[k].attempts \in Nat
  BY Zenon, <1>1 DEF GoodRecord, GoodDisposition, Disposition
<1>11. Spends(pending, r)
  <2>1. ASSUME NEW k \in DOMAIN pending.disp PROVE pending.disp[k].attempts <= r.disp[k].attempts
    <3>1. pending.disp[k].attempts \in Nat
      BY Zenon, <1>10
    <3>2. \/ r.disp[k].attempts = pending.disp[k].attempts
          \/ r.disp[k].attempts = pending.disp[k].attempts + 1
      BY Zenon, <1>3
    <3>3. QED
      BY <3>1, <3>2
  <2>2. QED
    BY Zenon, <1>3, <2>1 DEF Spends
<1>12. slot[w].at \in Calling => pending.disp[i].attempts + 1 <= r.disp[i].attempts
  <2>1. slot[w].at \in Calling => r.disp[i].attempts = pending.disp[i].attempts + 1
    BY Zenon, <1>3, <1>6
  <2>2. pending.disp[i].attempts \in Nat
    BY Zenon, <1>10
  <2>3. QED
    BY <2>1, <2>2
<1>13. QED
  BY Zenon, <1>2, <1>4, <1>5, <1>6, <1>7, <1>9, <1>11, <1>12, SaveKeeps

(* A slot whose claim is gone, or whose record was completed, drops its      *)
(* answer.                                                                   *)
LEMMA DropKeeps ==
    ASSUME IInv, IInv', JInv, NEW w \in Workers, slot[w].at \in {"answered", "polled"},
           UNCHANGED <<calls, timedOut, requests>>,
           \/ Overtaken(w, Back(w))
           \/ /\ Goto(w, Back(w)) /\ UNCHANGED <<pending, done, tried, faults>>
              /\ slot[w].at = "answered" => slot[w].late
    PROVE  JInv' /\ KeepsProof
<1>1. /\ Goto(w, Back(w)) /\ UNCHANGED <<done, tried, faults>> /\ Kept
      /\ slot[w].at \notin Calling \/ slot[w].late \/ done # None
  BY Zenon DEF Overtaken, Kept, Calling
<1>2. Back(w).at = "work" /\ ~ Back(w).late
  BY Zenon, BackParts
<1>3. Back(w).at \notin Calling /\ Back(w).at \notin Scanned /\ slot[w].at # "cancel"
  BY Zenon, <1>2 DEF Calling, Scanned
<1>4. FlagsInv'
  BY Zenon, <1>1 DEF JInv, FlagsInv
<1>5. QED
  BY Zenon, <1>1, <1>2, <1>3, <1>4, MoveKeeps

(* record_scheduler_cancel_attempt *)
LEMMA RecordAttemptKeeps ==
    ASSUME Counting, IInv, IInv', JInv, NEW w \in Workers, RecordAttempt(w)
    PROVE  JInv' /\ KeepsProof
<1> DEFINE i == slot[w].id
           C == IF slot[w].answer = "accepted" THEN slot[w].confirms \cup {i} ELSE slot[w].confirms
           s == [Back(w) EXCEPT !.confirms = C]
<1>0. /\ slot[w].at = "answered" /\ i \in Ids /\ slot[w].answer \in {"accepted", "failed"}
      /\ UNCHANGED <<known, ext, calls, timedOut, requests>>
  BY Zenon, SlotFacts DEF RecordAttempt, At, GoodSlot
<1>1. done = None => pending # None /\ i \in DOMAIN pending.disp
  BY Zenon, <1>0 DEF IInv, WorkInv, WorksOn, Working
<1>2. CASE Overtaken(w, Back(w))
  BY Zenon, <1>0, <1>2, DropKeeps
<1>3. CASE /\ done = None /\ pending.disp[i].claim # w
           /\ Goto(w, Back(w)) /\ UNCHANGED <<pending, done, tried, faults>>
  <2>1. slot[w].late
    BY Zenon, <1>0, <1>3 DEF IInv, ClaimsInv, HoldsClaim, Calling
  <2>2. QED
    BY Zenon, <1>0, <1>3, <2>1, DropKeeps
<1>4. CASE /\ done = None /\ pending.disp[i].claim = w
           /\ Save(w, [pending EXCEPT !.disp[i] = Attempted(@, slot[w].answer)], s)
  <2> DEFINE d == Attempted(pending.disp[i], slot[w].answer)
  <2>1. /\ GoodDisposition(pending.disp[i], i, known, ext) /\ pending.disp[i].claim # None
        /\ InBudget(pending.disp[i])
    BY Zenon, <1>1, <1>4, RecordsOf, CancelAssumption
       DEF GoodRecord, JInv, FilesInv, Unfinished
  <2>2. pending.disp[i].state \in Open /\ pending.disp[i] \in Disposition
    BY Zenon, <2>1 DEF GoodDisposition
  <2>3. GoodDisposition(d, i, known, ext)
    BY Zenon, <1>0, <2>1, AttemptedGood
  <2>4. d.attempts = pending.disp[i].attempts + 1 /\ InBudget(d)
    BY Zenon, <1>0, <2>1, <2>2, AttemptedParts
  <2>5. Save(w, [pending EXCEPT !.disp[i] = d], s)
    BY Zenon, <1>4
  <2>6. s.at = "work" /\ ~ s.late
    <3> HIDE DEF C
    <3>1. QED
      BY Zenon, BackParts
  <2>7. i = slot[w].id /\ pending.disp[i].state \in Open \cup {"cancel_requested"}
    BY Zenon, <2>2
  <2> HIDE DEF d, s, i
  <2>8. QED
    BY Zenon, <1>0, <1>1, <1>4, <2>3, <2>4, <2>5, <2>6, <2>7, RecordKeeps
<1>5. Back(w).confirms = slot[w].confirms
  BY Zenon, BackParts
<1>6. QED
  BY Zenon, <1>1, <1>2, <1>3, <1>4, <1>5 DEF RecordAttempt, Undecided

(* provider.poll and record_scheduler_cancel_observation *)
LEMMA ObservationKeeps ==
    ASSUME Counting, IInv, IInv', JInv, NEW w \in Workers, ProviderPoll(w) \/ RecordObservation(w)
    PROVE  JInv' /\ KeepsProof
<1> DEFINE i == slot[w].id
           a == slot[w].answer
<1>0. /\ UNCHANGED <<known, calls, timedOut, requests, ext>> /\ slot[w] \in Slots
  BY Zenon, SlotFacts DEF ProviderPoll, RecordObservation
<1>1. CASE ProviderPoll(w)
  <2>1. PICK b : Goto(w, [slot[w] EXCEPT !.at = "polled", !.answer = b])
    BY Zenon, <1>1 DEF ProviderPoll
  <2> DEFINE s == [slot[w] EXCEPT !.at = "polled", !.answer = b]
  <2>2. s.at = "polled" /\ Goto(w, s)
    BY Zenon, <1>0, <2>1 DEF Slots
  <2> HIDE DEF s
  <2>3. s.at \notin Calling /\ s.at \in Claiming /\ s.at \notin Scanned
    BY Zenon, <2>2 DEF Calling, Claiming, Scanned
  <2>4. slot[w].at # "cancel" /\ slot[w].at \notin Calling
    BY Zenon, <1>1 DEF ProviderPoll, At, Calling
  <2>5. UNCHANGED <<done, faults>> /\ Kept /\ FlagsInv'
    BY Zenon, <1>1 DEF ProviderPoll, Kept, JInv, FlagsInv
  <2>6. QED
    BY Zenon, <1>0, <2>2, <2>3, <2>4, <2>5, MoveKeeps
<1>2. CASE RecordObservation(w)
  <2>0. /\ slot[w].at = "polled" /\ i \in Ids
        /\ a \in {"unknown", "running", "canceled", "terminal", "not_found"}
        /\ a = "canceled" => ext[i] = "canceled"
        /\ a = "terminal" => ext[i] = "ended"
        /\ a = "not_found" => ext[i] \in Gone
    BY Zenon, <1>2, SlotFacts DEF RecordObservation, At, GoodSlot
  <2>1. done = None => pending # None /\ i \in DOMAIN pending.disp
    BY Zenon, <2>0 DEF IInv, WorkInv, WorksOn, Working
  <2>2. CASE Overtaken(w, Back(w))
    BY Zenon, <1>0, <2>0, <2>2, DropKeeps
  <2>3. CASE Goto(w, Back(w)) /\ UNCHANGED <<pending, done, tried, faults>>
    BY Zenon, <1>0, <2>0, <2>3, DropKeeps
  <2>4. CASE /\ done = None /\ pending.disp[i].confirm = w
             /\ Save(w, [pending EXCEPT !.disp[i] = Confirmed(@, a)], Back(w))
    <3> DEFINE d == Confirmed(pending.disp[i], a)
    <3>1. /\ GoodDisposition(pending.disp[i], i, known, ext) /\ pending.disp[i].confirm # None
          /\ InBudget(pending.disp[i])
      BY Zenon, <2>1, <2>4, RecordsOf, CancelAssumption
         DEF GoodRecord, JInv, FilesInv, Unfinished
    <3>2. /\ pending.disp[i].state \in Open \cup {"cancel_requested"}
          /\ pending.disp[i] \in Disposition
      BY Zenon, <3>1 DEF GoodDisposition
    <3>3. GoodDisposition(d, i, known, ext)
      BY Zenon, <2>0, <3>1, ConfirmedGood
    <3>4. d.attempts = pending.disp[i].attempts /\ InBudget(d)
      BY Zenon, <2>0, <3>1, <3>2, ConfirmedParts
    <3>5. Save(w, [pending EXCEPT !.disp[i] = d], Back(w)) /\ i = slot[w].id
      BY Zenon, <2>4
    <3>6. Back(w).at = "work" /\ ~ Back(w).late
      BY Zenon, BackParts
    <3> HIDE DEF d, i, a
    <3>7. QED
      BY Zenon, <1>0, <2>0, <2>1, <2>4, <3>2, <3>3, <3>4, <3>5, <3>6, RecordKeeps
  <2>5. QED
    BY Zenon, <1>2, <2>1, <2>2, <2>3, <2>4 DEF RecordObservation, Undecided
<1>3. QED
  BY Zenon, <1>1, <1>2

-----------------------------------------------------------------------------
(* Time and crashes                                                          *)

(* A claim's lease ends: at most one slot works under it, and the fault pays *)
(* for the attempt that it may not record.                                   *)
LEMMA LeaseEndsKeeps ==
    ASSUME Counting, IInv, IInv', JInv, NEW i \in Ids, LeaseEnds(i)
    PROVE  JInv' /\ KeepsProof
<1> DEFINE d == [pending.disp[i] EXCEPT !.live = FALSE]
           C == Claimants(pending.disp[i], i)
<1>1. /\ pending # None /\ i \in DOMAIN pending.disp
      /\ pending' = [pending EXCEPT !.disp[i] = d]
      /\ slot' = [w \in Workers |-> IF w \in C THEN [slot[w] EXCEPT !.late = TRUE] ELSE slot[w]]
      /\ C # {} => faults < MaxFaults
      /\ faults' = IF C = {} THEN faults ELSE faults + 1
      /\ UNCHANGED <<known, done, ext, tried, timedOut, calls, requests>>
  BY Zenon DEF LeaseEnds
<1>2. GoodRecord(pending, known, ext) /\ pending.disp[i] \in Disposition
  BY Zenon, <1>1, RecordsOf DEF GoodRecord, GoodDisposition
<1>3. d.state = pending.disp[i].state /\ d.attempts = pending.disp[i].attempts
  BY Zenon, <1>2, TouchedParts
<1>4. GoodDisposition(d, i, known, ext)
  <2>1. GoodDisposition(pending.disp[i], i, known, ext) /\ Runner \in Workers
    BY Zenon, <1>1, <1>2, CancelAssumption DEF GoodRecord
  <2>2. QED
    BY Zenon, <2>1, DispositionTouched
<1>c. C = {} \/ \E w \in Workers : w \in C
  BY Zenon DEF Claimants
<1>d. \A w \in C : slot[w].at \in Claiming
  BY Zenon DEF Claimants, Claiming
<1> HIDE DEF d, C
<1>5. Kept
  <2>1. GoodRecord(pending', known, ext)
    BY <1>1, <1>2, <1>4, DispositionReplaced
  <2>2. pending' # None
    BY Zenon, <2>1, RecordIsSome
  <2>3. Same(pending, pending')
    BY Zenon, <1>1, <1>2, <1>3, TouchedSame
  <2>4. QED
    BY Zenon, <1>1, <2>2, <2>3 DEF Kept
<1>6. /\ FilesInv' /\ KeepsProof
      /\ done' # None /\ pending' # None => pending # None /\ Agrees(pending', done')
      /\ done' = None => \A k : Spent(pending', k) = Spent(pending, k)
  BY Zenon, <1>1, <1>5, KeptFacts DEF JInv
<1>7. ASSUME NEW w \in Workers
      PROVE  /\ slot'[w].at = slot[w].at /\ slot'[w].id = slot[w].id
             /\ w \notin C => slot'[w].late = slot[w].late
  <2>1. slot[w] \in Slots
    BY Zenon, SlotFacts
  <2>2. CASE w \in C
    <3>1. slot'[w] = [slot[w] EXCEPT !.late = TRUE]
      BY Zenon, <1>1, <2>2
    <3>2. QED
      BY Zenon, <2>1, <2>2, <3>1 DEF Slots
  <2>3. CASE w \notin C
    BY Zenon, <1>1, <2>3
  <2>4. QED
    BY Zenon, <2>2, <2>3
<1>8. LateInv'
  BY Zenon, <1>7, <1>d DEF JInv, LateInv
<1>9. LeftInv'
  BY Zenon, <1>1, <1>6, <1>7 DEF JInv, LeftInv, Agrees
<1>10. /\ faults \in Nat /\ faults' \in 0..MaxFaults /\ faults' \in Nat /\ faults <= faults'
       /\ C # {} => faults' = faults + 1
       /\ C = {} => faults' = faults
  <2>1. MaxFaults \in Nat /\ faults \in 0..MaxFaults
    BY Zenon, CancelAssumption DEF JInv, FlagsInv
  <2>2. QED
    BY <1>1, <2>1
<1>11. FlagsInv'
  BY Zenon, <1>1, <1>10 DEF JInv, FlagsInv
<1>12. ASSUME NEW k \in Ids
       PROVE  /\ IsFiniteSet(Callers(slot', k))
              /\ Debt(calls', slot', k) <= Debt(calls, slot, k)
              /\ done' = None =>
                    Credit(slot, pending, k) + faults <= Credit(slot', pending', k) + faults'
  <2>1. Callers(slot', k) = Callers(slot, k)
    BY Zenon, <1>7 DEF Callers
  <2>2. IsFiniteSet(Callers(slot, k)) /\ calls \in [Ids -> Nat]
    BY Zenon DEF JInv, BudgetInv, IInv, WorldInv
  <2>3. Debt(calls', slot', k) = Debt(calls, slot, k) /\ Debt(calls, slot, k) \in Nat
    BY Zenon, <1>1, <2>1, <2>2, DebtType DEF Debt
  <2>4. ASSUME done' = None
        PROVE  Credit(slot, pending, k) + faults <= Credit(slot', pending', k) + faults'
    <3>1. /\ Spent(pending, k) \in Nat /\ Spent(pending', k) = Spent(pending, k)
          /\ Credit(slot, pending, k) \in Nat /\ Credit(slot, pending, k) <= Spent(pending, k) + 1
          /\ Credit(slot', pending', k) \in Nat /\ Spent(pending', k) <= Credit(slot', pending', k)
      <4>1. pending' = None \/ GoodRecord(pending', known', ext')
        BY Zenon DEF IInv, RecordsInv
      <4>2. Spent(pending', k) = Spent(pending, k)
        BY Zenon, <1>6, <2>4
      <4>3. QED
        BY <1>2, <4>1, <4>2, SpentType
    <3>2. CASE C = {}
      <4>1. OnTime(slot', k) <=> OnTime(slot, k)
        <5>1. \A w \in Workers : w \notin C
          BY Zenon, <3>2
        <5>2. QED
          BY Zenon, <1>7, <5>1 DEF OnTime
      <4>2. Credit(slot', pending', k) = Credit(slot, pending, k)
        BY Zenon, <3>1, <4>1 DEF Credit
      <4>3. QED
        BY <1>10, <3>1, <3>2, <4>2
    <3>3. CASE C # {}
      BY <1>10, <3>1, <3>3
    <3>4. QED
      BY Zenon, <3>2, <3>3
  <2>5. QED
    BY <2>1, <2>2, <2>3, <2>4
<1>13. BudgetInv'
  BY Zenon, <1>1, <1>10, <1>12, BudgetStep DEF JInv
<1>14. QED
  BY Zenon, <1>6, <1>8, <1>9, <1>11, <1>13 DEF JInv

(* The process dies. *)
LEMMA CrashKeeps ==
    ASSUME Counting, IInv, IInv', JInv, Crash
    PROVE  JInv' /\ KeepsProof
<1>1. /\ faults < MaxFaults /\ faults' = faults + 1
      /\ slot' = [w \in Workers |-> Idle] /\ tried' = FALSE
      /\ UNCHANGED <<pending, done, calls, timedOut, requests>>
  BY Zenon DEF Crash
<1>2. Kept
  BY Zenon, <1>1 DEF Kept
<1>3. FilesInv' /\ KeepsProof
  BY Zenon, <1>1, <1>2, KeptFacts DEF JInv
<1>4. done' # None /\ pending # None => Agrees(pending, done')
  BY Zenon, <1>1 DEF JInv, LeftInv
<1>5. JInv'
  BY Zenon, <1>1, <1>3, <1>4, DieKeeps
<1>6. QED
  BY Zenon, <1>3, <1>5

-----------------------------------------------------------------------------
(* A step of the whole system keeps the second invariant, and what was       *)
(* decided.                                                                  *)
LEMMA NextKeeps ==
    ASSUME Counting, IInv, IInv', JInv, [Next]_vars
    PROVE  JInv' /\ KeepsProof
<1>1. ASSUME NEW w \in Workers, Step(w) PROVE JInv' /\ KeepsProof
  BY Zenon, <1>1, ScanKeeps, CloseKeeps, RegisterKeeps, FinalizeKeeps, ClaimAttemptKeeps,
     ClaimConfirmationKeeps, ProviderCancelKeeps, RecordAttemptKeeps, ObservationKeeps
     DEF Step
<1>2. ASSUME NEW i \in Ids, Discover(i) \/ BackoffEnds(i) \/ LeaseEnds(i) \/ SchedulerStops(i)
      PROVE  JInv' /\ KeepsProof
  BY Zenon, <1>2, OutsideKeeps, BackoffKeeps, LeaseEndsKeeps
<1>3. QED
  BY Zenon, <1>1, <1>2, CancelKeeps, OutsideKeeps, RunnerKeeps, CrashKeeps DEF Next

-----------------------------------------------------------------------------
(* The theorems                                                              *)
INSTANCE FiniteSetTheorems

(* Finite sets are counted as the lemmas above suppose.                      *)
LEMMA CountingFacts == Counting
<1>1. IsFiniteSet({}) /\ Cardinality({}) = 0
  BY FS_EmptySet
<1>2. ASSUME NEW S, IsFiniteSet(S) PROVE Cardinality(S) \in Nat
  BY <1>2, FS_CardinalityType
<1>3. ASSUME NEW S, NEW x, IsFiniteSet(S), x \notin S
      PROVE  IsFiniteSet(S \cup {x}) /\ Cardinality(S \cup {x}) = Cardinality(S) + 1
  BY <1>3, FS_AddElement
<1>4. ASSUME NEW S, NEW x, IsFiniteSet(S), x \in S
      PROVE  IsFiniteSet(S \ {x}) /\ Cardinality(S \ {x}) = Cardinality(S) - 1
  BY <1>4, FS_RemoveElement
<1>5. QED
  BY Zenon, <1>1, <1>2, <1>3, <1>4 DEF Counting

(* The pending file is unfinished and the completed one finished; a pending  *)
(* file beside a completed record agrees with it; and the calls of the       *)
(* scheduler are covered.                                                    *)
THEOREM CancelFilesAndBudget == Spec => []JInv
<1>1. Init => JInv
  <2> SUFFICES ASSUME Init PROVE JInv
    BY Zenon
  <2>1. slot = [w \in Workers |-> Idle] /\ pending = None /\ done = None
    BY Zenon DEF Init
  <2>2. \A w \in Workers : ~ slot[w].late
    BY Zenon, <2>1 DEF Idle
  <2>3. FlagsInv
    <3>1. MaxFaults \in Nat /\ MaxRequests \in Nat
      BY Zenon, CancelAssumption
    <3>2. 0 \in 0..MaxFaults /\ 0 \in 0..MaxRequests
      BY <3>1
    <3>3. QED
      BY Zenon, <3>2 DEF Init, FlagsInv
  <2>4. BudgetInv
    <3>1. SUFFICES ASSUME NEW i \in Ids
                   PROVE  /\ IsFiniteSet(Callers(slot, i))
                          /\ Debt(calls, slot, i) <= Credit(slot, pending, i) + faults
      BY Zenon, <2>1 DEF BudgetInv
    <3>2. Callers(slot, i) = {} /\ ~ OnTime(slot, i)
      BY Zenon, <2>1, NobodyCalls
    <3>3. IsFiniteSet(Callers(slot, i)) /\ Cardinality(Callers(slot, i)) = 0
      BY Zenon, <3>2, CountingFacts DEF Counting
    <3>4. calls[i] = 0 /\ faults = 0
      BY Zenon DEF Init
    <3>5. Spent(pending, i) = 0
      BY Zenon, <2>1 DEF Spent
    <3>6. Debt(calls, slot, i) = 0 /\ Credit(slot, pending, i) = 0
      BY <3>2, <3>3, <3>4, <3>5 DEF Debt, Credit
    <3>7. QED
      BY <3>3, <3>4, <3>6
  <2>5. QED
    BY Zenon, <2>1, <2>2, <2>3, <2>4 DEF JInv, FilesInv, LateInv, LeftInv
<1>2. IInv /\ IInv' /\ JInv /\ [Next]_vars => JInv'
  BY Zenon, NextKeeps, CountingFacts
<1>3. QED
  BY <1>1, <1>2, CancelInvariant, PTL DEF Spec

(* The variables keep their types, a pending record is not complete and a    *)
(* completed one is (TypeOK).                                                *)
THEOREM CancelTypes == Spec => []TypeOK
<1>1. IInv /\ JInv => TypeOK
  <2> SUFFICES ASSUME IInv, JInv PROVE TypeOK
    BY Zenon
  <2>1. slot \in [Workers -> Slots]
    <3>1. slot = [w \in Workers |-> slot[w]] /\ \A w \in Workers : slot[w] \in Slots
      BY Zenon DEF IInv, SlotsInv, GoodSlot
    <3>2. QED
      BY <3>1
  <2>2. \A r \in Records :
           /\ r.reason \in Reasons /\ r.resolution \in Resolutions
           /\ DOMAIN r.disp \subseteq Ids
           /\ \A i \in DOMAIN r.disp : r.disp[i] \in Disposition
    <3>1. SUFFICES ASSUME NEW r \in Records
                   PROVE  /\ r.reason \in Reasons /\ r.resolution \in Resolutions
                          /\ DOMAIN r.disp \subseteq Ids
                          /\ \A i \in DOMAIN r.disp : r.disp[i] \in Disposition
      BY Zenon
    <3>2. GoodRecord(r, known, ext)
      <4>1. r # None /\ (r = pending \/ r = done)
        BY DEF Records
      <4>2. /\ pending = None \/ GoodRecord(pending, known, ext)
            /\ done = None \/ GoodRecord(done, known, ext)
        BY Zenon DEF IInv, RecordsInv
      <4>3. QED
        BY <4>1, <4>2
    <3>3. QED
      BY Zenon, <3>2 DEF GoodRecord, GoodDisposition
  <2>3. QED
    BY Zenon, <2>1, <2>2
       DEF TypeOK, IInv, WorldInv, AskedInv, JInv, FilesInv, FlagsInv, Unfinished,
           Reasons, Resolutions
<1>2. QED
  BY <1>1, CancelInvariant, CancelFilesAndBudget, PTL

(* provider.cancel is called at most scheduler_cancel_max_attempts times for *)
(* a scheduler job, and once more for each crash or lease that ended,        *)
(* whatever the number of slots (CallsBudgeted).                             *)
THEOREM CancelCallsBudgeted == Spec => []CallsBudgeted
<1>1. IInv /\ JInv => CallsBudgeted
  <2> SUFFICES ASSUME IInv, JInv, NEW i \in Ids PROVE calls[i] <= MaxAttempts + faults
    BY Zenon DEF CallsBudgeted
  <2>1. /\ calls \in [Ids -> Nat] /\ MaxAttempts \in Nat /\ MaxFaults \in Nat
        /\ faults \in 0..MaxFaults /\ IsFiniteSet(Callers(slot, i))
        /\ pending = None \/ GoodRecord(pending, known, ext)
    BY Zenon, CancelAssumption, RecordsOf DEF IInv, WorldInv, JInv, FlagsInv, BudgetInv
  <2>2. calls[i] \in Nat /\ calls[i] <= Debt(calls, slot, i) /\ Debt(calls, slot, i) \in Nat
    <3>1. calls[i] \in Nat
      BY <2>1
    <3>2. QED
      BY Zenon, <2>1, <3>1, DebtType, CountingFacts
  <2>3. Debt(calls, slot, i) <= MaxAttempts + faults
    <3>1. CASE done # None
      BY Zenon, <3>1 DEF JInv, BudgetInv
    <3>2. CASE done = None
      <4>1. /\ Debt(calls, slot, i) <= Credit(slot, pending, i) + faults
            /\ Credit(slot, pending, i) <= MaxAttempts
        BY Zenon, <3>2, CreditBound DEF JInv, BudgetInv
      <4>2. Credit(slot, pending, i) \in Nat
        BY <2>1, SpentType
      <4>3. QED
        BY <2>1, <2>2, <4>1, <4>2
    <3>3. QED
      BY Zenon, <3>1, <3>2
  <2>4. QED
    BY <2>1, <2>2, <2>3
<1>2. QED
  BY <1>1, CancelInvariant, CancelFilesAndBudget, PTL

(* No step takes back what a completed record says of a scheduler job, also  *)
(* when a crash left the older pending file beside it (ProofIsKept).         *)
THEOREM CancelProofIsKept == Spec => ProofIsKept
<1>1. IInv /\ IInv' /\ JInv /\ [Next]_vars => [KeepsProof]_vars
  BY Zenon, NextKeeps, CountingFacts
<1>2. Spec => [][KeepsProof]_vars
  BY <1>1, CancelInvariant, CancelFilesAndBudget, PTL DEF Spec
<1>3. QED
  BY <1>2, PTL DEF ProofIsKept, KeepsProof
=============================================================================
