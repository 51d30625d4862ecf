-------------------------- MODULE TaskQueueProofs --------------------------
(***************************************************************************)
(* Proofs about TaskQueue for every set of tasks, workers and campaigns    *)
(* and every bound on attempts, crashes and overruns.                      *)
(*                                                                         *)
(* ExclusiveExecution is not inductive: that two workers do not hold a     *)
(* task follows from the row naming the worker that holds it, with a lease *)
(* that is still running.  OwnerHolds says so.  SucceededMeansPerformed    *)
(* needs that a worker about to call complete() has seen its handler       *)
(* commit.  How many workers a task can have at once, and how often it can *)
(* be claimed, take an invariant each: Strays and Claims below.            *)
(***************************************************************************)
EXTENDS TaskQueue, FiniteSetTheorems, TLAPS

\* The leaves are first-order reasoning about sets and functions unless they say SMT.
USE Zenon

\* A worker with a task in hand is the one claim_next wrote into worker_id, and its
\* lease still runs, as long as no lease of the task has ended under a live worker.
OwnerHolds ==
  \A t \in Tasks : overruns[t] = 0 =>
    \A w \in Workers : Executing(w, t) =>
      worker_id[t] = w /\ leased_until[t] = "held"

\* run_once reaches complete() only after the handler's transaction committed.
CompletingPerformed ==
  \A w \in Workers : pc[w] = "completing" => effects[task[w]] > 0

\* What `succeeded` reports has happened.
Performed == CompletingPerformed /\ SucceededMeansPerformed

\* The inductive invariant.
IInv ==
  /\ TypeOK
  /\ LeaseIffRunning
  /\ OwnerHolds
  /\ Performed

\* The empty table with idle workers satisfies the inductive invariant.
LEMMA InitIInv == Init => IInv
  BY QueueAssumption, SMT
  DEF Init, IInv, TypeOK, LeaseIffRunning, OwnerHolds, Performed, CompletingPerformed,
      SucceededMeansPerformed, Executing, Statuses, Claimable, Terminal, Busy

\* Each transaction of queue.py and worker.py, each crash and each tick of the
\* clock keeps the types.
LEMMA TypeStep == TypeOK /\ [Next]_vars => TypeOK'
<1> SUFFICES ASSUME TypeOK, [Next]_vars PROVE TypeOK'
  OBVIOUS
<1> USE QueueAssumption DEF TypeOK, Statuses, Claimable, Terminal, Busy
<1>1. ASSUME NEW t \in Tasks, EnqueueTask(t) PROVE TypeOK'
  BY <1>1 DEF EnqueueTask, procs, history
<1>2. ASSUME NEW t \in Tasks, BecomeDue(t) PROVE TypeOK'
  BY <1>2 DEF BecomeDue, procs, history
<1>3. ASSUME NEW t \in Tasks, LeaseExpires(t) PROVE TypeOK'
  BY <1>3, SMT DEF LeaseExpires, procs
<1>4. ASSUME NEW w \in Workers, NEW t \in Tasks, ClaimNext(w, t) PROVE TypeOK'
  BY <1>4, SMT DEF ClaimNext, history
<1>5. ASSUME NEW w \in Workers, HandlerCommits(w) PROVE TypeOK'
  BY <1>5, SMT DEF HandlerCommits, rows
<1>6. ASSUME NEW w \in Workers, WorkRaises(w) PROVE TypeOK'
  BY <1>6 DEF WorkRaises, rows, history
<1>7. ASSUME NEW w \in Workers, Complete(w) PROVE TypeOK'
  BY <1>7 DEF Complete, Release, history
<1>8. ASSUME NEW w \in Workers, FailPermanent(w) PROVE TypeOK'
  BY <1>8 DEF FailPermanent, Release, history
<1>9. ASSUME NEW w \in Workers, FailRead(w) PROVE TypeOK'
  BY <1>9 DEF FailRead, rows, history
<1>10. ASSUME NEW w \in Workers, FailWrite(w) PROVE TypeOK'
  BY <1>10, SMT DEF FailWrite, Release, history
<1>11. ASSUME NEW w \in Workers, Crash(w) PROVE TypeOK'
  BY <1>11, SMT DEF Crash, rows
<1>12. ASSUME NEW w \in Workers, Restart(w) PROVE TypeOK'
  BY <1>12 DEF Restart, rows, history
<1>13. ASSUME ReapExpiredLeases PROVE TypeOK'
  BY <1>13 DEF ReapExpiredLeases, procs, history
<1>14. ASSUME NEW c \in Campaigns, CancelQueuedForCampaign(c) PROVE TypeOK'
  BY <1>14 DEF CancelQueuedForCampaign, procs, history
<1>15. CASE UNCHANGED vars
  BY <1>15 DEF vars, rows, procs, history
<1> QED
  BY <1>1, <1>2, <1>3, <1>4, <1>5, <1>6, <1>7, <1>8, <1>9, <1>10, <1>11, <1>12,
     <1>13, <1>14, <1>15 DEF Next, RunOnce

\* Each UPDATE of queue.py writes status, worker_id and leased_until together.
LEMMA LeaseStep == TypeOK /\ LeaseIffRunning /\ [Next]_vars => LeaseIffRunning'
<1> SUFFICES ASSUME TypeOK, LeaseIffRunning, [Next]_vars PROVE LeaseIffRunning'
  OBVIOUS
<1> USE QueueAssumption DEF TypeOK, Statuses, Claimable, Terminal, Busy, LeaseIffRunning
<1>1. ASSUME NEW t \in Tasks, EnqueueTask(t) PROVE LeaseIffRunning'
  BY <1>1, SMT DEF EnqueueTask, procs, history
<1>2. ASSUME NEW t \in Tasks, BecomeDue(t) PROVE LeaseIffRunning'
  BY <1>2 DEF BecomeDue, procs, history
<1>3. ASSUME NEW t \in Tasks, LeaseExpires(t) PROVE LeaseIffRunning'
  BY <1>3, SMT DEF LeaseExpires, procs
<1>4. ASSUME NEW w \in Workers, NEW t \in Tasks, ClaimNext(w, t) PROVE LeaseIffRunning'
  BY <1>4, SMT DEF ClaimNext, history
<1>5. ASSUME NEW w \in Workers, HandlerCommits(w) PROVE LeaseIffRunning'
  BY <1>5 DEF HandlerCommits, rows
<1>6. ASSUME NEW w \in Workers, WorkRaises(w) PROVE LeaseIffRunning'
  BY <1>6 DEF WorkRaises, rows, history
<1>7. ASSUME NEW w \in Workers, Complete(w) PROVE LeaseIffRunning'
  BY <1>7, SMT DEF Complete, Release, history
<1>8. ASSUME NEW w \in Workers, FailPermanent(w) PROVE LeaseIffRunning'
  BY <1>8, SMT DEF FailPermanent, Release, history
<1>9. ASSUME NEW w \in Workers, FailRead(w) PROVE LeaseIffRunning'
  BY <1>9 DEF FailRead, rows, history
<1>10. ASSUME NEW w \in Workers, FailWrite(w) PROVE LeaseIffRunning'
  BY <1>10, SMT DEF FailWrite, Release, history
<1>11. ASSUME NEW w \in Workers, Crash(w) PROVE LeaseIffRunning'
  BY <1>11 DEF Crash, rows
<1>12. ASSUME NEW w \in Workers, Restart(w) PROVE LeaseIffRunning'
  BY <1>12 DEF Restart, rows, history
<1>13. ASSUME ReapExpiredLeases PROVE LeaseIffRunning'
  BY <1>13 DEF ReapExpiredLeases, Expired, procs, history
<1>14. ASSUME NEW c \in Campaigns, CancelQueuedForCampaign(c) PROVE LeaseIffRunning'
  BY <1>14 DEF CancelQueuedForCampaign, QueuedOf, procs, history
<1>15. CASE UNCHANGED vars
  BY <1>15 DEF vars, rows, procs, history
<1> QED
  BY <1>1, <1>2, <1>3, <1>4, <1>5, <1>6, <1>7, <1>8, <1>9, <1>10, <1>11, <1>12,
     <1>13, <1>14, <1>15 DEF Next, RunOnce

\* No step takes a row from the worker executing it before its lease ends:
\* claim_next takes claimable rows only, the reaper expired leases only.
LEMMA OwnerStep == TypeOK /\ LeaseIffRunning /\ OwnerHolds /\ [Next]_vars => OwnerHolds'
<1> SUFFICES ASSUME TypeOK, LeaseIffRunning, OwnerHolds, [Next]_vars PROVE OwnerHolds'
  OBVIOUS
<1> USE QueueAssumption
    DEF TypeOK, Statuses, Claimable, Terminal, Busy, LeaseIffRunning, OwnerHolds, Executing
<1>1. ASSUME NEW t \in Tasks, EnqueueTask(t) PROVE OwnerHolds'
  BY <1>1, SMT DEF EnqueueTask, procs, history
<1>2. ASSUME NEW t \in Tasks, BecomeDue(t) PROVE OwnerHolds'
  BY <1>2, SMT DEF BecomeDue, procs, history
<1>3. ASSUME NEW t \in Tasks, LeaseExpires(t) PROVE OwnerHolds'
  BY <1>3, SMT DEF LeaseExpires, procs, Executors, Executing
<1>4. ASSUME NEW w \in Workers, NEW t \in Tasks, ClaimNext(w, t) PROVE OwnerHolds'
  BY <1>4, SMT DEF ClaimNext, history
<1>5. ASSUME NEW w \in Workers, HandlerCommits(w) PROVE OwnerHolds'
  BY <1>5, SMT DEF HandlerCommits, rows
<1>6. ASSUME NEW w \in Workers, WorkRaises(w) PROVE OwnerHolds'
  BY <1>6, SMT DEF WorkRaises, rows, history
<1>7. ASSUME NEW w \in Workers, Complete(w) PROVE OwnerHolds'
  BY <1>7, SMT DEF Complete, Release, history
<1>8. ASSUME NEW w \in Workers, FailPermanent(w) PROVE OwnerHolds'
  BY <1>8, SMT DEF FailPermanent, Release, history
<1>9. ASSUME NEW w \in Workers, FailRead(w) PROVE OwnerHolds'
  BY <1>9, SMT DEF FailRead, rows, history
<1>10. ASSUME NEW w \in Workers, FailWrite(w) PROVE OwnerHolds'
  BY <1>10, SMT DEF FailWrite, Release, history
<1>11. ASSUME NEW w \in Workers, Crash(w) PROVE OwnerHolds'
  BY <1>11, SMT DEF Crash, rows
<1>12. ASSUME NEW w \in Workers, Restart(w) PROVE OwnerHolds'
  BY <1>12, SMT DEF Restart, rows, history
<1>13. ASSUME ReapExpiredLeases PROVE OwnerHolds'
  BY <1>13, SMT DEF ReapExpiredLeases, Expired, procs, history
<1>14. ASSUME NEW c \in Campaigns, CancelQueuedForCampaign(c) PROVE OwnerHolds'
  BY <1>14, SMT DEF CancelQueuedForCampaign, QueuedOf, procs, history
<1>15. CASE UNCHANGED vars
  BY <1>15, SMT DEF vars, rows, procs, history
<1> QED
  BY <1>1, <1>2, <1>3, <1>4, <1>5, <1>6, <1>7, <1>8, <1>9, <1>10, <1>11, <1>12,
     <1>13, <1>14, <1>15 DEF Next, RunOnce

\* A success written by complete() follows a committed handler transaction, and
\* no step takes a committed transaction back.
LEMMA PerformedStep == TypeOK /\ Performed /\ [Next]_vars => Performed'
<1> SUFFICES ASSUME TypeOK, Performed, [Next]_vars PROVE Performed'
  OBVIOUS
<1> USE QueueAssumption
    DEF TypeOK, Statuses, Claimable, Terminal, Busy,
        Performed, CompletingPerformed, SucceededMeansPerformed
<1>1. ASSUME NEW t \in Tasks, EnqueueTask(t) PROVE Performed'
  BY <1>1 DEF EnqueueTask, procs, history
<1>2. ASSUME NEW t \in Tasks, BecomeDue(t) PROVE Performed'
  BY <1>2 DEF BecomeDue, procs, history
<1>3. ASSUME NEW t \in Tasks, LeaseExpires(t) PROVE Performed'
  BY <1>3 DEF LeaseExpires, procs
<1>4. ASSUME NEW w \in Workers, NEW t \in Tasks, ClaimNext(w, t) PROVE Performed'
  BY <1>4 DEF ClaimNext, history
<1>5. ASSUME NEW w \in Workers, HandlerCommits(w) PROVE Performed'
  BY <1>5, SMT DEF HandlerCommits, rows
<1>6. ASSUME NEW w \in Workers, WorkRaises(w) PROVE Performed'
  BY <1>6 DEF WorkRaises, rows, history
<1>7. ASSUME NEW w \in Workers, Complete(w) PROVE Performed'
  BY <1>7 DEF Complete, Release, history
<1>8. ASSUME NEW w \in Workers, FailPermanent(w) PROVE Performed'
  BY <1>8 DEF FailPermanent, Release, history
<1>9. ASSUME NEW w \in Workers, FailRead(w) PROVE Performed'
  BY <1>9 DEF FailRead, rows, history
<1>10. ASSUME NEW w \in Workers, FailWrite(w) PROVE Performed'
  BY <1>10, SMT DEF FailWrite, Release, history
<1>11. ASSUME NEW w \in Workers, Crash(w) PROVE Performed'
  BY <1>11 DEF Crash, rows
<1>12. ASSUME NEW w \in Workers, Restart(w) PROVE Performed'
  BY <1>12 DEF Restart, rows, history
<1>13. ASSUME ReapExpiredLeases PROVE Performed'
  BY <1>13 DEF ReapExpiredLeases, Expired, procs, history
<1>14. ASSUME NEW c \in Campaigns, CancelQueuedForCampaign(c) PROVE Performed'
  BY <1>14 DEF CancelQueuedForCampaign, QueuedOf, procs, history
<1>15. CASE UNCHANGED vars
  BY <1>15 DEF vars, rows, procs, history
<1> QED
  BY <1>1, <1>2, <1>3, <1>4, <1>5, <1>6, <1>7, <1>8, <1>9, <1>10, <1>11, <1>12,
     <1>13, <1>14, <1>15 DEF Next, RunOnce

\* Every step of the queue preserves the inductive invariant.
LEMMA StepIInv == IInv /\ [Next]_vars => IInv'
  BY TypeStep, LeaseStep, OwnerStep, PerformedStep DEF IInv

\* The inductive invariant holds in every reachable state of the queue.
THEOREM Inductive == Spec => []IInv
  BY InitIInv, StepIInv, PTL DEF Spec

\* Every variable keeps its type, whatever workers, crashes and callers do.
THEOREM TypeCorrect == Spec => []TypeOK
<1>1. IInv => TypeOK
  BY DEF IInv
<1> QED
  BY <1>1, Inductive, PTL

\* A row carries a lease and a worker_id exactly while it is `running`.
THEOREM LeasesOnRunningRows == Spec => []LeaseIffRunning
<1>1. IInv => LeaseIffRunning
  BY DEF IInv
<1> QED
  BY <1>1, Inductive, PTL

\* claim_next is exclusive until a lease of the task ends under a live worker.
THEOREM ClaimsAreExclusive == Spec => []ExclusiveExecution
<1>1. IInv => ExclusiveExecution
  BY DEF IInv, OwnerHolds, ExclusiveExecution
<1> QED
  BY <1>1, Inductive, PTL

\* run_once reports `succeeded` only for tasks whose handler has committed.
THEOREM SuccessIsReal == Spec => []SucceededMeansPerformed
<1>1. IInv => SucceededMeansPerformed
  BY DEF IInv, Performed
<1> QED
  BY <1>1, Inductive, PTL

-----------------------------------------------------------------------------
\* No step rewrites a finished row none of whose leases ended under a live worker:
\* no worker has it in hand, and the other UPDATEs select unfinished rows.
LEMMA FinishedStep ==
  ASSUME IInv, [Next]_vars, NEW t \in Tasks, overruns[t] = 0, status[t] \in Terminal
  PROVE  status'[t] = status[t]
<1>1. \A w \in Workers : ~Executing(w, t)
  BY DEF IInv, TypeOK, LeaseIffRunning, OwnerHolds, Terminal
<1> USE QueueAssumption DEF IInv, TypeOK, Statuses, Claimable, Terminal, Busy
<1>2. ASSUME NEW w \in Workers, NEW s, pc[w] \in Busy, Release(w, task[w], s)
      PROVE  status'[t] = status[t]
  BY <1>1, <1>2 DEF Release, Executing
<1>3. ASSUME NEW w \in Workers, RunOnce(w)
      PROVE  status'[t] = status[t]
  <2>1. ASSUME NEW u \in Tasks, ClaimNext(w, u) PROVE status'[t] = status[t]
    BY <2>1 DEF ClaimNext
  <2>2. CASE HandlerCommits(w) \/ WorkRaises(w) \/ FailRead(w)
    BY <2>2 DEF HandlerCommits, WorkRaises, FailRead, rows
  <2>3. CASE Complete(w) \/ FailPermanent(w) \/ FailWrite(w)
    BY <1>2, <2>3, SMT DEF Complete, FailPermanent, FailWrite
  <2> QED
    BY <1>3, <2>1, <2>2, <2>3 DEF RunOnce
<1>4. CASE \E u \in Tasks : EnqueueTask(u) \/ BecomeDue(u) \/ LeaseExpires(u)
  BY <1>4 DEF EnqueueTask, BecomeDue, LeaseExpires
<1>5. CASE \E w \in Workers : Crash(w) \/ Restart(w)
  BY <1>5 DEF Crash, Restart, rows
<1>6. CASE ReapExpiredLeases \/ \E c \in Campaigns : CancelQueuedForCampaign(c)
  BY <1>6, SMT DEF ReapExpiredLeases, Expired, CancelQueuedForCampaign, QueuedOf
<1>7. CASE UNCHANGED vars
  BY <1>7 DEF vars, rows
<1> QED
  BY <1>3, <1>4, <1>5, <1>6, <1>7 DEF Next

\* complete(), fail() and cancel_queued_for_campaign close a task for good as
\* long as no lease of it has ended under a live worker.
THEOREM FinishedTasksStay == Spec => FinishedStaysFinished
<1>1. IInv /\ [Next]_vars =>
        [\A t \in Tasks :
           overruns[t] = 0 /\ status[t] \in Terminal => status'[t] = status[t]]_vars
  BY FinishedStep
<1> QED
  BY <1>1, Inductive, PTL DEF Spec, FinishedStaysFinished

-----------------------------------------------------------------------------
\* How many workers a task can have.  Cardinality(Executors(t)) alone is not
\* inductive: a claim adds an executor and no overrun.  It adds the one executor
\* that is not a stray, the worker whose lease on the row still runs.
Strays(t) ==
  {w \in Executors(t) : ~(leased_until[t] = "held" /\ worker_id[t] = w)}

\* There is a stray for every overrun at most: a lease that ends makes one, and a
\* stray that writes the row by id ends itself when it makes the holder one.
StraysBounded ==
  \A t \in Tasks : IsFiniteSet(Strays(t)) /\ Cardinality(Strays(t)) <= overruns[t]

\* A part of a finite set has no more members than the set.
LEMMA NoMore ==
  ASSUME NEW S, NEW T, IsFiniteSet(S), T \subseteq S
  PROVE  IsFiniteSet(T) /\ Cardinality(T) <= Cardinality(S)
  BY FS_Subset

\* One new member adds at most one.
LEMMA OneMore ==
  ASSUME NEW S, NEW T, NEW x, IsFiniteSet(S), T \subseteq S \cup {x}
  PROVE  IsFiniteSet(T) /\ Cardinality(T) <= Cardinality(S) + 1
<1>1. Cardinality(S) \in Nat
  BY FS_CardinalityType
<1>2. /\ IsFiniteSet(S \cup {x})
      /\ Cardinality(S \cup {x}) = IF x \in S THEN Cardinality(S) ELSE Cardinality(S) + 1
  BY FS_AddElement
<1>3. IsFiniteSet(T) /\ Cardinality(T) <= Cardinality(S \cup {x})
  BY <1>2, FS_Subset
<1>4. Cardinality(T) \in Nat
  BY <1>3, FS_CardinalityType
<1> QED
  BY <1>1, <1>2, <1>3, <1>4, SMT

\* A member that leaves makes room for another.
LEMMA Swapped ==
  ASSUME NEW S, NEW T, NEW x, NEW y, IsFiniteSet(S), x \in S, T \subseteq (S \ {x}) \cup {y}
  PROVE  IsFiniteSet(T) /\ Cardinality(T) <= Cardinality(S)
<1>1. IsFiniteSet(S \ {x}) /\ Cardinality(S \ {x}) = Cardinality(S) - 1
  BY FS_RemoveElement
<1>2. IsFiniteSet(T) /\ Cardinality(T) <= Cardinality(S \ {x}) + 1
  BY <1>1, OneMore
<1> QED
  BY <1>1, <1>2, FS_CardinalityType, SMT

\* complete() and fail() by id: the writer is gone, and if it was a stray, the
\* worker it took the row from becomes one.
LEMMA ReleaseStrays ==
  ASSUME IInv, NEW w \in Workers, NEW t \in Tasks, NEW s, pc[w] \in Busy,
         Release(w, task[w], s), IsFiniteSet(Strays(t))
  PROVE  IsFiniteSet(Strays(t)') /\ Cardinality(Strays(t)') <= Cardinality(Strays(t))
<1> USE DEF IInv, TypeOK, Strays, Executors, Executing
<1>1. CASE task[w] # t \/ (leased_until[t] = "held" /\ worker_id[t] = w)
  <2>1. Strays(t)' \subseteq Strays(t)
    BY <1>1 DEF Release, Busy
  <2> QED
    BY <2>1, NoMore
<1>2. CASE task[w] = t /\ ~(leased_until[t] = "held" /\ worker_id[t] = w)
  <2>1. w \in Strays(t)
    BY <1>2
  <2>2. Strays(t)' \subseteq (Strays(t) \ {w}) \cup {worker_id[t]}
    BY <1>2 DEF Release, Busy
  <2> HIDE DEF Strays
  <2> QED
    BY <2>1, <2>2, Swapped
<1> HIDE DEF IInv, TypeOK, Strays, Executors, Executing
<1> QED
  BY <1>1, <1>2

\* Each transaction, crash and tick of the clock keeps the strays of a task within
\* its overruns.
LEMMA StraysStep ==
  ASSUME IInv, StraysBounded, [Next]_vars, NEW t \in Tasks
  PROVE  IsFiniteSet(Strays(t)') /\ Cardinality(Strays(t)') <= overruns'[t]
<1> DEFINE Kept == Strays(t)' \subseteq Strays(t) /\ overruns'[t] = overruns[t]
<1>0. IsFiniteSet(Strays(t)) /\ Cardinality(Strays(t)) <= overruns[t]
      /\ Cardinality(Strays(t)) \in Nat /\ overruns[t] \in Nat
  BY QueueAssumption, FS_CardinalityType, SMT DEF StraysBounded, IInv, TypeOK
<1>1. ASSUME Kept PROVE IsFiniteSet(Strays(t)') /\ Cardinality(Strays(t)') <= overruns'[t]
  <2>1. IsFiniteSet(Strays(t)') /\ Cardinality(Strays(t)') <= Cardinality(Strays(t))
    BY <1>0, <1>1, NoMore
  <2>2. Cardinality(Strays(t)') \in Nat
    BY <2>1, FS_CardinalityType
  <2> QED
    BY <1>0, <1>1, <2>1, <2>2, SMT
<1>2. ASSUME NEW u \in Tasks, LeaseExpires(u)
      PROVE  IsFiniteSet(Strays(t)') /\ Cardinality(Strays(t)') <= overruns'[t]
  <2>1. CASE u = t /\ worker_id[t] \in Executors(t)
    <3>1. Strays(t)' \subseteq Strays(t) \cup {worker_id[t]}
      BY <1>2, <2>1 DEF LeaseExpires, procs, Strays, Executors, Executing
    <3>2. overruns'[t] = overruns[t] + 1
      BY <1>2, <2>1 DEF LeaseExpires, IInv, TypeOK
    <3>3. IsFiniteSet(Strays(t)') /\ Cardinality(Strays(t)') <= Cardinality(Strays(t)) + 1
      BY <1>0, <3>1, OneMore
    <3>4. Cardinality(Strays(t)') \in Nat
      BY <3>3, FS_CardinalityType
    <3> QED
      BY <1>0, <3>2, <3>3, <3>4, SMT
  <2>2. CASE ~(u = t /\ worker_id[t] \in Executors(t))
    <3>1. Kept
      BY <1>2, <2>2 DEF LeaseExpires, procs, Strays, Executors, Executing, IInv, TypeOK
    <3> QED
      BY <1>1, <3>1
  <2> QED
    BY <2>1, <2>2
<1>3. ASSUME NEW w \in Workers, NEW s, pc[w] \in Busy, Release(w, task[w], s)
      PROVE  IsFiniteSet(Strays(t)') /\ Cardinality(Strays(t)') <= overruns'[t]
  <2>1. IsFiniteSet(Strays(t)') /\ Cardinality(Strays(t)') <= Cardinality(Strays(t))
    BY <1>0, <1>3, ReleaseStrays
  <2>2. overruns'[t] = overruns[t]
    BY <1>3 DEF Release, history
  <2>3. Cardinality(Strays(t)') \in Nat
    BY <2>1, FS_CardinalityType
  <2> QED
    BY <1>0, <2>1, <2>2, <2>3, SMT
<1> USE DEF IInv, TypeOK, LeaseIffRunning, Strays, Executors, Executing, Busy, Claimable
<1>4. ASSUME NEW u \in Tasks, EnqueueTask(u) \/ BecomeDue(u) PROVE Kept
  BY <1>4 DEF EnqueueTask, BecomeDue, procs, history
<1>5. ASSUME NEW w \in Workers, NEW u \in Tasks, ClaimNext(w, u) PROVE Kept
  BY <1>5 DEF ClaimNext, history
<1>6. ASSUME NEW w \in Workers, HandlerCommits(w) \/ WorkRaises(w) \/ FailRead(w) PROVE Kept
  BY <1>6 DEF HandlerCommits, WorkRaises, FailRead, rows, history
<1>7. ASSUME NEW w \in Workers, Crash(w) \/ Restart(w) PROVE Kept
  BY <1>7, SMT DEF Crash, Restart, rows, history
<1>8. ASSUME ReapExpiredLeases PROVE Kept
  BY <1>8 DEF ReapExpiredLeases, Expired, procs, history
<1>9. ASSUME NEW c \in Campaigns, CancelQueuedForCampaign(c) PROVE Kept
  BY <1>9 DEF CancelQueuedForCampaign, QueuedOf, procs, history
<1>10. CASE UNCHANGED vars
  <2>1. Kept
    BY <1>10 DEF vars, rows, procs, history
  <2> QED
    BY <1>1, <2>1
<1>11. ASSUME NEW w \in Workers, Complete(w) \/ FailPermanent(w) \/ FailWrite(w)
       PROVE  pc[w] \in Busy /\ \E s : Release(w, task[w], s)
  BY <1>11 DEF Complete, FailPermanent, FailWrite
<1> HIDE DEF IInv, TypeOK, LeaseIffRunning, Strays, Executors, Executing, Busy, Claimable, Kept
<1> QED
  BY <1>1, <1>2, <1>3, <1>4, <1>5, <1>6, <1>7, <1>8, <1>9, <1>10, <1>11 DEF Next, RunOnce

\* Nobody executes anything at the start.
LEMMA StraysInit == Init => StraysBounded
<1> SUFFICES ASSUME Init, NEW t \in Tasks
             PROVE  IsFiniteSet(Strays(t)) /\ Cardinality(Strays(t)) <= overruns[t]
  BY DEF StraysBounded
<1>1. Strays(t) = {} /\ overruns[t] = 0
  BY DEF Init, Strays, Executors, Executing, Busy
<1> QED
  BY <1>1, FS_EmptySet, SMT

\* The strays are bounded in every reachable state of the queue.
LEMMA StraysInvariant == Spec => []StraysBounded
<1>1. IInv /\ StraysBounded /\ [Next]_vars => StraysBounded'
  <2> SUFFICES ASSUME IInv, StraysBounded, [Next]_vars PROVE StraysBounded'
    OBVIOUS
  <2> QED
    BY StraysStep DEF StraysBounded
<1> QED
  BY <1>1, StraysInit, Inductive, PTL DEF Spec

\* However many zombies complete(), fail() and re-claim a task, no more workers
\* execute it at once than one, plus one for every lease of it that ended early.
THEOREM ZombiesAreBounded == Spec => []ExecutorsBounded
<1>1. IInv /\ StraysBounded => ExecutorsBounded
  <2> SUFFICES ASSUME IInv, StraysBounded, NEW t \in Tasks
               PROVE  Cardinality(Executors(t)) <= 1 + overruns[t]
    BY DEF ExecutorsBounded
  <2>1. Executors(t) \subseteq Strays(t) \cup {worker_id[t]}
    BY DEF Strays
  <2>2. IsFiniteSet(Executors(t)) /\ Cardinality(Executors(t)) <= Cardinality(Strays(t)) + 1
    BY <2>1, OneMore DEF StraysBounded
  <2>3. Cardinality(Executors(t)) \in Nat /\ Cardinality(Strays(t)) \in Nat /\ overruns[t] \in Nat
    BY <2>2, FS_CardinalityType, QueueAssumption, SMT DEF StraysBounded, IInv, TypeOK
  <2> QED
    BY <2>2, <2>3, SMT DEF StraysBounded
<1> QED
  BY <1>1, StraysInvariant, Inductive, PTL

-----------------------------------------------------------------------------
\* How often a task can be claimed.  AttemptsWithinBudget is not inductive: it has to
\* leave room for the claims that are already on their way.

\* A running row the reaper will return to the queue, max_attempts or not.
Abandoned(t) ==
  status[t] = "running" /\ (leased_until[t] = "expired" \/ worker_id[t] \notin Executors(t))

\* The claims of a task to come: one for each worker that has read in fail() that an
\* attempt is left, and one (NoWorker stands for it) for a row that is in the queue or
\* will be returned to it.
Claims(t) ==
  {w \in Executors(t) : pc[w] = "retrying" /\ seen[w] < MaxAttempts}
  \cup {x \in {NoWorker} : status[t] \in Claimable \/ Abandoned(t)}

\* Once max_attempts is reached, the claims to come are within the budget too.
Affordable(t) ==
  attempt[t] >= MaxAttempts =>
    /\ IsFiniteSet(Claims(t))
    /\ attempt[t] + Cardinality(Claims(t)) <= MaxAttempts + crashes[t] + overruns[t]

Budgeted ==
  \A t \in Tasks : (status[t] = "absent" => attempt[t] = 0) /\ Affordable(t)

\* claim_next is what raises the attempt, and it takes rows of the table.
LEMMA UnclaimedStep ==
  ASSUME IInv, [Next]_vars, NEW t \in Tasks, status[t] = "absent" => attempt[t] = 0
  PROVE  status'[t] = "absent" => attempt'[t] = 0
<1> USE DEF IInv, TypeOK, Claimable, Busy
<1>1. ASSUME NEW u \in Tasks, EnqueueTask(u) \/ BecomeDue(u) \/ LeaseExpires(u)
      PROVE  status'[t] = "absent" => attempt'[t] = 0
  BY <1>1 DEF EnqueueTask, BecomeDue, LeaseExpires
<1>2. ASSUME NEW w \in Workers, NEW u \in Tasks, ClaimNext(w, u)
      PROVE  status'[t] = "absent" => attempt'[t] = 0
  BY <1>2 DEF ClaimNext
<1>3. ASSUME NEW w \in Workers,
             HandlerCommits(w) \/ WorkRaises(w) \/ FailRead(w) \/ Crash(w) \/ Restart(w)
      PROVE  status'[t] = "absent" => attempt'[t] = 0
  BY <1>3 DEF HandlerCommits, WorkRaises, FailRead, Crash, Restart, rows
<1>4. ASSUME NEW w \in Workers, Complete(w) \/ FailPermanent(w) \/ FailWrite(w)
      PROVE  status'[t] = "absent" => attempt'[t] = 0
  BY <1>4 DEF Complete, FailPermanent, FailWrite, Release
<1>5. CASE ReapExpiredLeases \/ \E c \in Campaigns : CancelQueuedForCampaign(c)
  BY <1>5 DEF ReapExpiredLeases, CancelQueuedForCampaign
<1>6. CASE UNCHANGED vars
  BY <1>6 DEF vars, rows
<1> QED
  BY <1>1, <1>2, <1>3, <1>4, <1>5, <1>6 DEF Next, RunOnce

\* The counters of a task are numbers.
LEMMA Counters ==
  ASSUME IInv, NEW t \in Tasks
  PROVE  attempt[t] \in Nat /\ crashes[t] \in Nat /\ overruns[t] \in Nat
  BY QueueAssumption, SMT DEF IInv, TypeOK

\* A step that neither claims the task nor opens a new claim to come.
LEMMA NoNewClaim ==
  ASSUME IInv, IInv', NEW t \in Tasks, Affordable(t),
         attempt'[t] = attempt[t], crashes'[t] >= crashes[t], overruns'[t] >= overruns[t],
         attempt[t] >= MaxAttempts => Claims(t)' \subseteq Claims(t)
  PROVE  Affordable(t)'
<1> SUFFICES ASSUME attempt[t] >= MaxAttempts
             PROVE  /\ IsFiniteSet(Claims(t)')
                    /\ attempt'[t] + Cardinality(Claims(t)')
                         <= MaxAttempts + crashes'[t] + overruns'[t]
  BY DEF Affordable
<1>1. /\ IsFiniteSet(Claims(t))
      /\ attempt[t] + Cardinality(Claims(t)) <= MaxAttempts + crashes[t] + overruns[t]
  BY DEF Affordable
<1>2. IsFiniteSet(Claims(t)') /\ Cardinality(Claims(t)') <= Cardinality(Claims(t))
  BY <1>1, NoMore
<1>3. Cardinality(Claims(t)) \in Nat /\ Cardinality(Claims(t)') \in Nat
  BY <1>1, <1>2, FS_CardinalityType
<1>4. attempt[t] \in Nat /\ crashes[t] \in Nat /\ overruns[t] \in Nat
  BY Counters
<1>5. crashes'[t] \in Nat /\ overruns'[t] \in Nat /\ MaxAttempts \in Nat
  BY QueueAssumption, SMT DEF IInv, TypeOK
<1> QED
  BY <1>1, <1>2, <1>3, <1>4, <1>5, SMT

\* A crash or an overrun pays for the claim to come that it opens.
LEMMA PaidClaim ==
  ASSUME IInv, NEW t \in Tasks, Affordable(t), attempt'[t] = attempt[t],
         crashes'[t] + overruns'[t] = crashes[t] + overruns[t] + 1,
         crashes'[t] \in Nat, overruns'[t] \in Nat,
         Claims(t)' \subseteq Claims(t) \cup {NoWorker}
  PROVE  Affordable(t)'
<1> SUFFICES ASSUME attempt[t] >= MaxAttempts
             PROVE  /\ IsFiniteSet(Claims(t)')
                    /\ attempt'[t] + Cardinality(Claims(t)')
                         <= MaxAttempts + crashes'[t] + overruns'[t]
  BY DEF Affordable
<1>1. /\ IsFiniteSet(Claims(t))
      /\ attempt[t] + Cardinality(Claims(t)) <= MaxAttempts + crashes[t] + overruns[t]
  BY DEF Affordable
<1>2. IsFiniteSet(Claims(t)') /\ Cardinality(Claims(t)') <= Cardinality(Claims(t)) + 1
  BY <1>1, OneMore
<1>3. Cardinality(Claims(t)) \in Nat /\ Cardinality(Claims(t)') \in Nat
  BY <1>1, <1>2, FS_CardinalityType
<1>4. attempt[t] \in Nat /\ crashes[t] \in Nat /\ overruns[t] \in Nat
  BY Counters
<1>5. MaxAttempts \in Nat
  BY QueueAssumption
<1> QED
  BY <1>1, <1>2, <1>3, <1>4, <1>5, SMT

\* claim_next uses up the claim to come of the row.  When it reaches max_attempts, the
\* workers that may still retry are strays, and their overruns pay for them.
LEMMA ClaimAffordable ==
  ASSUME IInv, IInv', StraysBounded', NEW t \in Tasks, Affordable(t),
         NEW w \in Workers, ClaimNext(w, t)
  PROVE  Affordable(t)'
<1>1. attempt'[t] = attempt[t] + 1 /\ crashes'[t] = crashes[t] /\ overruns'[t] = overruns[t]
  BY DEF ClaimNext, history, IInv, TypeOK
<1>2. attempt[t] \in Nat /\ crashes[t] \in Nat /\ overruns[t] \in Nat /\ MaxAttempts \in Nat
  BY Counters, QueueAssumption
<1>3. NoWorker \in Claims(t)
  BY DEF ClaimNext, Claims
<1>4. w \in Executors(t)' /\ worker_id'[t] = w /\ leased_until'[t] = "held"
      /\ status'[t] = "running" /\ pc'[w] = "handling"
  BY SMT DEF ClaimNext, Executors, Executing, Busy, IInv, TypeOK
<1>5. NoWorker \notin Claims(t)'
  BY <1>4, QueueAssumption DEF Claims, Abandoned, Executors, Claimable
<1>6. Claims(t)' \subseteq Claims(t)
  <2> SUFFICES ASSUME NEW x \in Claims(t)' PROVE x \in Claims(t)
    OBVIOUS
  <2>1. x \in Workers /\ pc'[x] = "retrying" /\ seen'[x] < MaxAttempts /\ task'[x] = t
    BY <1>5 DEF Claims, Executors, Executing
  <2>2. x # w
    BY <1>4, <2>1
  <2>3. pc[x] = "retrying" /\ seen[x] < MaxAttempts /\ task[x] = t
    BY <2>1, <2>2, SMT DEF ClaimNext, IInv, TypeOK
  <2> QED
    BY <2>1, <2>3 DEF Claims, Executors, Executing, Busy
<1>7. Claims(t)' \subseteq Strays(t)'
  BY <1>4, <1>5 DEF Claims, Strays
<1> SUFFICES ASSUME attempt'[t] >= MaxAttempts
             PROVE  /\ IsFiniteSet(Claims(t)')
                    /\ attempt'[t] + Cardinality(Claims(t)')
                         <= MaxAttempts + crashes'[t] + overruns'[t]
  BY DEF Affordable
<1>8. CASE attempt[t] >= MaxAttempts
  <2>1. /\ IsFiniteSet(Claims(t))
        /\ attempt[t] + Cardinality(Claims(t)) <= MaxAttempts + crashes[t] + overruns[t]
    BY <1>8 DEF Affordable
  <2>2. IsFiniteSet(Claims(t) \ {NoWorker})
        /\ Cardinality(Claims(t) \ {NoWorker}) = Cardinality(Claims(t)) - 1
    BY <1>3, <2>1, FS_RemoveElement
  <2>3. Claims(t)' \subseteq Claims(t) \ {NoWorker}
    BY <1>5, <1>6
  <2>4. IsFiniteSet(Claims(t)') /\ Cardinality(Claims(t)') <= Cardinality(Claims(t)) - 1
    BY <2>2, <2>3, NoMore
  <2>5. Cardinality(Claims(t)) \in Nat /\ Cardinality(Claims(t)') \in Nat
    BY <2>1, <2>4, FS_CardinalityType
  <2> QED
    BY <1>1, <1>2, <2>1, <2>4, <2>5, SMT
<1>9. CASE ~(attempt[t] >= MaxAttempts)
  <2>1. IsFiniteSet(Strays(t)') /\ Cardinality(Strays(t)') <= overruns'[t]
    BY DEF StraysBounded
  <2>2. IsFiniteSet(Claims(t)') /\ Cardinality(Claims(t)') <= Cardinality(Strays(t)')
    BY <1>7, <2>1, NoMore
  <2>3. Cardinality(Claims(t)') \in Nat /\ Cardinality(Strays(t)') \in Nat
    BY <2>1, <2>2, FS_CardinalityType
  <2> QED
    BY <1>1, <1>2, <1>9, <2>1, <2>2, <2>3, SMT
<1> QED
  BY <1>8, <1>9

\* fail() that puts the row back in the queue: the claim to come was the worker's, and
\* is now the row's.
LEMMA RetryAffordable ==
  ASSUME IInv, IInv', NEW t \in Tasks, Affordable(t),
         NEW w \in Workers, pc[w] = "retrying", seen[w] < MaxAttempts, task[w] = t,
         Release(w, t, "awaiting_retry")
  PROVE  Affordable(t)'
<1>1. attempt'[t] = attempt[t] /\ crashes'[t] = crashes[t] /\ overruns'[t] = overruns[t]
  BY DEF Release, history
<1>2. w \in Claims(t)
  BY DEF Claims, Executors, Executing, Busy
<1>3. Claims(t)' \subseteq (Claims(t) \ {w}) \cup {NoWorker}
  <2> SUFFICES ASSUME NEW x \in Claims(t)', x # NoWorker PROVE x \in Claims(t) \ {w}
    OBVIOUS
  <2>1. x \in Workers /\ pc'[x] = "retrying" /\ seen'[x] < MaxAttempts /\ task'[x] = t
    BY DEF Claims, Executors, Executing
  <2>2. x # w
    BY <2>1, SMT DEF Release, IInv, TypeOK
  <2>3. pc[x] = "retrying" /\ seen[x] < MaxAttempts /\ task[x] = t
    BY <2>1, <2>2, ZenonT(40) DEF Release, IInv, TypeOK
  <2> QED
    BY <2>1, <2>2, <2>3 DEF Claims, Executors, Executing, Busy
<1> SUFFICES ASSUME attempt[t] >= MaxAttempts
             PROVE  /\ IsFiniteSet(Claims(t)')
                    /\ attempt'[t] + Cardinality(Claims(t)')
                         <= MaxAttempts + crashes'[t] + overruns'[t]
  BY <1>1 DEF Affordable
<1>4. /\ IsFiniteSet(Claims(t))
      /\ attempt[t] + Cardinality(Claims(t)) <= MaxAttempts + crashes[t] + overruns[t]
  BY DEF Affordable
<1>5. IsFiniteSet(Claims(t)') /\ Cardinality(Claims(t)') <= Cardinality(Claims(t))
  BY <1>2, <1>3, <1>4, Swapped
<1>6. Cardinality(Claims(t)) \in Nat /\ Cardinality(Claims(t)') \in Nat
  BY <1>4, <1>5, FS_CardinalityType
<1>7. attempt[t] \in Nat /\ crashes[t] \in Nat /\ overruns[t] \in Nat /\ MaxAttempts \in Nat
  BY Counters, QueueAssumption
<1> QED
  BY <1>1, <1>4, <1>5, <1>6, <1>7, SMT

\* Each transaction, crash and tick of the clock leaves the claims of a task affordable.
LEMMA AffordableStep ==
  ASSUME IInv, IInv', StraysBounded', Budgeted, [Next]_vars, NEW t \in Tasks
  PROVE  Affordable(t)'
<1> DEFINE Quiet == /\ attempt'[t] = attempt[t]
                    /\ crashes'[t] >= crashes[t] /\ overruns'[t] >= overruns[t]
                    /\ attempt[t] >= MaxAttempts => Claims(t)' \subseteq Claims(t)
           Untouched == UNCHANGED <<attempt, crashes, overruns>>
<1>0. Affordable(t) /\ (status[t] = "absent" => attempt[t] = 0)
  BY DEF Budgeted
<1>1. attempt[t] \in Nat /\ crashes[t] \in Nat /\ overruns[t] \in Nat
  BY Counters
<1>2. ASSUME Quiet PROVE Affordable(t)'
  BY <1>0, <1>2, NoNewClaim
<1>3. ASSUME Untouched, attempt[t] >= MaxAttempts => Claims(t)' \subseteq Claims(t) PROVE Quiet
  BY <1>1, <1>3, SMT
<1> HIDE DEF Quiet
<1>4. ASSUME NEW w \in Workers, NEW s, pc[w] \in Busy, Release(w, task[w], s),
             task[w] # t \/ s \in Terminal
      PROVE  Quiet
  <2>1. Untouched
    BY <1>4 DEF Release, history
  <2>2. Claims(t)' \subseteq Claims(t)
    BY <1>4, SMT
       DEF Release, Claims, Abandoned, Executors, Executing, Busy, Claimable, Terminal, IInv, TypeOK
  <2> QED
    BY <1>3, <2>1, <2>2
<1>5. ASSUME NEW w \in Workers, NEW u \in Tasks, ClaimNext(w, u) PROVE Affordable(t)'
  <2>1. CASE u = t
    BY <1>0, <1>5, <2>1, ClaimAffordable
  <2>2. CASE u # t
    <3>1. attempt'[t] = attempt[t] /\ UNCHANGED <<crashes, overruns>>
      BY <1>5, <2>2 DEF ClaimNext, history, IInv, TypeOK
    <3>2. Claims(t)' \subseteq Claims(t)
      BY <1>5, <2>2, SMT
         DEF ClaimNext, Claims, Abandoned, Executors, Executing, Busy, Claimable, IInv, TypeOK
    <3>3. Quiet
      BY <1>1, <3>1, <3>2, SMT DEF Quiet
    <3> QED
      BY <1>2, <3>3
  <2> QED
    BY <2>1, <2>2
<1>6. ASSUME NEW w \in Workers, FailWrite(w) PROVE Affordable(t)'
  <2>1. CASE Release(w, task[w], "failed") \/ (task[w] # t /\ Release(w, task[w], "awaiting_retry"))
    BY <1>2, <1>4, <1>6, <2>1, SMT DEF FailWrite, Busy, Terminal
  <2>2. CASE task[w] = t /\ seen[w] < MaxAttempts /\ Release(w, task[w], "awaiting_retry")
    BY <1>0, <1>6, <2>2, RetryAffordable DEF FailWrite
  <2> QED
    BY <1>6, <2>1, <2>2 DEF FailWrite
<1>7. ASSUME NEW w \in Workers, Complete(w) \/ FailPermanent(w) PROVE Quiet
  BY <1>4, <1>7, SMT DEF Complete, FailPermanent, Busy, Terminal
<1>8. ASSUME NEW w \in Workers, HandlerCommits(w) \/ WorkRaises(w) PROVE Quiet
  <2>1. Untouched
    BY <1>8 DEF HandlerCommits, WorkRaises, rows, history
  <2>2. Claims(t)' \subseteq Claims(t)
    BY <1>8, SMT
       DEF HandlerCommits, WorkRaises, rows, Claims, Abandoned, Executors, Executing, Busy, IInv, TypeOK
  <2> QED
    BY <1>3, <2>1, <2>2
<1>9. ASSUME NEW w \in Workers, FailRead(w) PROVE Quiet
  <2>1. Untouched
    BY <1>9 DEF FailRead, rows, history
  <2>2. ASSUME attempt[t] >= MaxAttempts, task[w] = t PROVE ~(seen'[w] < MaxAttempts)
    <3>1. seen'[w] = attempt[t]
      BY <1>9, <2>2 DEF FailRead, IInv, TypeOK
    <3> QED
      BY <1>1, <2>2, <3>1, QueueAssumption, SMT
  <2>3. attempt[t] >= MaxAttempts => Claims(t)' \subseteq Claims(t)
    BY <1>9, <2>2 DEF FailRead, rows, Claims, Abandoned, Executors, Executing, Busy, IInv, TypeOK
  <2> QED
    BY <1>3, <2>1, <2>3
<1>10. ASSUME NEW w \in Workers, Crash(w) PROVE Affordable(t)'
  <2>1. Claims(t)' \subseteq Claims(t) \cup {NoWorker} /\ attempt' = attempt /\ overruns' = overruns
    BY <1>10 DEF Crash, rows, Claims, Executors, Executing, Busy, IInv, TypeOK
  <2>2. CASE task[w] = t
    <3>1. crashes'[t] = crashes[t] + 1
      BY <1>10, <2>2 DEF Crash, IInv, TypeOK
    <3> QED
      BY <1>0, <1>1, <2>1, <3>1, PaidClaim, SMT
  <2>3. CASE task[w] # t
    <3>1. crashes'[t] = crashes[t]
      BY <1>10, <2>3 DEF Crash, IInv, TypeOK
    <3>2. Claims(t)' \subseteq Claims(t)
      BY <1>10, <2>3, SMT
         DEF Crash, rows, Claims, Abandoned, Executors, Executing, Busy, IInv, TypeOK
    <3>3. Quiet
      BY <1>1, <2>1, <3>1, <3>2, SMT DEF Quiet
    <3> QED
      BY <1>2, <3>3
  <2> QED
    BY <2>2, <2>3
<1>11. ASSUME NEW u \in Tasks, LeaseExpires(u) PROVE Affordable(t)'
  <2>1. UNCHANGED <<attempt, crashes>> /\ Claims(t)' \subseteq Claims(t) \cup {NoWorker}
    BY <1>11 DEF LeaseExpires, procs, Claims, Executors, Executing
  <2>2. CASE u = t /\ worker_id[t] \in Executors(t)
    <3>1. overruns'[t] = overruns[t] + 1
      BY <1>11, <2>2 DEF LeaseExpires, IInv, TypeOK
    <3> QED
      BY <1>0, <1>1, <2>1, <3>1, PaidClaim, SMT
  <2>3. CASE ~(u = t /\ worker_id[t] \in Executors(t))
    <3>1. overruns'[t] = overruns[t]
      BY <1>11, <2>3 DEF LeaseExpires, IInv, TypeOK
    <3>2. Claims(t)' \subseteq Claims(t)
      BY <1>11, <2>3, SMT
         DEF LeaseExpires, procs, Claims, Abandoned, Executors, Executing, IInv, TypeOK, LeaseIffRunning
    <3>3. Quiet
      BY <1>1, <2>1, <3>1, <3>2, SMT DEF Quiet
    <3> QED
      BY <1>2, <3>3
  <2> QED
    BY <2>2, <2>3
<1>12. ASSUME NEW u \in Tasks, EnqueueTask(u) PROVE Quiet
  <2>1. Untouched
    BY <1>12 DEF EnqueueTask, history
  <2>2. u = t => ~(attempt[t] >= MaxAttempts)
    BY <1>0, <1>12, QueueAssumption, SMT DEF EnqueueTask
  <2>3. u # t => Claims(t)' \subseteq Claims(t)
    BY <1>12, SMT DEF EnqueueTask, procs, Claims, Abandoned, Executors, Executing, IInv, TypeOK
  <2> QED
    BY <1>3, <2>1, <2>2, <2>3
<1>13. ASSUME NEW u \in Tasks, BecomeDue(u) PROVE Quiet
  BY <1>3, <1>13 DEF BecomeDue, procs, history, Claims, Abandoned, Executors, Executing
<1>14. ASSUME NEW w \in Workers, Restart(w) PROVE Quiet
  <2>1. Untouched
    BY <1>14 DEF Restart, rows, history
  <2>2. Claims(t)' \subseteq Claims(t)
    BY <1>14 DEF Restart, rows, Claims, Abandoned, Executors, Executing, Busy, IInv, TypeOK
  <2> QED
    BY <1>3, <2>1, <2>2
<1>15. ASSUME ReapExpiredLeases PROVE Quiet
  <2>1. Untouched
    BY <1>15 DEF ReapExpiredLeases, history
  <2>2. Claims(t)' \subseteq Claims(t)
    BY <1>15
       DEF ReapExpiredLeases, Expired, procs, Claims, Abandoned, Executors, Executing, Claimable
  <2> QED
    BY <1>3, <2>1, <2>2
<1>16. ASSUME NEW c \in Campaigns, CancelQueuedForCampaign(c) PROVE Quiet
  <2>1. Untouched
    BY <1>16 DEF CancelQueuedForCampaign, history
  <2>2. Claims(t)' \subseteq Claims(t)
    BY <1>16
       DEF CancelQueuedForCampaign, QueuedOf, procs, Claims, Abandoned, Executors, Executing, Claimable
  <2> QED
    BY <1>3, <2>1, <2>2
<1>17. CASE UNCHANGED vars
  <2>1. Untouched /\ Claims(t)' \subseteq Claims(t)
    BY <1>17 DEF vars, rows, procs, history, Claims, Abandoned, Executors, Executing
  <2> QED
    BY <1>2, <1>3, <2>1
<1> QED
  BY <1>2, <1>5, <1>6, <1>7, <1>8, <1>9, <1>10, <1>11, <1>12, <1>13, <1>14, <1>15, <1>16, <1>17
     DEF Next, RunOnce

\* No row of the table has been claimed at the start.
LEMMA BudgetedInit == Init => Budgeted
<1> SUFFICES ASSUME Init, NEW t \in Tasks PROVE attempt[t] = 0 /\ ~(attempt[t] >= MaxAttempts)
  BY DEF Budgeted, Affordable
<1> QED
  BY QueueAssumption, SMT DEF Init

\* A row is claimed at most max_attempts times, plus once for every worker that died
\* with it and every lease of it that ended early, whatever zombies retry it.
THEOREM AttemptsAreBudgeted == Spec => []AttemptsWithinBudget
<1>1. IInv /\ Budgeted => AttemptsWithinBudget
  <2> SUFFICES ASSUME IInv, Budgeted, NEW t \in Tasks
               PROVE  attempt[t] <= MaxAttempts + crashes[t] + overruns[t]
    BY DEF AttemptsWithinBudget
  <2>1. attempt[t] \in Nat /\ crashes[t] \in Nat /\ overruns[t] \in Nat /\ MaxAttempts \in Nat
    BY Counters, QueueAssumption
  <2>2. CASE attempt[t] >= MaxAttempts
    <3>1. /\ IsFiniteSet(Claims(t))
          /\ attempt[t] + Cardinality(Claims(t)) <= MaxAttempts + crashes[t] + overruns[t]
      BY <2>2 DEF Budgeted, Affordable
    <3> QED
      BY <2>1, <3>1, FS_CardinalityType, SMT
  <2>3. CASE ~(attempt[t] >= MaxAttempts)
    BY <2>1, <2>3, SMT
  <2> QED
    BY <2>2, <2>3
<1>2. IInv /\ IInv' /\ StraysBounded' /\ Budgeted /\ [Next]_vars => Budgeted'
  <2> SUFFICES ASSUME IInv, IInv', StraysBounded', Budgeted, [Next]_vars, NEW t \in Tasks
               PROVE  (status'[t] = "absent" => attempt'[t] = 0) /\ Affordable(t)'
    BY DEF Budgeted
  <2>1. status[t] = "absent" => attempt[t] = 0
    BY DEF Budgeted
  <2> QED
    BY <2>1, UnclaimedStep, AffordableStep
<1> QED
  BY <1>1, <1>2, BudgetedInit, StraysInvariant, Inductive, PTL DEF Spec

-----------------------------------------------------------------------------
\* The refinement: with leases that outlive handlers every step of the queue
\* is a step of TaskContract or leaves the contract's variables alone.

\* claim, retry, reaping and crashes are invisible to the contract; the other
\* transactions of queue.py and worker.py are its steps.
LEMMA ContractStep ==
  ASSUME MaxOverruns = 0, IInv, [Next]_vars
  PROVE  [Contract!Next]_(Contract!vars)
<1> DEFINE ph == [t \in Tasks |-> PhaseOf(status[t])]
<1> DEFINE Same == UNCHANGED <<ph, effects>>
<1> USE QueueAssumption DEF IInv, TypeOK, Statuses, Claimable, Terminal, Busy, PhaseOf
<1>0. ASSUME Same PROVE UNCHANGED Contract!vars
  BY <1>0 DEF Contract!vars
<1>1. \A w \in Workers : pc[w] \in Busy =>
        task[w] \in Tasks /\ status[task[w]] = "running"
  BY SMT DEF OwnerHolds, LeaseIffRunning, Executing
<1>2. ASSUME NEW t \in Tasks, EnqueueTask(t)
      PROVE  Contract!Accept(t)
  BY <1>2 DEF EnqueueTask, history, Contract!Accept
<1>3. ASSUME NEW t \in Tasks, BecomeDue(t) \/ LeaseExpires(t)
      PROVE  Same
  BY <1>3 DEF BecomeDue, LeaseExpires, history
<1>4. ASSUME NEW w \in Workers, NEW t \in Tasks, ClaimNext(w, t)
      PROVE  Same
  BY <1>4 DEF ClaimNext, history
<1>5. ASSUME NEW w \in Workers, NEW t \in Tasks, task[w] = t, HandlerCommits(w)
      PROVE  Contract!Apply(t)
  BY <1>1, <1>5 DEF HandlerCommits, rows, Contract!Apply
<1>6. ASSUME NEW w \in Workers, NEW t \in Tasks, task[w] = t, Complete(w)
      PROVE  Contract!Succeed(t)
  BY <1>1, <1>6 DEF Complete, Release, history, Performed, CompletingPerformed,
         Contract!Succeed
<1>7. ASSUME NEW w \in Workers, NEW t \in Tasks, task[w] = t, FailPermanent(w)
      PROVE  Contract!GiveUp(t)
  BY <1>1, <1>7 DEF FailPermanent, Release, history, Contract!GiveUp
<1>8. ASSUME NEW w \in Workers, NEW t \in Tasks, task[w] = t, FailWrite(w)
      PROVE  Contract!GiveUp(t) \/ Same
  <2>1. CASE seen[w] >= MaxAttempts
    <3>1. pc[w] \in Busy /\ Release(w, t, "failed")
      BY <1>8, <2>1, SMT DEF FailWrite
    <3>2. status[t] = "running"
      BY <1>1, <1>8, <3>1
    <3> QED
      BY <3>1, <3>2 DEF Release, history, Contract!GiveUp
  <2>2. CASE seen[w] < MaxAttempts
    BY <1>1, <1>8, <2>2, SMT DEF FailWrite, Release, history
  <2> QED
    BY <2>1, <2>2, SMT
<1>9. ASSUME NEW w \in Workers,
             WorkRaises(w) \/ FailRead(w) \/ Crash(w) \/ Restart(w)
      PROVE  Same
  BY <1>9 DEF WorkRaises, FailRead, Crash, Restart, rows, history
<1>10. ASSUME ReapExpiredLeases PROVE Same
  BY <1>10 DEF ReapExpiredLeases, Expired, history
<1>11. ASSUME NEW c \in Campaigns, NEW S \in SUBSET Tasks, S = QueuedOf(c),
              CancelQueuedForCampaign(c)
       PROVE  Contract!Withdraw(S)
  BY <1>11 DEF CancelQueuedForCampaign, QueuedOf, history, Contract!Withdraw
<1>12. ASSUME NEW c \in Campaigns PROVE QueuedOf(c) \in SUBSET Tasks
  BY DEF QueuedOf
<1>13. CASE UNCHANGED vars
  BY <1>13, <1>0 DEF vars, rows, history
<1>14. CASE \E t \in Tasks : EnqueueTask(t) \/ BecomeDue(t) \/ LeaseExpires(t)
  BY <1>14, <1>0, <1>2, <1>3 DEF Contract!Next
<1>15. CASE \E w \in Workers : RunOnce(w) \/ Crash(w) \/ Restart(w)
  <2> PICK w \in Workers : RunOnce(w) \/ Crash(w) \/ Restart(w)
    BY <1>15
  <2>2. CASE HandlerCommits(w) \/ Complete(w) \/ FailPermanent(w) \/ FailWrite(w)
    <3>1. pc[w] \in Busy
      BY <2>2 DEF HandlerCommits, Complete, FailPermanent, FailWrite
    <3> PICK t \in Tasks : task[w] = t
      BY <3>1, <1>1
    <3>2. Contract!Apply(t) \/ Contract!Succeed(t) \/ Contract!GiveUp(t) \/ Same
      BY <2>2, <1>5, <1>6, <1>7, <1>8
    <3> QED
      BY <3>2, <1>0 DEF Contract!Next
  <2>3. CASE WorkRaises(w) \/ FailRead(w) \/ Crash(w) \/ Restart(w)
    BY <2>3, <1>0, <1>9
  <2>4. CASE \E t \in Tasks : ClaimNext(w, t)
    BY <2>4, <1>0, <1>4
  <2> QED
    BY <2>2, <2>3, <2>4 DEF RunOnce
<1>16. CASE ReapExpiredLeases
  BY <1>16, <1>0, <1>10
<1>17. CASE \E c \in Campaigns : CancelQueuedForCampaign(c)
  <2> PICK c \in Campaigns : CancelQueuedForCampaign(c)
    BY <1>17
  <2> PICK S \in SUBSET Tasks : S = QueuedOf(c)
    BY <1>12
  <2>1. Contract!Withdraw(S)
    BY <1>11
  <2> QED
    BY <2>1 DEF Contract!Next
<1> QED
  BY <1>13, <1>14, <1>15, <1>16, <1>17 DEF Next

\* When every handler returns before its lease ends, queue.py and worker.py
\* implement the at-least-once contract of TaskContract.
THEOREM QueueKeepsContract ==
  ASSUME MaxOverruns = 0
  PROVE  Spec => ImplementsContract
<1>1. Init => Contract!Init
  BY QueueAssumption DEF Init, Contract!Init, PhaseOf, Claimable
<1>2. IInv /\ [Next]_vars => [Contract!Next]_(Contract!vars)
  BY ContractStep
<1> QED
  BY <1>1, <1>2, Inductive, PTL DEF Spec, ImplementsContract, Contract!Spec
=============================================================================
