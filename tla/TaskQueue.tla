----------------------------- MODULE TaskQueue -----------------------------
(***************************************************************************)
(* The durable task queue (app/orchestrator/queue.py) and the worker       *)
(* processes that drain it (app/orchestrator/worker.py).                   *)
(*                                                                         *)
(* A row of the `task` table is a member of Tasks.  Every action below is  *)
(* one database transaction of the code, or one event outside it: the      *)
(* clock passing `scheduled_for` or `leased_until`, a worker process       *)
(* dying or being restarted.  Timestamps are reduced to the two questions  *)
(* the code asks of them: is `scheduled_for` in the past (the set due),    *)
(* and is `leased_until` in the past (the value "expired").                *)
(*                                                                         *)
(* run_once uses three transactions per task: claim, handler, then         *)
(* complete or fail.  fail() reads the row before it writes it, without a  *)
(* row lock, so its read and its write are two steps.                      *)
(***************************************************************************)
EXTENDS Integers, FiniteSets

CONSTANTS
  Tasks,          \* ids of the rows that may be inserted
  Workers,        \* worker processes
  Campaigns,      \* campaigns the tasks belong to
  Keys,           \* idempotency keys
  NoKey,          \* idempotency_key IS NULL
  NoWorker,       \* worker_id IS NULL
  NoTask,         \* a worker with no task in hand
  CampaignOf,     \* the campaign_id of each row
  KeyOf,          \* the idempotency_key of each row
  Registered,     \* the rows whose skill_name has a handler in the registry
  MaxAttempts,    \* Task.max_attempts
  MaxCrashes,     \* bound: worker crashes while a given task is in hand
  MaxOverruns     \* bound: leases of a given task that end under a live worker

ASSUME QueueAssumption ==
  /\ NoWorker \notin Workers
  /\ NoTask \notin Tasks
  /\ NoKey \notin Keys
  /\ CampaignOf \in [Tasks -> Campaigns]
  /\ KeyOf \in [Tasks -> Keys \cup {NoKey}]
  /\ Registered \subseteq Tasks
  /\ MaxAttempts \in Nat \ {0}
  /\ MaxCrashes \in Nat
  /\ MaxOverruns \in Nat

VARIABLES
  status,         \* Task.status of each row ("absent": not inserted yet)
  attempt,        \* Task.attempt
  worker_id,      \* Task.worker_id
  leased_until,   \* Task.leased_until against the clock
  due,            \* rows whose scheduled_for has passed
  pc,             \* where each worker is in run_once
  task,           \* the task each worker has in hand
  seen,           \* the attempt count fail() read, for each worker
  effects,        \* history: committed handler transactions of each row
  crashes,        \* history: workers that died with the row in hand
  overruns        \* history: leases of the row that ended under a live worker

rows == <<status, attempt, worker_id, leased_until, due>>
procs == <<pc, task, seen>>
history == <<effects, crashes, overruns>>
vars == <<rows, procs, history>>

Claimable == {"queued", "awaiting_retry"}
Terminal == {"succeeded", "failed", "cancelled"}
Statuses == {"absent", "running"} \cup Claimable \cup Terminal
Busy == {"handling", "completing", "failing", "retrying"}

\* Worker w has task t in hand: it claimed it and has not finished run_once.
Executing(w, t) == pc[w] \in Busy /\ task[w] = t

Executors(t) == {w \in Workers : Executing(w, t)}

Alive(w) == pc[w] # "dead"
-----------------------------------------------------------------------------
Init ==
  /\ status = [t \in Tasks |-> "absent"]
  /\ attempt = [t \in Tasks |-> 0]
  /\ worker_id = [t \in Tasks |-> NoWorker]
  /\ leased_until = [t \in Tasks |-> "none"]
  /\ due = {}
  /\ pc = [w \in Workers |-> "idle"]
  /\ task = [w \in Workers |-> NoTask]
  /\ seen = [w \in Workers |-> 0]
  /\ effects = [t \in Tasks |-> 0]
  /\ crashes = [t \in Tasks |-> 0]
  /\ overruns = [t \in Tasks |-> 0]

\* The partial unique index on (tenant_id, idempotency_key): a row whose key
\* is NULL never conflicts.
KeyFree(t) ==
  KeyOf[t] = NoKey \/ \A u \in Tasks : status[u] # "absent" => KeyOf[u] # KeyOf[t]

\* enqueue_task inserting row t, for now or for a later slot.  When the key is
\* taken, ON CONFLICT DO NOTHING leaves the table alone: a stuttering step.
EnqueueTask(t) ==
  /\ status[t] = "absent"
  /\ KeyFree(t)
  /\ status' = [status EXCEPT ![t] = "queued"]
  /\ \E now \in BOOLEAN : due' = IF now THEN due \cup {t} ELSE due
  /\ UNCHANGED <<attempt, worker_id, leased_until, procs, history>>

\* The clock reaches scheduled_for.
BecomeDue(t) ==
  /\ status[t] \in Claimable
  /\ t \notin due
  /\ due' = due \cup {t}
  /\ UNCHANGED <<status, attempt, worker_id, leased_until, procs, history>>

\* Mutant of ClaimNext: no check of the status.
ClaimDue(w, t) ==
  /\ pc[w] = "idle"
  /\ t \in due
  /\ status' = [status EXCEPT ![t] = "running"]
  /\ attempt' = [attempt EXCEPT ![t] = @ + 1]
  /\ worker_id' = [worker_id EXCEPT ![t] = w]
  /\ leased_until' = [leased_until EXCEPT ![t] = "held"]
  /\ pc' = [pc EXCEPT ![w] = "handling"]
  /\ task' = [task EXCEPT ![w] = t]
  /\ UNCHANGED <<due, seen, history>>

\* claim_next, the first transaction of run_once.  ORDER BY picks one ready row
\* among those no other transaction has locked (SKIP LOCKED): any ready row.
ClaimNext(w, t) ==
  /\ pc[w] = "idle"
  /\ t \in due
  /\ status[t] \in Claimable
  /\ status' = [status EXCEPT ![t] = "running"]
  /\ attempt' = [attempt EXCEPT ![t] = @ + 1]
  /\ worker_id' = [worker_id EXCEPT ![t] = w]
  /\ leased_until' = [leased_until EXCEPT ![t] = "held"]
  /\ pc' = [pc EXCEPT ![w] = "handling"]
  /\ task' = [task EXCEPT ![w] = t]
  /\ UNCHANGED <<due, seen, history>>

\* The handler's own transaction commits.
HandlerCommits(w) ==
  /\ pc[w] = "handling"
  /\ task[w] \in Registered
  /\ effects' = [effects EXCEPT ![task[w]] = @ + 1]
  /\ pc' = [pc EXCEPT ![w] = "completing"]
  /\ UNCHANGED <<rows, task, seen, crashes, overruns>>

\* Mutant of WorkRaises: the exception is swallowed.
RaiseSwallowed(w) ==
  /\ pc[w] = "handling" /\ task[w] \in Registered
  /\ pc' = [pc EXCEPT ![w] = "completing"]
  /\ UNCHANGED <<rows, task, seen, history>>

\* The handler raises, or the transaction of complete() does: both are inside
\* the same try block and end in fail().
WorkRaises(w) ==
  /\ \/ pc[w] = "handling" /\ task[w] \in Registered
     \/ pc[w] = "completing"
  /\ pc' = [pc EXCEPT ![w] = "failing"]
  /\ UNCHANGED <<rows, task, seen, history>>

\* An UPDATE by task id that ends worker w's use of row t: no condition on the
\* status, the lease or the worker_id found there.
Release(w, t, newStatus) ==
  /\ status' = [status EXCEPT ![t] = newStatus]
  /\ worker_id' = [worker_id EXCEPT ![t] = NoWorker]
  /\ leased_until' = [leased_until EXCEPT ![t] = "none"]
  /\ pc' = [pc EXCEPT ![w] = "idle"]
  /\ task' = [task EXCEPT ![w] = NoTask]
  /\ seen' = [seen EXCEPT ![w] = 0]
  /\ UNCHANGED <<attempt, history>>

\* The third transaction of run_once after a handler that committed.
Complete(w) ==
  /\ pc[w] = "completing"
  /\ Release(w, task[w], "succeeded")
  /\ UNCHANGED due

\* run_once finds no handler for the skill: fail(permanent=True).
FailPermanent(w) ==
  /\ pc[w] = "handling"
  /\ task[w] \notin Registered
  /\ Release(w, task[w], "failed")
  /\ UNCHANGED due

\* The session.get at the top of fail().
FailRead(w) ==
  /\ pc[w] = "failing"
  /\ seen' = [seen EXCEPT ![w] = attempt[task[w]]]
  /\ pc' = [pc EXCEPT ![w] = "retrying"]
  /\ UNCHANGED <<rows, task, history>>

\* Mutant of FailWrite: one attempt too many.
FailWriteLate(w) ==
  /\ pc[w] = "retrying"
  /\ \/ /\ seen[w] > MaxAttempts
        /\ Release(w, task[w], "failed")
        /\ UNCHANGED due
     \/ /\ seen[w] <= MaxAttempts
        /\ Release(w, task[w], "awaiting_retry")
        /\ due' = due \ {task[w]}

\* The UPDATE of fail(), decided by the attempt count read before; a retry
\* moves scheduled_for to now + _compute_next_attempt_delay(attempt) > now.
FailWrite(w) ==
  /\ pc[w] = "retrying"
  /\ \/ /\ seen[w] >= MaxAttempts
        /\ Release(w, task[w], "failed")
        /\ UNCHANGED due
     \/ /\ seen[w] < MaxAttempts
        /\ Release(w, task[w], "awaiting_retry")
        /\ due' = due \ {task[w]}

\* The clock reaches leased_until: the lease is not renewed while the handler
\* runs, so this happens to a live worker too.
LeaseExpires(t) ==
  LET overrun == worker_id[t] \in Executors(t)
  IN  /\ leased_until[t] = "held"
      /\ overrun => overruns[t] < MaxOverruns
      /\ leased_until' = [leased_until EXCEPT ![t] = "expired"]
      /\ overruns' = IF overrun THEN [overruns EXCEPT ![t] = @ + 1] ELSE overruns
      /\ UNCHANGED <<status, attempt, worker_id, due, procs, effects, crashes>>

\* Mutant of Expired: the lease is not compared with the clock.
Unfinished == {t \in Tasks : status[t] = "running"}

\* Mutant of Expired: the wrong status.
ExpiredRetries == {t \in Tasks : status[t] = "awaiting_retry" /\ leased_until[t] = "expired"}

\* The rows reap_expired_leases selects.
Expired == {t \in Tasks : status[t] = "running" /\ leased_until[t] = "expired"}

\* reap_expired_leases, run by the _reap_loop of any live worker process:
\* one UPDATE over every running row whose lease is over.
ReapExpiredLeases ==
  /\ \E w \in Workers : Alive(w)
  /\ Expired # {}
  /\ status' = [t \in Tasks |-> IF t \in Expired THEN "awaiting_retry" ELSE status[t]]
  /\ worker_id' = [t \in Tasks |-> IF t \in Expired THEN NoWorker ELSE worker_id[t]]
  /\ leased_until' = [t \in Tasks |-> IF t \in Expired THEN "none" ELSE leased_until[t]]
  /\ UNCHANGED <<attempt, due, procs, history>>

\* Mutant of QueuedOf: finished rows too.
NotRunningOf(c) ==
  {t \in Tasks : CampaignOf[t] = c /\ status[t] \in Claimable \cup {"succeeded", "failed"}}

\* The rows cancel_queued_for_campaign selects.
QueuedOf(c) == {t \in Tasks : CampaignOf[t] = c /\ status[t] \in Claimable}

\* cancel_queued_for_campaign: running rows are left alone.
CancelQueuedForCampaign(c) ==
  /\ QueuedOf(c) # {}
  /\ status' = [t \in Tasks |-> IF t \in QueuedOf(c) THEN "cancelled" ELSE status[t]]
  /\ worker_id' = [t \in Tasks |-> IF t \in QueuedOf(c) THEN NoWorker ELSE worker_id[t]]
  /\ leased_until' = [t \in Tasks |-> IF t \in QueuedOf(c) THEN "none" ELSE leased_until[t]]
  /\ UNCHANGED <<attempt, due, procs, history>>

\* The process of w dies with a task in hand, or fail() itself raises and the
\* exception leaves run_loop: an open transaction is rolled back.
Crash(w) ==
  /\ pc[w] \in Busy
  /\ crashes[task[w]] < MaxCrashes
  /\ crashes' = [crashes EXCEPT ![task[w]] = @ + 1]
  /\ pc' = [pc EXCEPT ![w] = "dead"]
  /\ task' = [task EXCEPT ![w] = NoTask]
  /\ seen' = [seen EXCEPT ![w] = 0]
  /\ UNCHANGED <<rows, effects, overruns>>

\* The process manager starts the worker again (main).
Restart(w) ==
  /\ pc[w] = "dead"
  /\ pc' = [pc EXCEPT ![w] = "idle"]
  /\ UNCHANGED <<rows, task, seen, history>>

\* One transaction of run_once.
RunOnce(w) ==
  \/ \E t \in Tasks : ClaimNext(w, t)
  \/ HandlerCommits(w)
  \/ WorkRaises(w)
  \/ Complete(w)
  \/ FailPermanent(w)
  \/ FailRead(w)
  \/ FailWrite(w)

Next ==
  \/ \E t \in Tasks : EnqueueTask(t) \/ BecomeDue(t) \/ LeaseExpires(t)
  \/ \E w \in Workers : RunOnce(w) \/ Crash(w) \/ Restart(w)
  \/ ReapExpiredLeases
  \/ \E c \in Campaigns : CancelQueuedForCampaign(c)

Spec == Init /\ [][Next]_vars

\* The polling loop keeps calling run_once and every handler returns or raises;
\* the reaper wakes up every reap_interval_seconds; the clock advances; a dead
\* process is restarted.  Nothing forces callers to enqueue or cancel.
Fairness ==
  /\ \A w \in Workers : WF_vars(RunOnce(w)) /\ WF_vars(Restart(w))
  /\ \A t \in Tasks : WF_vars(BecomeDue(t)) /\ WF_vars(LeaseExpires(t))
  /\ WF_vars(ReapExpiredLeases)

FairSpec == Spec /\ Fairness
-----------------------------------------------------------------------------
\* Every variable keeps its type.
TypeOK ==
  /\ status \in [Tasks -> Statuses]
  /\ attempt \in [Tasks -> Nat]
  /\ worker_id \in [Tasks -> Workers \cup {NoWorker}]
  /\ leased_until \in [Tasks -> {"none", "held", "expired"}]
  /\ due \subseteq Tasks
  /\ pc \in [Workers -> {"idle", "dead"} \cup Busy]
  /\ task \in [Workers -> Tasks \cup {NoTask}]
  /\ \A w \in Workers : task[w] = NoTask <=> pc[w] \notin Busy
  /\ seen \in [Workers -> Nat]
  /\ effects \in [Tasks -> Nat]
  /\ crashes \in [Tasks -> 0..MaxCrashes]
  /\ overruns \in [Tasks -> 0..MaxOverruns]

\* A lease and a worker_id are on a row exactly while it is running: the
\* reaper finds every abandoned row and no other (queue.py, claim_next to
\* cancel_queued_for_campaign all write the three columns).
LeaseIffRunning ==
  \A t \in Tasks :
    /\ status[t] = "running" <=> leased_until[t] # "none"
    /\ status[t] = "running" <=> worker_id[t] # NoWorker

\* Two workers never execute one task unless a lease of that task ran out
\* under a live worker: the claim of claim_next is exclusive for as long as
\* leases outlive handlers, whatever crashes, retries and cancellations occur.
ExclusiveExecution ==
  \A t \in Tasks : overruns[t] = 0 =>
    \A w1, w2 \in Workers : Executing(w1, t) /\ Executing(w2, t) => w1 = w2

\* Each overrun adds at most one concurrent execution of the task, even when
\* zombies put the row back in the queue with complete() and fail() by id.
ExecutorsBounded ==
  \A t \in Tasks : Cardinality(Executors(t)) <= 1 + overruns[t]

\* A row is claimed at most max_attempts times, plus once for every lease the
\* reaper had to take back: reap_expired_leases returns the row to the queue
\* without looking at max_attempts.
AttemptsWithinBudget ==
  \A t \in Tasks : attempt[t] <= MaxAttempts + crashes[t] + overruns[t]

\* `succeeded` is never reported for work that was rolled back: complete()
\* follows the commit of the handler's transaction, on every path.
SucceededMeansPerformed ==
  \A t \in Tasks : status[t] = "succeeded" => effects[t] > 0

\* A finished task stays as it is unless a lease of it ran out under a live
\* worker, whose complete() or fail() by id then rewrites it.
FinishedStaysFinished ==
  [][\A t \in Tasks :
       overruns[t] = 0 /\ status[t] \in Terminal => status'[t] = status[t]]_vars

\* At-least-once delivery: every task ends in a terminal status for good; a
\* crash of its worker never strands it in `running`.
EverythingSettles ==
  <>[](\A t \in Tasks : status[t] \in Terminal \cup {"absent"})

-----------------------------------------------------------------------------
\* A task is open to its caller from its insertion to its terminal status.
PhaseOf(s) == IF s \in Claimable \cup {"running"} THEN "open" ELSE s

Contract == INSTANCE TaskContract
  WITH phase <- [t \in Tasks |-> PhaseOf(status[t])], applied <- effects

\* While no lease ends under a live worker (MaxOverruns = 0), the queue keeps
\* its contract: at-least-once delivery, closed once, never reopened.
ImplementsContract == Contract!Spec
=============================================================================
