---------------------------- MODULE JobQueueProofs ----------------------------
(***************************************************************************)
(* Theorems about JobQueue for every set of jobs, every number of slots    *)
(* and every number of faults.                                             *)
(***************************************************************************)
EXTENDS JobQueue, TLAPS

LEMMA InitQueueInv == Init => QueueInv
BY DEF Init, QueueInv, TypeOK, InStep, Statuses, Terminal, Active, QueueAssumption

\* The steps that one job's actors take keep the four pieces of its state in step
\* and touch no other job.
LEMMA EnqueueStep ==
    ASSUME QueueInv, NEW j \in Jobs, Insert(j) \/ Enqueuer(j) \/ PushFails(j) \/ RequestKilled(j)
    PROVE  QueueInv'
<1> USE DEF QueueInv, TypeOK, InStep, RowFollowsRun, Statuses, Terminal, Active
<1>1. CASE Insert(j)
  BY <1>1 DEF Insert
<1>2. CASE Deliver(j)
  BY <1>2 DEF Deliver
<1>3. CASE Return(j)
  BY <1>3 DEF Return
<1>4. CASE MarkFailed(j)
  BY <1>4 DEF MarkFailed
<1>5. CASE PushFails(j)
  BY <1>5 DEF PushFails
<1>6. CASE RequestKilled(j)
  BY <1>6 DEF RequestKilled
<1> QED
  BY <1>1, <1>2, <1>3, <1>4, <1>5, <1>6 DEF Enqueuer

LEMMA WorkerStep ==
    ASSUME QueueInv, NEW j \in Jobs, Worker(j) \/ Cancel(j) \/ Poll(j)
    PROVE  QueueInv'
<1> USE DEF QueueInv, TypeOK, InStep, RowFollowsRun, Statuses, Terminal, Active
<1>1. CASE Take(j)
  BY <1>1 DEF Take
<1>2. CASE MarkRunning(j)
  BY <1>2 DEF MarkRunning
<1>3. CASE HandlerReturns(j)
  BY <1>3 DEF HandlerReturns
<1>4. CASE HandlerRaises(j)
  BY <1>4 DEF HandlerRaises
<1>5. CASE RecordSuccess(j)
  BY <1>5 DEF RecordSuccess, Ends
<1>6. CASE RecordFailure(j)
  BY <1>6 DEF RecordFailure, Ends
<1>7. CASE DropOrphan(j)
  BY <1>7 DEF DropOrphan
<1>8. CASE Cancel(j)
  BY <1>8 DEF Cancel
<1>9. CASE Poll(j)
  BY <1>9 DEF Poll
<1> QED
  BY <1>1, <1>2, <1>3, <1>4, <1>5, <1>6, <1>7, <1>8, <1>9 DEF Worker

LEMMA KillStep ==
    ASSUME QueueInv, WorkerKilled
    PROVE  QueueInv'
BY DEF WorkerKilled, Busy, QueueInv, TypeOK, InStep, RowFollowsRun, Statuses, Terminal, Active

LEMMA NextQueueInv == QueueInv /\ [Next]_queueVars => QueueInv'
<1> SUFFICES ASSUME QueueInv, [Next]_queueVars
             PROVE  QueueInv'
  OBVIOUS
<1>1. CASE UNCHANGED queueVars
  BY <1>1 DEF queueVars, QueueInv, TypeOK, InStep, RowFollowsRun
<1>2. CASE Next
  BY <1>2, EnqueueStep, WorkerStep, KillStep DEF Next, QueueFaults
<1> QED
  BY <1>1, <1>2

\* The request, the message, the run and the row of a job stay in step.
THEOREM QueueInvariance == Spec => []QueueInv
<1>1. Init => QueueInv
  BY InitQueueInv
<1>2. QueueInv /\ [Next]_queueVars => QueueInv'
  BY NextQueueInv
<1> QED
  BY <1>1, <1>2, PTL DEF Spec

\* Every variable keeps its type.
THEOREM QueueTypes == Spec => []TypeOK
<1>1. QueueInv => TypeOK
  BY DEF QueueInv
<1> QED
  BY <1>1, QueueInvariance, PTL

\* The worker never looks up a row that is not committed.
THEOREM MessagesHaveRows == Spec => []MessageHasRow
<1>1. QueueInv => MessageHasRow
  BY DEF QueueInv, InStep, MessageHasRow, TypeOK
<1> QED
  BY <1>1, QueueInvariance, PTL


\* A terminal status tells what happened.
THEOREM OutcomesAreTrue == Spec => []OutcomeIsTrue
<1>1. QueueInv => OutcomeIsTrue
  <2> SUFFICES ASSUME QueueInv, NEW j \in Jobs
               PROVE  /\ row[j] = "succeeded" => run[j] = "succeeded"
                      /\ row[j] = "failed" => run[j] = "failed" \/ request[j] = "raised"
                      /\ request[j] = "returned" /\ run[j] \in Terminal => row[j] = run[j]
    BY DEF OutcomeIsTrue
  <2>1. request[j] \notin {"idle", "raised"} => RowFollowsRun(j)
    BY DEF QueueInv, InStep
  <2>2. row[j] = "failed" => request[j] # "idle"
    BY DEF QueueInv, InStep
  <2>3. run[j] \in Active \cup Terminal \cup {"none", "lost"}
    BY DEF QueueInv, TypeOK
  <2> QED
    BY <2>1, <2>2, <2>3 DEF QueueInv, InStep, RowFollowsRun, Terminal, Active
<1> QED
  BY <1>1, QueueInvariance, PTL

\* No handler is started a second time.
THEOREM HandlersRunOnce == Spec => NeverRunsTwice
<1>1. QueueInv /\ [Next]_queueVars =>
        [\A j \in Jobs : run[j] # "none" => run'[j] # "taken" \/ run[j] = "taken"]_queueVars
  <2> SUFFICES ASSUME QueueInv, Next, NEW k \in Jobs, run[k] # "none", run'[k] = "taken"
               PROVE  run[k] = "taken"
    OBVIOUS
  <2>1. message[k] # "queued"
    BY DEF QueueInv, InStep
  <2>2. CASE \E j \in Jobs : Insert(j) \/ Enqueuer(j) \/ Poll(j) \/ PushFails(j) \/ RequestKilled(j)
    BY <2>2 DEF Insert, Enqueuer, Deliver, Return, MarkFailed, Poll, PushFails, RequestKilled
  <2>3. CASE \E j \in Jobs : Worker(j) \/ Cancel(j)
    BY <2>1, <2>3 DEF QueueInv, TypeOK, Worker, Take, MarkRunning, HandlerReturns, HandlerRaises,
                      RecordSuccess, RecordFailure, Ends, Terminal, DropOrphan, Cancel
  <2>4. CASE WorkerKilled
    BY <2>4 DEF WorkerKilled
  <2> QED
    BY <2>2, <2>3, <2>4 DEF Next, QueueFaults
<1> QED
  BY <1>1, QueueInvariance, PTL DEF Spec, NeverRunsTwice

-----------------------------------------------------------------------------
(***************************************************************************)
(* The refinement: what the holder of an id can see.                       *)
(***************************************************************************)
Seen(j) == IF request[j] = "returned" THEN row[j] ELSE "unknown"

\* One job moves on and the others stay as they were seen.
LEMMA OneAdvances ==
    ASSUME NEW j \in Jobs, \A k \in Jobs : k # j => Seen(k)' = Seen(k),
           Seen(j)' = Seen(j) \/ Seen(j)' \in Lifecycle!After(Seen(j))
    PROVE  Lifecycle!Next \/ [k \in Jobs |-> Seen(k)]' = [k \in Jobs |-> Seen(k)]
<1>1. CASE Seen(j)' = Seen(j)
  BY <1>1
<1>2. CASE Seen(j)' \in Lifecycle!After(Seen(j))
  <2> DEFINE before == [k \in Jobs |-> Seen(k)]
             after == [k \in Jobs |-> Seen(k)']
  <2>1. after = [before EXCEPT ![j] = Seen(j)']
    OBVIOUS
  <2>2. before[j] = Seen(j)
    OBVIOUS
  <2>3. Lifecycle!Advance(j)
    BY <1>2, <2>1, <2>2 DEF Lifecycle!Advance, Seen
  <2> QED
    BY <2>3 DEF Lifecycle!Next
<1> QED
  BY <1>1, <1>2

LEMMA SeenStep ==
    ASSUME QueueInv, NEW j \in Jobs,
           Insert(j) \/ Enqueuer(j) \/ Worker(j) \/ Poll(j) \/ PushFails(j) \/ RequestKilled(j)
             \/ Cancel(j)
    PROVE  /\ \A k \in Jobs : k # j => Seen(k)' = Seen(k)
           /\ Seen(j)' = Seen(j) \/ Seen(j)' \in Lifecycle!After(Seen(j))
<1> USE DEF Seen, Lifecycle!After, Lifecycle!Terminal
<1>1. InStep(j) /\ TypeOK
  BY DEF QueueInv
<1>2. request[j] = "returned" => RowFollowsRun(j)
  BY <1>1 DEF InStep
<1>3. CASE Insert(j)
  BY <1>1, <1>3 DEF Insert, TypeOK
<1>4. CASE Deliver(j)
  BY <1>1, <1>4 DEF Deliver, TypeOK
<1>5. CASE Return(j)
  <2>1. RowFollowsRun(j) /\ run[j] \in Active \cup Terminal \cup {"none", "lost"}
    BY <1>1, <1>5 DEF Return, InStep, TypeOK
  <2>2. row[j] \in {"queued", "running"} \cup Terminal
    BY <2>1 DEF RowFollowsRun, Active, Terminal
  <2> QED
    BY <1>1, <1>5, <2>2 DEF Return, TypeOK, Terminal
<1>6. CASE MarkFailed(j)
  BY <1>1, <1>6 DEF MarkFailed, TypeOK
<1>7. CASE PushFails(j)
  BY <1>1, <1>7 DEF PushFails, TypeOK
<1>8. CASE RequestKilled(j)
  BY <1>1, <1>8 DEF RequestKilled, TypeOK
<1>9. CASE Take(j) \/ HandlerReturns(j) \/ HandlerRaises(j) \/ DropOrphan(j) \/ Cancel(j) \/ Poll(j)
  BY <1>9 DEF Take, HandlerReturns, HandlerRaises, DropOrphan, Cancel, Poll
<1>10. CASE MarkRunning(j)
  BY <1>1, <1>2, <1>10 DEF MarkRunning, TypeOK, RowFollowsRun
<1>11. CASE RecordSuccess(j)
  BY <1>1, <1>2, <1>11 DEF RecordSuccess, Ends, TypeOK, RowFollowsRun
<1>12. CASE RecordFailure(j)
  BY <1>1, <1>2, <1>12 DEF RecordFailure, Ends, TypeOK, RowFollowsRun
<1> QED
  BY <1>3, <1>4, <1>5, <1>6, <1>7, <1>8, <1>9, <1>10, <1>11, <1>12 DEF Enqueuer, Worker

\* The queue implements the lifecycle its pollers rely on.
THEOREM LifecycleKept == Spec => KeepsLifecycle
<1> DEFINE jobs == [j \in Jobs |-> Seen(j)]
<1>1. Init => Lifecycle!Init
  BY DEF Init, Lifecycle!Init
<1>2. QueueInv /\ [Next]_queueVars => Lifecycle!Next \/ UNCHANGED jobs
  <2> SUFFICES ASSUME QueueInv, [Next]_queueVars
               PROVE  Lifecycle!Next \/ UNCHANGED jobs
    OBVIOUS
  <2>1. CASE \E j \in Jobs : Insert(j) \/ Enqueuer(j) \/ Worker(j) \/ Poll(j) \/ PushFails(j)
                               \/ RequestKilled(j) \/ Cancel(j)
    BY <2>1, SeenStep, OneAdvances
  <2>2. CASE WorkerKilled \/ UNCHANGED queueVars
    BY <2>2 DEF WorkerKilled, queueVars, Seen
  <2> QED
    BY <2>1, <2>2 DEF Next, QueueFaults
<1>3. QueueInv /\ [Next]_queueVars => [Lifecycle!Next]_jobs
  BY <1>2
<1> QED
  BY <1>1, <1>3, QueueInvariance, PTL DEF Spec, KeepsLifecycle, Lifecycle!Spec, Seen
=============================================================================
