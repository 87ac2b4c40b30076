------------------------------- MODULE JobQueue -------------------------------
(***************************************************************************)
(* One kind of thing three processes keep in step: the async_jobs row in   *)
(* Postgres, the ARQ message in Redis, and the run of the handler in the   *)
(* worker.  enqueue_job commits the row and then pushes the message;       *)
(* run_tracked_job marks the row running, awaits the handler and writes    *)
(* the outcome, each in a transaction of its own; the client polls the row *)
(* once it was given the id.                                               *)
(*                                                                         *)
(* The branch of enqueue_job for a message id that ARQ already knows is    *)
(* left out: the id is a fresh UUID.                                       *)
(***************************************************************************)
EXTENDS Naturals, FiniteSets

CONSTANTS
    Jobs,           \* jobs that clients ask for
    MaxConcurrent,  \* ARQ's max_jobs: handlers the worker runs at once
    MaxFaults       \* bound: kills, timeouts and failed Redis calls

ASSUME QueueAssumption ==
    /\ IsFiniteSet(Jobs)
    /\ MaxConcurrent \in Nat \ {0}
    /\ MaxFaults \in Nat

VARIABLES
    row,        \* async_jobs.status, "none" before the INSERT is committed
    request,    \* where the caller of enqueue_job stands
    message,    \* the ARQ job in Redis
    run,        \* run_tracked_job in the worker
    shown,      \* the status the client's last poll returned
    faults      \* faults so far

queueVars == <<row, request, message, run, shown, faults>>

Terminal == {"succeeded", "failed"}

\* The handler holds one of the worker's max_jobs slots.
Active == {"taken", "working", "returned", "raised"}

Busy == {j \in Jobs : run[j] \in Active}

Init ==
    /\ row = [j \in Jobs |-> "none"]
    /\ request = [j \in Jobs |-> "idle"]
    /\ message = [j \in Jobs |-> "none"]
    /\ run = [j \in Jobs |-> "none"]
    /\ shown = [j \in Jobs |-> "none"]
    /\ faults = 0

-----------------------------------------------------------------------------
(***************************************************************************)
(* enqueue_job, in an API request or in a handler that chains a job.       *)
(***************************************************************************)

Insert(j) ==
    /\ request[j] = "idle"
    /\ row' = [row EXCEPT ![j] = "queued"]
    /\ request' = [request EXCEPT ![j] = "inserted"]
    /\ UNCHANGED <<message, run, shown, faults>>

\* Redis stores the message; its reply is still to come.
Deliver(j) ==
    /\ request[j] = "inserted"
    /\ message' = [message EXCEPT ![j] = "queued"]
    /\ request' = [request EXCEPT ![j] = "delivered"]
    /\ UNCHANGED <<row, run, shown, faults>>

\* The client is given the id.
Return(j) ==
    /\ request[j] = "delivered"
    /\ request' = [request EXCEPT ![j] = "returned"]
    /\ UNCHANGED <<row, message, run, shown, faults>>

\* redis.enqueue_job raises: the message was never stored, or the reply was lost.
PushFails(j) ==
    /\ request[j] \in {"inserted", "delivered"}
    /\ faults < MaxFaults
    /\ request' = [request EXCEPT ![j] = "refused"]
    /\ faults' = faults + 1
    /\ UNCHANGED <<row, message, run, shown>>

\* Mutant of MarkFailed: the id is returned all the same.
MarkFailedAndReturn(j) ==
    /\ request[j] = "refused"
    /\ row' = [row EXCEPT ![j] = "failed"]
    /\ request' = [request EXCEPT ![j] = "returned"]
    /\ UNCHANGED <<message, run, shown, faults>>

\* The except branch: whatever the row holds by now, it becomes failed.
MarkFailed(j) ==
    /\ request[j] = "refused"
    /\ row' = [row EXCEPT ![j] = "failed"]
    /\ request' = [request EXCEPT ![j] = "raised"]
    /\ UNCHANGED <<message, run, shown, faults>>

\* The process that runs enqueue_job dies.
RequestKilled(j) ==
    /\ request[j] \in {"inserted", "delivered", "refused"}
    /\ faults < MaxFaults
    /\ request' = [request EXCEPT ![j] = "killed"]
    /\ faults' = faults + 1
    /\ UNCHANGED <<row, message, run, shown>>

-----------------------------------------------------------------------------
(***************************************************************************)
(* The worker.                                                             *)
(***************************************************************************)
Take(j) ==
    /\ message[j] = "queued"
    /\ Cardinality(Busy) < MaxConcurrent
    /\ message' = [message EXCEPT ![j] = "taken"]
    /\ run' = [run EXCEPT ![j] = "taken"]
    /\ UNCHANGED <<row, request, shown, faults>>

MarkRunning(j) ==
    /\ run[j] = "taken"
    /\ row' = [row EXCEPT ![j] = "running"]
    /\ run' = [run EXCEPT ![j] = "working"]
    /\ UNCHANGED <<request, message, shown, faults>>

HandlerReturns(j) ==
    /\ run[j] = "working"
    /\ run' = [run EXCEPT ![j] = "returned"]
    /\ UNCHANGED <<row, request, message, shown, faults>>

HandlerRaises(j) ==
    /\ run[j] = "working"
    /\ run' = [run EXCEPT ![j] = "raised"]
    /\ UNCHANGED <<row, request, message, shown, faults>>

\* The outcome is written and ARQ forgets the message.
Ends(j, outcome) ==
    /\ row' = [row EXCEPT ![j] = outcome]
    /\ run' = [run EXCEPT ![j] = outcome]
    /\ message' = [message EXCEPT ![j] = "gone"]
    /\ UNCHANGED <<request, shown, faults>>

RecordSuccess(j) ==
    /\ run[j] = "returned"
    /\ Ends(j, "succeeded")

\* Mutant of RecordFailure: ARQ is told to try the job again.
RecordFailureRetries(j) ==
    /\ run[j] = "raised"
    /\ row' = [row EXCEPT ![j] = "queued"]
    /\ run' = [run EXCEPT ![j] = "taken"]
    /\ UNCHANGED <<request, message, shown, faults>>

\* Mutant of RecordFailure: the write is made in the session the handler broke.
RecordFailureLost(j) ==
    /\ run[j] = "raised"
    /\ run' = [run EXCEPT ![j] = "failed"]
    /\ message' = [message EXCEPT ![j] = "gone"]
    /\ UNCHANGED <<row, request, shown, faults>>

RecordFailure(j) ==
    /\ run[j] = "raised"
    /\ Ends(j, "failed")

\* ARQ's timeout cancels the handler: CancelledError is not an Exception, so
\* nothing is recorded, and the job is not retried (retry_jobs = False).
Cancel(j) ==
    /\ run[j] \in Active
    /\ faults < MaxFaults
    /\ run' = [run EXCEPT ![j] = "lost"]
    /\ message' = [message EXCEPT ![j] = "gone"]
    /\ faults' = faults + 1
    /\ UNCHANGED <<row, request, shown>>

\* The worker process dies with every handler it runs; their messages stay.
WorkerKilled ==
    /\ Busy # {}
    /\ faults < MaxFaults
    /\ run' = [j \in Jobs |-> IF j \in Busy THEN "lost" ELSE run[j]]
    /\ message' = [j \in Jobs |-> IF j \in Busy THEN "orphaned" ELSE message[j]]
    /\ faults' = faults + 1
    /\ UNCHANGED <<row, request, shown>>

\* Mutant of DropOrphan: max_tries = 2.
RunOrphanAgain(j) ==
    /\ message[j] = "orphaned"
    /\ message' = [message EXCEPT ![j] = "taken"]
    /\ run' = [run EXCEPT ![j] = "taken"]
    /\ UNCHANGED <<row, request, shown, faults>>

\* The next worker finds the message on its second try: max_tries = 1, so ARQ
\* gives it up without calling the function.
DropOrphan(j) ==
    /\ message[j] = "orphaned"
    /\ message' = [message EXCEPT ![j] = "gone"]
    /\ UNCHANGED <<row, request, run, shown, faults>>

\* GET /jobs/{id}, every second until the status is terminal.
Poll(j) ==
    /\ request[j] = "returned"
    /\ shown[j] \notin Terminal
    /\ shown' = [shown EXCEPT ![j] = row[j]]
    /\ UNCHANGED <<row, request, message, run, faults>>

-----------------------------------------------------------------------------
Enqueuer(j) == Deliver(j) \/ Return(j) \/ MarkFailed(j)

Worker(j) ==
    \/ Take(j) \/ MarkRunning(j) \/ HandlerReturns(j) \/ HandlerRaises(j)
    \/ RecordSuccess(j) \/ RecordFailure(j) \/ DropOrphan(j)

QueueFaults ==
    \/ \E j \in Jobs : PushFails(j) \/ RequestKilled(j) \/ Cancel(j)
    \/ WorkerKilled

Next ==
    \/ \E j \in Jobs : Insert(j) \/ Enqueuer(j) \/ Worker(j) \/ Poll(j)
    \/ QueueFaults

Spec == Init /\ [][Next]_queueVars

-----------------------------------------------------------------------------
Statuses == {"queued", "running"} \cup Terminal

TypeOK ==
    /\ row \in [Jobs -> Statuses \cup {"none"}]
    /\ request \in [Jobs -> {"idle", "inserted", "delivered", "returned", "refused",
                             "raised", "killed"}]
    /\ message \in [Jobs -> {"none", "queued", "taken", "orphaned", "gone"}]
    /\ run \in [Jobs -> Active \cup Terminal \cup {"none", "lost"}]
    /\ shown \in [Jobs -> Statuses \cup {"none"}]
    /\ faults \in Nat

\* The worker never looks up a row that is not committed: a message in Redis has
\* its async_jobs row (the order of commit and push in enqueue_job).
MessageHasRow == \A j \in Jobs : message[j] # "none" => row[j] # "none"

\* A terminal status tells what happened, and who wrote it: succeeded means the
\* handler returned, failed means it raised or the caller was told that the
\* job could not be queued (run_tracked_job and the except branch of enqueue_job).
OutcomeIsTrue ==
    \A j \in Jobs :
      /\ row[j] = "succeeded" => run[j] = "succeeded"
      /\ row[j] = "failed" => run[j] = "failed" \/ request[j] = "raised"
      /\ request[j] = "returned" /\ run[j] \in Terminal => row[j] = run[j]

\* No handler is started a second time, whatever dies (max_tries, retry_jobs).
NeverRunsTwice ==
    [][\A j \in Jobs : run[j] # "none" => run'[j] # "taken" \/ run[j] = "taken"]_queueVars

\* The row of a job whose enqueuer did not write failed onto it is where its run
\* is; a run that was lost leaves it behind.
RowFollowsRun(j) ==
    /\ run[j] \in {"none", "taken"} => row[j] = "queued"
    /\ run[j] \in {"working", "returned", "raised"} => row[j] = "running"
    /\ run[j] \in Terminal => row[j] = run[j]
    /\ run[j] = "lost" => row[j] \in {"queued", "running"}

\* The inductive invariant: how far request, message, run and row can be apart.
InStep(j) ==
    /\ request[j] = "idle" => row[j] = "none"
    /\ request[j] # "idle" => row[j] # "none"
    /\ request[j] \in {"idle", "inserted"} => message[j] = "none"
    /\ message[j] \in {"none", "queued"} => run[j] = "none"
    /\ message[j] = "taken" => run[j] \in Active
    /\ message[j] = "orphaned" => run[j] = "lost"
    /\ message[j] = "gone" => run[j] \in Terminal \cup {"lost"}
    /\ request[j] \notin {"idle", "raised"} => RowFollowsRun(j)
    /\ row[j] = "succeeded" => run[j] = "succeeded"

QueueInv == TypeOK /\ \A j \in Jobs : InStep(j)

Lifecycle == INSTANCE JobLifecycle WITH
    job <- [j \in Jobs |-> IF request[j] = "returned" THEN row[j] ELSE "unknown"]

\* A client that was given an id sees its job move forward and stay at the end,
\* in spite of every kill, timeout and lost reply (GET /jobs/{id}).
KeepsLifecycle == Lifecycle!Spec

\* What Redis holds is worked off, whatever is killed meanwhile: a job that ends
\* in any way gives its slot back.
QueueDrains == \A j \in Jobs : message[j] = "queued" ~> message[j] = "gone"
=============================================================================
