----------------------------- MODULE MCJobQueue -----------------------------
(* What a comment in the code says of the queue and a run refutes; the queue *)
(* itself is checked with its caller, by the run of ResumePipeline.          *)
EXTENDS JobQueue

CONSTANT j1

\* The enqueuer, the worker and the poller go on with what they began.
FairQueueSpec ==
    Spec /\ \A j \in Jobs : /\ WF_queueVars(Enqueuer(j)) /\ WF_queueVars(Worker(j))
                            /\ WF_queueVars(Poll(j))

\* "do not re-queue crashed jobs; the Postgres row already records failed"
\* (workers/settings.py:56): a client that polls a job whose handler crashed
\* while its row said running is in the end shown failed.
CrashIsRecorded ==
    \A j \in Jobs :
        request[j] = "returned" /\ run[j] = "lost" /\ row[j] = "running"
            ~> shown[j] = "failed"
=============================================================================
