---------------------------- MODULE JobLifecycle ----------------------------
(***************************************************************************)
(* What GET /jobs/{id} promises a client that was given a job id: the      *)
(* status only moves forward, and a terminal one is the last (the poller   *)
(* of use-job-status.ts stops there).                                      *)
(***************************************************************************)
CONSTANT Jobs

VARIABLE job    \* status of each job, "unknown" before a client holds its id

Terminal == {"succeeded", "failed"}

After(status) ==
    CASE status = "unknown" -> {"queued", "running"} \cup Terminal
      [] status = "queued"  -> {"running"}
      [] status = "running" -> Terminal
      [] OTHER              -> {}

Init == job = [j \in Jobs |-> "unknown"]

Advance(j) ==
    /\ j \in Jobs
    /\ \E status \in After(job[j]) : job' = [job EXCEPT ![j] = status]

Next == \E j \in Jobs : Advance(j)

Spec == Init /\ [][Next]_job
=============================================================================
