--------------------------- MODULE MCResumePipeline ---------------------------
(* Values for the constants of ResumePipeline.                                *)
EXTENDS ResumePipeline

CONSTANTS j1, j2

\* "parsing raised an error; see linked async_job.error for detail"
\* (models/enums.py:24, ResumeStatus.FAILED): no resume whose parsing went through
\* to its last write says failed.
FailedMeansRaised == \A j \in Jobs : resume[j] = "failed" => stage[j] # "done"
=============================================================================
