---------------------------- MODULE ResumePipeline ----------------------------
(***************************************************************************)
(* POST /resumes, the resume_parse task and the results page around one    *)
(* job of JobQueue each: the PDF on disk, the resumes row, and the         *)
(* async_jobs row are three records that three processes write, each in a  *)
(* transaction of its own.  A resume is named by its job.                  *)
(*                                                                         *)
(* Every step is a step of JobQueue or leaves the queue alone, so what is  *)
(* proved of JobQueue holds here.                                          *)
(***************************************************************************)
EXTENDS JobQueue

VARIABLES
    file,       \* the PDF is on disk
    resume,     \* resumes.status, "none" before the INSERT is committed
    data,       \* parsed_data, ats_score and embedding are set
    upload,     \* where POST /resumes stands outside enqueue_job
    stage,      \* where resume_parse's handler stands
    page,       \* the status the results page got from GET /resumes/{id}
    breaks      \* faults of this module's own actors so far, at most MaxFaults

resumeVars == <<file, resume, data, upload, stage, page, breaks>>

vars == <<queueVars, resumeVars>>

ResumeInit ==
    /\ Init
    /\ file = [j \in Jobs |-> FALSE]
    /\ resume = [j \in Jobs |-> "none"]
    /\ data = [j \in Jobs |-> FALSE]
    /\ upload = [j \in Jobs |-> "idle"]
    /\ stage = [j \in Jobs |-> "idle"]
    /\ page = [j \in Jobs |-> "none"]
    /\ breaks = 0

-----------------------------------------------------------------------------
(***************************************************************************)
(* POST /resumes.  The row is flushed for its id, the file written, and    *)
(* the row committed; only then is the job enqueued.                       *)
(***************************************************************************)

WriteFile(j) ==
    /\ upload[j] = "idle"
    /\ file' = [file EXCEPT ![j] = TRUE]
    /\ upload' = [upload EXCEPT ![j] = "written"]
    /\ UNCHANGED <<queueVars, resume, data, stage, page, breaks>>

StoreRow(j) ==
    /\ upload[j] = "written"
    /\ resume' = [resume EXCEPT ![j] = "uploaded"]
    /\ upload' = [upload EXCEPT ![j] = "stored"]
    /\ UNCHANGED <<queueVars, file, data, stage, page, breaks>>

EnqueueParse(j) ==
    /\ upload[j] = "stored"
    /\ Insert(j)
    /\ UNCHANGED resumeVars

\* Mutant of RefuseUpload: a finally in place of the except.
RefuseUploadFinally(j) ==
    /\ request[j] \in {"raised", "returned"} /\ upload[j] = "stored"
    /\ resume' = [resume EXCEPT ![j] = "failed"]
    /\ upload' = [upload EXCEPT ![j] = "refused"]
    /\ UNCHANGED <<queueVars, file, data, stage, page, breaks>>

\* except EnqueueFailedError: the resume becomes failed, whatever it is by now.
RefuseUpload(j) ==
    /\ request[j] = "raised" /\ upload[j] = "stored"
    /\ resume' = [resume EXCEPT ![j] = "failed"]
    /\ upload' = [upload EXCEPT ![j] = "refused"]
    /\ UNCHANGED <<queueVars, file, data, stage, page, breaks>>

\* The API dies in the part of the handler that is not enqueue_job.
UploadKilled(j) ==
    /\ \/ upload[j] = "written"
       \/ upload[j] = "stored" /\ request[j] \in {"idle", "raised"}
    /\ breaks < MaxFaults
    /\ upload' = [upload EXCEPT ![j] = "killed"]
    /\ breaks' = breaks + 1
    /\ UNCHANGED <<queueVars, file, resume, data, stage, page>>

-----------------------------------------------------------------------------
(***************************************************************************)
(* resume_parse's handler, between MarkRunning and the recorded outcome.   *)
(***************************************************************************)
ParseBegins(j) ==
    /\ run[j] = "working" /\ stage[j] = "idle"
    /\ resume' = [resume EXCEPT ![j] = "processing"]
    /\ stage' = [stage EXCEPT ![j] = "parsing"]
    /\ UNCHANGED <<queueVars, file, data, upload, page, breaks>>

\* The thread that extracts, scores and embeds comes back, with a result or not.
ParseEnds(j) ==
    /\ run[j] = "working" /\ stage[j] = "parsing"
    /\ \E end \in {"parsed", "unparsed"} : stage' = [stage EXCEPT ![j] = end]
    /\ UNCHANGED <<queueVars, file, resume, data, upload, page, breaks>>

\* Mutant of WriteParsed: the embedding is left to a job of its own.
WriteParsedFirst(j) ==
    /\ run[j] = "working" /\ stage[j] = "parsed"
    /\ resume' = [resume EXCEPT ![j] = "parsed"]
    /\ stage' = [stage EXCEPT ![j] = "done"]
    /\ UNCHANGED <<queueVars, file, data, upload, page, breaks>>

WriteParsed(j) ==
    /\ run[j] = "working" /\ stage[j] = "parsed"
    /\ resume' = [resume EXCEPT ![j] = "parsed"]
    /\ data' = [data EXCEPT ![j] = TRUE]
    /\ stage' = [stage EXCEPT ![j] = "done"]
    /\ UNCHANGED <<queueVars, file, upload, page, breaks>>

WriteFailed(j) ==
    /\ run[j] = "working" /\ stage[j] = "unparsed"
    /\ resume' = [resume EXCEPT ![j] = "failed"]
    /\ stage' = [stage EXCEPT ![j] = "broken"]
    /\ UNCHANGED <<queueVars, file, data, upload, page, breaks>>

\* The database refuses one of the handler's three writes of the resume; none of
\* them is inside a try whose except would write failed.
WriteBreaks(j) ==
    /\ run[j] = "working" /\ stage[j] \in {"idle", "parsed", "unparsed"}
    /\ breaks < MaxFaults
    /\ stage' = [stage EXCEPT ![j] = "broken"]
    /\ breaks' = breaks + 1
    /\ UNCHANGED <<queueVars, file, resume, data, upload, page>>

\* Mutant of ParseReturns: the handler does not await its last write.
ParseReturnsEarly(j) ==
    /\ stage[j] \in {"parsed", "done"}
    /\ HandlerReturns(j)
    /\ UNCHANGED resumeVars

ParseReturns(j) ==
    /\ stage[j] = "done"
    /\ HandlerReturns(j)
    /\ UNCHANGED resumeVars

ParseRaises(j) ==
    /\ stage[j] = "broken"
    /\ HandlerRaises(j)
    /\ UNCHANGED resumeVars

-----------------------------------------------------------------------------
\* The results page: one GET /resumes/{id} after the poller saw a terminal status.
ShowResume(j) ==
    /\ shown[j] \in Terminal /\ page[j] = "none"
    /\ page' = [page EXCEPT ![j] = resume[j]]
    /\ UNCHANGED <<queueVars, file, resume, data, upload, stage, breaks>>

\* Steps of JobQueue in which this module's actors have no part.
QueueOnly ==
    /\ \/ \E j \in Jobs : \/ Enqueuer(j) \/ Poll(j) \/ Take(j) \/ MarkRunning(j)
                          \/ RecordSuccess(j) \/ RecordFailure(j) \/ DropOrphan(j)
       \/ QueueFaults
    /\ UNCHANGED resumeVars

Router(j) == StoreRow(j) \/ EnqueueParse(j) \/ RefuseUpload(j)

Handler(j) ==
    \/ ParseBegins(j) \/ ParseEnds(j) \/ WriteParsed(j) \/ WriteFailed(j)
    \/ ParseReturns(j) \/ ParseRaises(j)

ResumeNext ==
    \/ \E j \in Jobs : \/ WriteFile(j) \/ Router(j) \/ Handler(j) \/ ShowResume(j)
                       \/ UploadKilled(j) \/ WriteBreaks(j)
    \/ QueueOnly

ResumeSpec == ResumeInit /\ [][ResumeNext]_vars

\* The API and the worker go on with what they began, and the page polls on.
ResumeFairness ==
    \A j \in Jobs :
      /\ WF_vars(Router(j)) /\ WF_vars(Handler(j)) /\ WF_vars(ShowResume(j))
      /\ WF_vars(Enqueuer(j) /\ UNCHANGED resumeVars)
      /\ WF_vars(Poll(j) /\ UNCHANGED resumeVars)
      /\ WF_vars((Take(j) \/ MarkRunning(j) \/ RecordSuccess(j) \/ RecordFailure(j) \/ DropOrphan(j))
                   /\ UNCHANGED resumeVars)

FairResumeSpec == ResumeSpec /\ ResumeFairness

-----------------------------------------------------------------------------
ResumeTypeOK ==
    /\ TypeOK
    /\ file \in [Jobs -> BOOLEAN]
    /\ resume \in [Jobs -> {"none", "uploaded", "processing", "parsed", "failed"}]
    /\ data \in [Jobs -> BOOLEAN]
    /\ upload \in [Jobs -> {"idle", "written", "stored", "refused", "killed"}]
    /\ stage \in [Jobs -> {"idle", "parsing", "parsed", "unparsed", "done", "broken"}]
    /\ page \in [Jobs -> {"none", "uploaded", "processing", "parsed", "failed"}]
    /\ breaks \in Nat

\* "by the time status is `parsed`, `embedding` is always set too" (resume_parse's
\* docstring), and the file the row points at is there: /matches and
\* POST /interviews use any resume that says parsed.
ParsedIsUsable ==
    \A j \in Jobs :
      /\ resume[j] = "parsed" => data[j]
      /\ resume[j] # "none" => file[j]

\* A resume the candidate was given an id for says what its job says: the two
\* outcomes are written apart, the resume first.  Only a refused write can
\* leave a failed job's resume behind.
PollerFindsOutcome ==
    \A j \in Jobs : request[j] = "returned" =>
      /\ shown[j] = "succeeded" => resume[j] = "parsed" /\ page[j] \in {"none", "parsed"}
      /\ shown[j] = "failed" /\ breaks = 0 => resume[j] = "failed" /\ page[j] \in {"none", "failed"}

\* The resume follows its handler, unless the router wrote failed onto it.
ResumeFollowsStage(j) ==
    /\ stage[j] = "idle" => resume[j] \in {"none", "uploaded"}
    /\ stage[j] \in {"parsing", "parsed", "unparsed"} => resume[j] = "processing"
    /\ stage[j] = "done" => resume[j] = "parsed"
    /\ stage[j] = "broken" => resume[j] # "parsed" /\ (breaks = 0 => resume[j] = "failed")

\* The inductive invariant, on top of the queue's.
ResumeInStep(j) ==
    /\ upload[j] \in {"idle", "written"} => resume[j] = "none" /\ request[j] = "idle"
    /\ upload[j] = "written" \/ resume[j] # "none" => file[j]
    /\ upload[j] = "stored" \/ request[j] # "idle" => resume[j] # "none"
    /\ upload[j] \in {"refused", "killed"} => request[j] \in {"idle", "raised"}
    /\ resume[j] = "parsed" => data[j]
    /\ run[j] \in {"none", "taken"} => stage[j] = "idle"
    /\ run[j] \in {"returned", "succeeded"} => stage[j] = "done"
    /\ run[j] \in {"raised", "failed"} => stage[j] = "broken"
    /\ upload[j] # "refused" => ResumeFollowsStage(j)
    /\ shown[j] # "none" => request[j] = "returned"
    /\ shown[j] \in Terminal => run[j] = shown[j]
    /\ page[j] # "none" => shown[j] \in Terminal /\ page[j] = resume[j]

ResumeInv == ResumeTypeOK /\ QueueInv /\ \A j \in Jobs : ResumeInStep(j)

\* A parsed resume is never taken back from a candidate who was given its id: one
\* that /matches or an interview already used stays usable (the router's failed
\* goes only to resumes whose upload was refused).
ParsedStays ==
    [][\A j \in Jobs : resume[j] = "parsed" /\ request[j] = "returned" => resume'[j] = "parsed"]_vars

\* A stored upload comes to its results page, whatever happens to other uploads:
\* only a request or run of its own that was killed or refused leaves it waiting.
PageSettles ==
    \A j \in Jobs : upload[j] = "stored" ~>
        page[j] # "none" \/ request[j] \in {"killed", "raised"} \/ run[j] = "lost" \/ upload[j] = "killed"
=============================================================================
