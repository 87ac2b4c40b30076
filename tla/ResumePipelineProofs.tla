------------------------- MODULE ResumePipelineProofs -------------------------
(***************************************************************************)
(* Theorems about ResumePipeline, on top of those about the queue it runs  *)
(* on.                                                                     *)
(***************************************************************************)
EXTENDS ResumePipeline, JobQueueProofs

\* Every step of the pipeline is a step of the queue, or none.
LEMMA StepIsQueueStep == ResumeNext => [Next]_queueVars
<1> SUFFICES ASSUME ResumeNext
             PROVE  [Next]_queueVars
  OBVIOUS
<1>1. CASE QueueOnly
  BY <1>1 DEF QueueOnly, Next, Worker
<1>2. ASSUME NEW j \in Jobs,
             \/ WriteFile(j) \/ Router(j) \/ Handler(j) \/ ShowResume(j)
             \/ UploadKilled(j) \/ WriteBreaks(j)
      PROVE  [Next]_queueVars
  <2>1. CASE EnqueueParse(j)
    BY <2>1 DEF EnqueueParse, Next
  <2>2. CASE ParseReturns(j) \/ ParseRaises(j)
    BY <2>2 DEF ParseReturns, ParseRaises, Next, Worker
  <2>3. CASE UNCHANGED queueVars
    BY <2>3
  <2> QED
    BY <1>2, <2>1, <2>2, <2>3 DEF WriteFile, Router, StoreRow, RefuseUpload, Handler, ParseBegins,
         ParseEnds, WriteParsed, WriteFailed, ShowResume, UploadKilled, WriteBreaks
<1> QED
  BY <1>1, <1>2 DEF ResumeNext

\* What is proved of JobQueue holds of the pipeline.
THEOREM PipelineIsQueue == ResumeSpec => Spec
<1>1. ResumeInit => Init
  BY DEF ResumeInit
<1>2. [ResumeNext]_vars => [Next]_queueVars
  BY StepIsQueueStep DEF vars
<1> QED
  BY <1>1, <1>2, PTL DEF ResumeSpec, Spec

-----------------------------------------------------------------------------
LEMMA InitResumeInv == ResumeInit => ResumeInv
BY InitQueueInv DEF ResumeInit, ResumeInv, QueueInv, ResumeTypeOK, ResumeInStep, ResumeFollowsStage,
                    Init, Terminal

\* What the queue's own steps leave as this module's actors need it.
LEMMA QueueOnlyStep ==
    ASSUME ResumeInv, QueueOnly, QueueInv'
    PROVE  \A j \in Jobs : ResumeInStep(j)'
<1> SUFFICES ASSUME NEW k \in Jobs
             PROVE  ResumeInStep(k)'
  OBVIOUS
<1> USE DEF ResumeInStep, ResumeFollowsStage, resumeVars
<1>1. /\ ResumeInStep(k) /\ InStep(k) /\ TypeOK /\ UNCHANGED resumeVars
      /\ run[k] \in Active \cup Terminal \cup {"none", "lost"}
  BY DEF ResumeInv, QueueInv, QueueOnly, TypeOK
<1>2. ASSUME NEW j \in Jobs, Enqueuer(j) \/ PushFails(j) \/ RequestKilled(j)
      PROVE  ResumeInStep(k)'
  <2>1. /\ run' = run /\ shown' = shown
        /\ k # j => request'[k] = request[k]
        /\ request[j] \in {"inserted", "delivered", "refused"}
        /\ request'[j] \in {"delivered", "returned", "refused", "raised", "killed"}
    BY <1>1, <1>2 DEF TypeOK, Enqueuer, Deliver, Return, MarkFailed, PushFails, RequestKilled
  <2> QED
    BY <1>1, <2>1
<1>3. ASSUME NEW j \in Jobs,
             Take(j) \/ MarkRunning(j) \/ RecordSuccess(j) \/ RecordFailure(j) \/ DropOrphan(j) \/ Cancel(j)
      PROVE  ResumeInStep(k)'
  <2>1. /\ request' = request /\ shown' = shown
        /\ \/ run'[k] = run[k]
           \/ run[k] = "none" /\ run'[k] = "taken" /\ message[k] = "queued"
           \/ run[k] = "taken" /\ run'[k] = "working"
           \/ run[k] = "returned" /\ run'[k] = "succeeded"
           \/ run[k] = "raised" /\ run'[k] = "failed"
           \/ run[k] \in Active /\ run'[k] = "lost"
    <3>1. message[j] = "queued" => run[j] = "none"
      BY DEF ResumeInv, QueueInv, InStep
    <3> QED
      BY <1>1, <1>3, <3>1 DEF TypeOK, Take, MarkRunning, RecordSuccess, RecordFailure, Ends,
           DropOrphan, Cancel
  <2> QED
    BY <1>1, <2>1 DEF Active, Terminal
<1>4. ASSUME NEW j \in Jobs, Poll(j)
      PROVE  ResumeInStep(k)'
  <2>1. /\ request' = request /\ run' = run
        /\ \/ shown'[k] = shown[k]
           \/ request[k] = "returned" /\ shown[k] \notin Terminal /\ shown'[k] = row[k]
    BY <1>1, <1>4 DEF TypeOK, Poll
  <2>2. request[k] = "returned" /\ row[k] \in Terminal => run[k] = row[k]
    BY <1>1 DEF InStep, RowFollowsRun, Terminal, Active
  <2> QED
    BY <1>1, <2>1, <2>2
<1>5. CASE WorkerKilled
  <2>1. /\ request' = request /\ shown' = shown
        /\ run'[k] = run[k] \/ (run[k] \in Active /\ run'[k] = "lost")
    BY <1>5 DEF WorkerKilled, Busy
  <2> QED
    BY <1>1, <2>1 DEF Active, Terminal
<1> QED
  BY <1>2, <1>3, <1>4, <1>5 DEF QueueOnly, QueueFaults

LEMMA ActorStep ==
    ASSUME ResumeInv, NEW j \in Jobs,
           \/ WriteFile(j) \/ Router(j) \/ Handler(j) \/ ShowResume(j)
           \/ UploadKilled(j) \/ WriteBreaks(j)
    PROVE  ResumeTypeOK' /\ \A k \in Jobs : ResumeInStep(k)'
<1> USE DEF ResumeInStep, ResumeFollowsStage, queueVars, Active, Terminal
<1>1. /\ ResumeTypeOK /\ QueueInv
      /\ \A k \in Jobs : ResumeInStep(k) /\ InStep(k)
  BY DEF ResumeInv, QueueInv
<1>a. run[j] = "working" =>
        /\ page[j] = "none" /\ shown[j] \notin Terminal
        /\ file[j] /\ request[j] # "idle" /\ upload[j] \notin {"idle", "written"}
  BY <1>1 DEF InStep, TypeOK
<1>2. CASE WriteFile(j)
  BY <1>1, <1>2 DEF WriteFile, ResumeTypeOK, TypeOK
<1>3. CASE StoreRow(j)
  BY <1>1, <1>3 DEF StoreRow, ResumeTypeOK, TypeOK
<1>4. CASE EnqueueParse(j)
  BY <1>1, <1>4 DEF EnqueueParse, Insert, ResumeTypeOK, TypeOK, resumeVars, Statuses
<1>5. CASE RefuseUpload(j)
  BY <1>1, <1>5 DEF RefuseUpload, ResumeTypeOK, TypeOK
<1>6. CASE ParseBegins(j)
  <2>1. ResumeTypeOK'
    BY <1>1, <1>6 DEF ParseBegins, ResumeTypeOK, TypeOK
  <2>2. /\ UNCHANGED <<request, run, shown, file, upload, page, breaks>>
        /\ \A k \in Jobs : k # j => /\ resume'[k] = resume[k] /\ stage'[k] = stage[k]
                                    /\ data'[k] = data[k]
    BY <1>1, <1>6 DEF ParseBegins, ResumeTypeOK
  <2>3. ResumeInStep(j)'
    <3>1. ResumeInStep(j) /\ run[j] = "working"
      BY <1>1, <1>6 DEF ParseBegins
    <3>2. /\ resume'[j] = "processing" /\ stage'[j] = "parsing"
          /\ data'[j] = data[j]
      BY <1>1, <1>6 DEF ParseBegins, ResumeTypeOK
    <3> QED
      BY <1>a, <2>2, <3>1, <3>2
  <2>4. ASSUME NEW k \in Jobs, k # j
        PROVE  ResumeInStep(k)'
    <3>1. ResumeInStep(k)
      BY <1>1
    <3> QED
      BY <2>2, <2>4, <3>1
  <2> QED
    BY <2>1, <2>3, <2>4
<1>7. CASE ParseEnds(j)
  BY <1>1, <1>7 DEF ParseEnds, ResumeTypeOK, TypeOK
<1>8. CASE WriteParsed(j)
  <2>1. ResumeTypeOK'
    BY <1>1, <1>8 DEF WriteParsed, ResumeTypeOK, TypeOK
  <2>2. /\ UNCHANGED <<request, run, shown, file, upload, page, breaks>>
        /\ \A k \in Jobs : k # j => /\ resume'[k] = resume[k] /\ stage'[k] = stage[k]
                                    /\ data'[k] = data[k]
    BY <1>1, <1>8 DEF WriteParsed, ResumeTypeOK
  <2>3. ResumeInStep(j)'
    <3>1. ResumeInStep(j) /\ run[j] = "working"
      BY <1>1, <1>8 DEF WriteParsed
    <3>2. /\ resume'[j] = "parsed" /\ stage'[j] = "done"
          /\ data'[j] = TRUE
      BY <1>1, <1>8 DEF WriteParsed, ResumeTypeOK
    <3> QED
      BY <1>a, <2>2, <3>1, <3>2
  <2>4. ASSUME NEW k \in Jobs, k # j
        PROVE  ResumeInStep(k)'
    <3>1. ResumeInStep(k)
      BY <1>1
    <3> QED
      BY <2>2, <2>4, <3>1
  <2> QED
    BY <2>1, <2>3, <2>4
<1>9. CASE WriteFailed(j)
  <2>1. ResumeTypeOK'
    BY <1>1, <1>9 DEF WriteFailed, ResumeTypeOK, TypeOK
  <2>2. /\ UNCHANGED <<request, run, shown, file, upload, page, breaks>>
        /\ \A k \in Jobs : k # j => /\ resume'[k] = resume[k] /\ stage'[k] = stage[k]
                                    /\ data'[k] = data[k]
    BY <1>1, <1>9 DEF WriteFailed, ResumeTypeOK
  <2>3. ResumeInStep(j)'
    <3>1. ResumeInStep(j) /\ run[j] = "working"
      BY <1>1, <1>9 DEF WriteFailed
    <3>2. /\ resume'[j] = "failed" /\ stage'[j] = "broken"
          /\ data'[j] = data[j]
      BY <1>1, <1>9 DEF WriteFailed, ResumeTypeOK
    <3> QED
      BY <1>a, <2>2, <3>1, <3>2
  <2>4. ASSUME NEW k \in Jobs, k # j
        PROVE  ResumeInStep(k)'
    <3>1. ResumeInStep(k)
      BY <1>1
    <3> QED
      BY <2>2, <2>4, <3>1
  <2> QED
    BY <2>1, <2>3, <2>4
<1>10. CASE ParseReturns(j)
  BY <1>1, <1>10 DEF ParseReturns, HandlerReturns, ResumeTypeOK, TypeOK, resumeVars
<1>11. CASE ParseRaises(j)
  BY <1>1, <1>11 DEF ParseRaises, HandlerRaises, ResumeTypeOK, TypeOK, resumeVars
<1>12. CASE ShowResume(j)
  BY <1>1, <1>12 DEF ShowResume, ResumeTypeOK, TypeOK
<1>13. CASE UploadKilled(j)
  BY <1>1, <1>13 DEF UploadKilled, ResumeTypeOK, TypeOK
<1>14. CASE WriteBreaks(j)
  BY <1>1, <1>14 DEF WriteBreaks, ResumeTypeOK, TypeOK
<1> QED
  BY <1>2, <1>3, <1>4, <1>5, <1>6, <1>7, <1>8, <1>9, <1>10, <1>11, <1>12, <1>13, <1>14
     DEF Router, Handler

LEMMA NextResumeInv == ResumeInv /\ [ResumeNext]_vars => ResumeInv'
<1> SUFFICES ASSUME ResumeInv, [ResumeNext]_vars
             PROVE  ResumeInv'
  OBVIOUS
<1>1. QueueInv'
  BY StepIsQueueStep, NextQueueInv DEF ResumeInv, vars
<1>2. CASE UNCHANGED vars
  BY <1>1, <1>2 DEF vars, queueVars, resumeVars, ResumeInv, ResumeTypeOK, TypeOK, ResumeInStep,
                    ResumeFollowsStage
<1>3. CASE QueueOnly
  <2>1. UNCHANGED resumeVars
    BY <1>3 DEF QueueOnly
  <2>2. ResumeTypeOK'
    BY <1>1, <2>1 DEF ResumeInv, ResumeTypeOK, QueueInv, resumeVars
  <2> QED
    BY <1>1, <1>3, <2>2, QueueOnlyStep DEF ResumeInv
<1>4. CASE \E j \in Jobs : \/ WriteFile(j) \/ Router(j) \/ Handler(j) \/ ShowResume(j)
                           \/ UploadKilled(j) \/ WriteBreaks(j)
  BY <1>1, <1>4, ActorStep DEF ResumeInv
<1> QED
  BY <1>2, <1>3, <1>4 DEF ResumeNext

\* File, row, handler, job and page stay in step.
THEOREM ResumeInvariance == ResumeSpec => []ResumeInv
<1>1. ResumeInit => ResumeInv
  BY InitResumeInv
<1>2. ResumeInv /\ [ResumeNext]_vars => ResumeInv'
  BY NextResumeInv
<1> QED
  BY <1>1, <1>2, PTL DEF ResumeSpec

\* The pipeline's variables keep to their values.
THEOREM ResumeTypes == ResumeSpec => []ResumeTypeOK
<1>1. ResumeInv => ResumeTypeOK
  BY DEF ResumeInv
<1> QED
  BY <1>1, ResumeInvariance, PTL

\* A resume that says parsed has its data and its file, for any number of
\* uploads, kills, timeouts and refused writes.
THEOREM ParsedResumesAreUsable == ResumeSpec => []ParsedIsUsable
<1>1. ResumeInv => ParsedIsUsable
  BY DEF ResumeInv, ResumeInStep, ParsedIsUsable
<1> QED
  BY <1>1, ResumeInvariance, PTL

\* The page that follows a job to its end finds the resume the job speaks of.
THEOREM PollersFindOutcomes == ResumeSpec => []PollerFindsOutcome
<1>1. ResumeInv => PollerFindsOutcome
  <2> SUFFICES ASSUME ResumeInv, NEW j \in Jobs, request[j] = "returned"
               PROVE  /\ shown[j] = "succeeded" =>
                           resume[j] = "parsed" /\ page[j] \in {"none", "parsed"}
                      /\ shown[j] = "failed" /\ breaks = 0 =>
                           resume[j] = "failed" /\ page[j] \in {"none", "failed"}
    BY DEF PollerFindsOutcome
  <2>1. ResumeInStep(j)
    BY DEF ResumeInv
  <2>2. upload[j] # "refused"
    BY <2>1 DEF ResumeInStep
  <2> QED
    BY <2>1, <2>2 DEF ResumeInStep, ResumeFollowsStage, Terminal
<1> QED
  BY <1>1, ResumeInvariance, PTL

\* Nobody takes a parsed resume back from a candidate who was given its id.
THEOREM ParsedResumesStay == ResumeSpec => ParsedStays
<1>1. ResumeInv /\ [ResumeNext]_vars =>
        [\A j \in Jobs : resume[j] = "parsed" /\ request[j] = "returned" => resume'[j] = "parsed"]_vars
  <2> SUFFICES ASSUME ResumeInv, ResumeNext, NEW j \in Jobs,
                      resume[j] = "parsed", request[j] = "returned"
               PROVE  resume'[j] = "parsed"
    OBVIOUS
  <2>1. ResumeInStep(j)
    BY DEF ResumeInv
  <2>2. stage[j] = "done" /\ upload[j] \notin {"idle", "written"}
    <3>1. upload[j] # "refused" /\ upload[j] \notin {"idle", "written"}
      BY <2>1 DEF ResumeInStep
    <3>2. stage[j] \in {"idle", "parsing", "parsed", "unparsed", "done", "broken"}
      BY DEF ResumeInv, ResumeTypeOK
    <3> QED
      BY <2>1, <3>1, <3>2 DEF ResumeInStep, ResumeFollowsStage
  <2>3. resume \in [Jobs -> {"none", "uploaded", "processing", "parsed", "failed"}]
    BY DEF ResumeInv, ResumeTypeOK
  <2>4. CASE QueueOnly
    BY <2>4 DEF QueueOnly, resumeVars
  <2>5. ASSUME NEW k \in Jobs,
               \/ WriteFile(k) \/ Router(k) \/ Handler(k) \/ ShowResume(k)
               \/ UploadKilled(k) \/ WriteBreaks(k)
        PROVE  resume'[j] = "parsed"
    <3>1. CASE StoreRow(k)
      BY <2>2, <2>3, <3>1 DEF StoreRow
    <3>2. CASE RefuseUpload(k)
      BY <2>3, <3>2 DEF RefuseUpload
    <3>3. CASE ParseBegins(k)
      BY <2>2, <2>3, <3>3 DEF ParseBegins
    <3>4. CASE WriteParsed(k)
      BY <2>2, <2>3, <3>4 DEF WriteParsed
    <3>5. CASE WriteFailed(k)
      BY <2>2, <2>3, <3>5 DEF WriteFailed
    <3>6. CASE UNCHANGED resume
      BY <3>6
    <3> QED
      BY <2>5, <3>1, <3>2, <3>3, <3>4, <3>5, <3>6
         DEF Router, Handler, WriteFile, EnqueueParse, ParseEnds, ParseReturns, ParseRaises,
             ShowResume, UploadKilled, WriteBreaks, resumeVars
  <2> QED
    BY <2>4, <2>5 DEF ResumeNext
<1> QED
  BY <1>1, ResumeInvariance, PTL DEF ResumeSpec, ParsedStays
=============================================================================
