------------------------------ MODULE Interview ------------------------------
(***************************************************************************)
(* One interview session of the platform, from POST /interviews to the     *)
(* stored Score: the API handlers that start the session and take audio    *)
(* uploads, the ARQ jobs interview_generate, transcribe and                *)
(* interview_evaluate, the rows of interview_sessions, answers and scores, *)
(* and the WebM blobs on disk.                                             *)
(*                                                                         *)
(* Grain of atomicity.  A step is what one database transaction or one     *)
(* synchronous stretch of a handler does; every `await` that lets another  *)
(* actor read or write the rows this module keeps is a place where a       *)
(* handler can be overtaken.  The async_jobs row of a job is left to       *)
(* JobQueue; here a job's pc ends in the outcome its handler has: it       *)
(* returned ("succeeded"), raised ("failed") or was killed ("lost").       *)
(***************************************************************************)
EXTENDS Naturals, Sequences, FiniteSets

CONSTANTS
    Requests,       \* upload handlers that may run at the same time in the API
    Takes,          \* recordings, told apart by their bytes (SHA-256)
    Texts,          \* non-blank transcripts
    TranscriptOf,   \* what Whisper hears in a take; None when it hears nothing
    Plans,          \* question kinds that generation may return, in order
    MaxAnswers,     \* bound: rows of the session
    MaxUploads,     \* bound: transcribe jobs, queued or about to be
    MaxConcurrent,  \* ARQ's max_jobs: jobs the worker runs at once
    MaxFaults,      \* bound: killed jobs and requests, failed Redis calls
    None            \* SQL NULL, Python None

Kinds == {"technical", "behavioral"}

Evaluation == [text : Texts, low : BOOLEAN]  \* judge JSON: the text it is about, score <= 2?

Signal == [kind : Kinds, evaluation : Evaluation, metrics : Takes]

ASSUME ConstantsAssumption ==
    /\ TranscriptOf \in [Takes -> Texts \cup {None}]
    /\ Plans \subseteq Seq(Kinds)
    /\ \A plan \in Plans : plan # <<>> /\ Len(plan) <= MaxAnswers
    /\ MaxAnswers \in Nat
    /\ MaxUploads \in Nat
    /\ MaxConcurrent \in Nat
    /\ MaxFaults \in Nat

ASSUME NoneAssumption ==
    /\ None \notin Takes
    /\ None \notin Texts
    /\ None \notin Evaluation
    /\ None \notin Kinds
    /\ None \notin Seq(Signal)

VARIABLES
    status,    \* interview_sessions.status, "absent" before the row exists
    answers,   \* rows of the session; index = question_order + 1 (unique constraint)
    score,     \* the scores row: the signals it was aggregated from, or None
    blob,      \* bytes of <answer id>.webm on disk
    jobs,      \* ARQ jobs in the order their async_jobs rows were inserted
    start,     \* where POST /interviews stands
    uploads,   \* where each POST .../audio handler stands
    faults     \* faults so far

vars == <<status, answers, score, blob, jobs, start, uploads, faults>>

AnswerIds == 1 .. MaxAnswers

\* A new answers row, as interview_generate and the follow-up path insert it.
NewRow(kind, isFollowUp) ==
    [kind |-> kind, followUp |-> isFollowUp, audio |-> FALSE,
     metrics |-> None, text |-> None, evaluation |-> None]

\* An async_jobs row committed as queued and not yet pushed onto Redis.
\* caller is the job whose handler enqueues it, 0 for an API handler.
NewJob(type, answer, caller) ==
    [type |-> type, answer |-> answer, caller |-> caller, pc |-> "inserted",
     take |-> None, heard |-> None, text |-> None, loaded |-> None, write |-> None]

IdleUpload == [pc |-> "idle", answer |-> 0, take |-> None, loaded |-> None]

Busy == {"hashed", "working", "checked", "locked"}

Running == {j \in DOMAIN jobs : jobs[j].pc \in Busy \cup {"enqueuing"}}

Ended(pc) == pc \in {"succeeded", "failed", "lost"}

\* Job j when it ends: its handler's locals are gone.
Over(j, outcome) ==
    [jobs[j] EXCEPT !.pc = outcome, !.take = None, !.heard = None, !.text = None,
                    !.loaded = None, !.write = None]

\* Mutant of Locked: the answer is read without FOR UPDATE.
LockedByNobody(a) == FALSE

\* SELECT ... FOR UPDATE by an evaluate that has not committed yet.
Locked(a) == \E j \in DOMAIN jobs : jobs[j].pc = "locked" /\ jobs[j].answer = a

\* The ORM emits an UPDATE for a column only when the value assigned differs
\* from the value the handler loaded.
Flushed(stored, loaded, assigned) == IF assigned = loaded THEN stored ELSE assigned

\* Columns of an answers row that a retake clears and transcribe fills.
Heard(row) == [metrics |-> row.metrics, text |-> row.text]

WithHeard(row, loaded, assigned) ==
    [row EXCEPT !.audio = TRUE,
                !.metrics = Flushed(row.metrics, loaded.metrics, assigned.metrics),
                !.text = Flushed(row.text, loaded.text, assigned.text)]

FullyAnswered(row) ==
    row.audio /\ row.metrics # None /\ row.text # None /\ row.evaluation # None

\* aggregate_session can measure all four signals.  The resume is parsed, so it
\* has an ATS score, and stored speech metrics always hold both fluency arms.
Scorable(rows) ==
    \A k \in Kinds : \E i \in DOMAIN rows : rows[i].kind = k /\ rows[i].evaluation # None

Signals(rows) ==
    [i \in DOMAIN rows |-> [kind |-> rows[i].kind, evaluation |-> rows[i].evaluation,
                            metrics |-> rows[i].metrics]]

-----------------------------------------------------------------------------
Init ==
    /\ status = "absent"
    /\ answers = <<>>
    /\ score = None
    /\ blob = [a \in AnswerIds |-> None]
    /\ jobs = <<>>
    /\ start = "idle"
    /\ uploads = [r \in Requests |-> IdleUpload]
    /\ faults = 0

(***************************************************************************)
(* POST /interviews and enqueue_job.  The commit of the caller's own row   *)
(* and the commit of the async_jobs row are one step: no other actor can   *)
(* tell them apart, and a handler killed between them leaves what one      *)
(* killed before the push leaves (JobQueue keeps the async_jobs row).      *)
(***************************************************************************)
StartInterview ==
    /\ start = "idle"
    /\ status' = "scheduled"
    /\ jobs' = Append(jobs, NewJob("generate", 0, 0))
    /\ start' = "enqueuing"
    /\ UNCHANGED <<answers, score, blob, uploads, faults>>

\* redis.enqueue_job returns and the caller's handler goes on to its return.
Push(j) ==
    /\ jobs[j].pc = "inserted"
    /\ jobs' = [i \in DOMAIN jobs |->
                  IF i = j THEN [jobs[j] EXCEPT !.pc = "ready"]
                  ELSE IF i = jobs[j].caller THEN Over(i, "succeeded")
                  ELSE jobs[i]]
    /\ start' = IF jobs[j].type = "generate" THEN "answered" ELSE start
    /\ UNCHANGED <<status, answers, score, blob, uploads, faults>>

\* redis.enqueue_job raises: either nothing reached Redis, or the job did and
\* the reply was lost.  EnqueueFailedError reaches the caller.
PushFails(j) ==
    /\ jobs[j].pc = "inserted"
    /\ faults < MaxFaults
    /\ \E outcome \in {"failed", "ready"} :
         jobs' = [i \in DOMAIN jobs |->
                    IF i = j THEN [jobs[j] EXCEPT !.pc = outcome]
                    ELSE IF i = jobs[j].caller THEN Over(i, "failed")
                    ELSE jobs[i]]
    /\ start' = IF jobs[j].type = "generate" THEN "abandoning" ELSE start
    /\ faults' = faults + 1
    /\ UNCHANGED <<status, answers, score, blob, uploads>>

\* The except branch of start_interview.
AbandonUnqueued ==
    /\ start = "abandoning"
    /\ status' = "abandoned"
    /\ start' = "answered"
    /\ UNCHANGED <<answers, score, blob, jobs, uploads, faults>>

(***************************************************************************)
(* POST /interviews/{id}/answers/{id}/audio.  The checks read the session  *)
(* and the answer, `await file.read()` and the file write follow, and the  *)
(* commit comes last.  The two reads are one step: a session that          *)
(* completes after the first has an evaluation on every row by the second. *)
(***************************************************************************)
UploadsBegun ==
    Cardinality({j \in DOMAIN jobs : jobs[j].type = "transcribe"})
      + Cardinality({r \in Requests : uploads[r].pc # "idle"})

\* Mutant of UploadCheck: the blob is never written.
UploadCheckWithoutWrite(r, a, take) ==
    /\ uploads[r].pc = "idle"
    /\ UploadsBegun < MaxUploads
    /\ a \in DOMAIN answers
    /\ status \notin {"completed", "abandoned"}
    /\ answers[a].evaluation = None
    /\ uploads' = [uploads EXCEPT ![r] =
                     [pc |-> "written", answer |-> a, take |-> take,
                      loaded |-> Heard(answers[a])]]
    /\ UNCHANGED <<status, answers, score, blob, jobs, start, faults>>

UploadCheck(r, a, take) ==
    /\ uploads[r].pc = "idle"
    /\ UploadsBegun < MaxUploads
    /\ a \in DOMAIN answers
    /\ status \notin {"completed", "abandoned"}
    /\ answers[a].evaluation = None
    /\ uploads' = [uploads EXCEPT ![r] =
                     [pc |-> "checked", answer |-> a, take |-> take,
                      loaded |-> Heard(answers[a])]]
    /\ UNCHANGED <<status, answers, score, blob, jobs, start, faults>>

\* destination.write_bytes(contents)
UploadWrite(r) ==
    /\ uploads[r].pc = "checked"
    /\ blob' = [blob EXCEPT ![uploads[r].answer] = uploads[r].take]
    /\ uploads' = [uploads EXCEPT ![r].pc = "written"]
    /\ UNCHANGED <<status, answers, score, jobs, start, faults>>

\* Mutant of UploadCommit: the UPDATE does not wait for the row's lock.
UploadCommitUnderLock(r) ==
    LET a == uploads[r].answer IN
    /\ uploads[r].pc = "written"
    /\ answers' = [answers EXCEPT ![a] =
                     WithHeard(@, uploads[r].loaded, [metrics |-> None, text |-> None])]
    /\ jobs' = Append(jobs, NewJob("transcribe", a, 0))
    /\ uploads' = [uploads EXCEPT ![r] = IdleUpload]
    /\ UNCHANGED <<status, score, blob, start, faults>>

\* audio_path set, transcript, answer_text and speech_metrics cleared; the
\* UPDATE waits for an evaluate that holds the row.
UploadCommit(r) ==
    LET a == uploads[r].answer IN
    /\ uploads[r].pc = "written"
    /\ ~Locked(a)
    /\ answers' = [answers EXCEPT ![a] =
                     WithHeard(@, uploads[r].loaded, [metrics |-> None, text |-> None])]
    /\ jobs' = Append(jobs, NewJob("transcribe", a, 0))
    /\ uploads' = [uploads EXCEPT ![r] = IdleUpload]
    /\ UNCHANGED <<status, score, blob, start, faults>>

-----------------------------------------------------------------------------
(***************************************************************************)
(* The worker takes a job and its handler reads what it needs.             *)
(***************************************************************************)
Taken(j, type) ==
    /\ jobs[j].type = type
    /\ jobs[j].pc = "ready"
    /\ Cardinality(Running) < MaxConcurrent

\* A handler that ends without writing to any row of the session.
EndsQuietly(j, outcome) ==
    /\ jobs' = [jobs EXCEPT ![j] = Over(j, outcome)]
    /\ UNCHANGED <<status, answers, score, blob, start, uploads, faults>>

GenerateBegin(j) ==
    /\ Taken(j, "generate")
    /\ jobs' = [jobs EXCEPT ![j].pc = "working"]
    /\ UNCHANGED <<status, answers, score, blob, start, uploads, faults>>

\* The model's questions become rows and the session opens, in one commit.
GenerateWrite(j) ==
    /\ jobs[j].type = "generate" /\ jobs[j].pc = "working"
    /\ \E plan \in Plans : answers' = [i \in DOMAIN plan |-> NewRow(plan[i], FALSE)]
    /\ status' = "in_progress"
    /\ jobs' = [jobs EXCEPT ![j] = Over(j, "succeeded")]
    /\ UNCHANGED <<score, blob, start, uploads, faults>>

\* Mutant of GenerateFails: the session is left as it is.
GenerateFailsSilently(j) ==
    /\ jobs[j].type = "generate" /\ jobs[j].pc = "working"
    /\ EndsQuietly(j, "failed")

\* The provider, the schema or the question kinds failed: _abandon_session.
GenerateFails(j) ==
    /\ jobs[j].type = "generate" /\ jobs[j].pc = "working"
    /\ status' = "abandoned"
    /\ jobs' = [jobs EXCEPT ![j] = Over(j, "failed")]
    /\ UNCHANGED <<answers, score, blob, start, uploads, faults>>

(***************************************************************************)
(* transcribe.  The digest of the blob is taken first; ffmpeg reads the    *)
(* file later, in a thread.                                                *)
(***************************************************************************)
TranscribeBegin(j) ==
    /\ Taken(j, "transcribe")
    /\ jobs' = [jobs EXCEPT ![j].pc = "hashed", ![j].take = blob[jobs[j].answer]]
    /\ UNCHANGED <<status, answers, score, blob, start, uploads, faults>>

TranscribeHear(j) ==
    /\ jobs[j].type = "transcribe" /\ jobs[j].pc = "hashed"
    /\ jobs' = [jobs EXCEPT ![j].pc = "working", ![j].heard = blob[jobs[j].answer]]
    /\ UNCHANGED <<status, answers, score, blob, start, uploads, faults>>

\* Mutant of TranscribeFails: a failed pipeline is tried again.
TranscribeRetries(j) ==
    /\ jobs[j].type = "transcribe" /\ jobs[j].pc = "working"
    /\ EndsQuietly(j, "ready")

\* SpeechError, or any other exception of the pipeline.
TranscribeFails(j) ==
    /\ jobs[j].type = "transcribe" /\ jobs[j].pc = "working"
    /\ EndsQuietly(j, "failed")

\* "audio replaced": the file's digest is no longer the one taken at the start.
TranscribeSkips(j) ==
    /\ jobs[j].type = "transcribe" /\ jobs[j].pc = "working"
    /\ blob[jobs[j].answer] # jobs[j].take
    /\ EndsQuietly(j, "succeeded")

\* The row is loaded and the digest still matches.
TranscribeCheck(j) ==
    /\ jobs[j].type = "transcribe" /\ jobs[j].pc = "working"
    /\ blob[jobs[j].answer] = jobs[j].take
    /\ jobs' = [jobs EXCEPT ![j].pc = "checked", ![j].loaded = Heard(answers[jobs[j].answer])]
    /\ UNCHANGED <<status, answers, score, blob, start, uploads, faults>>

\* Mutant of TranscribeCommit: interview_evaluate is not enqueued.
TranscribeCommitAlone(j) ==
    /\ jobs[j].type = "transcribe" /\ jobs[j].pc = "checked"
    /\ ~Locked(jobs[j].answer)
    /\ answers' = [answers EXCEPT ![jobs[j].answer] =
                     WithHeard(@, jobs[j].loaded, [metrics |-> jobs[j].heard,
                                                   text |-> TranscriptOf[jobs[j].heard]])]
    /\ jobs' = [jobs EXCEPT ![j] = Over(j, "succeeded")]
    /\ UNCHANGED <<status, score, blob, start, uploads, faults>>

\* Transcript, metrics and answer_text are committed; a transcript that is not
\* blank then enqueues interview_evaluate.
TranscribeCommit(j) ==
    LET a == jobs[j].answer
        text == TranscriptOf[jobs[j].heard]
    IN
    /\ jobs[j].type = "transcribe" /\ jobs[j].pc = "checked"
    /\ ~Locked(a)
    /\ answers' = [answers EXCEPT ![a] =
                     WithHeard(@, jobs[j].loaded, [metrics |-> jobs[j].heard, text |-> text])]
    /\ \/ /\ text = None
          /\ jobs' = [jobs EXCEPT ![j] = Over(j, "succeeded")]
       \/ /\ text # None
          /\ jobs' = Append([jobs EXCEPT ![j] = Over(j, "enqueuing")],
                            NewJob("evaluate", a, j))
    /\ UNCHANGED <<status, score, blob, start, uploads, faults>>

(***************************************************************************)
(* interview_evaluate.  The first transaction copies the answer's text.    *)
(***************************************************************************)
EvaluateBegin(j) ==
    /\ Taken(j, "evaluate")
    /\ answers[jobs[j].answer].text # None
    /\ answers[jobs[j].answer].evaluation = None
    /\ jobs' = [jobs EXCEPT ![j].pc = "working", ![j].text = answers[jobs[j].answer].text]
    /\ UNCHANGED <<status, answers, score, blob, start, uploads, faults>>

\* "answer ... has no answer_text"
EvaluateWithoutText(j) ==
    /\ Taken(j, "evaluate")
    /\ answers[jobs[j].answer].text = None
    /\ EndsQuietly(j, "failed")

\* "already evaluated", before the judge is called.
EvaluateDuplicate(j) ==
    /\ Taken(j, "evaluate")
    /\ answers[jobs[j].answer].text # None
    /\ answers[jobs[j].answer].evaluation # None
    /\ EndsQuietly(j, "succeeded")

\* The judge, or the follow-up question, failed or broke its schema.
EvaluateFails(j) ==
    /\ jobs[j].type = "evaluate" /\ jobs[j].pc = "working"
    /\ EndsQuietly(j, "failed")

\* The second transaction gets the row FOR UPDATE: "already evaluated" or
\* "answer replaced" end it.
EvaluateSkips(j) ==
    LET row == answers[jobs[j].answer] IN
    /\ jobs[j].type = "evaluate" /\ jobs[j].pc = "working"
    /\ ~Locked(jobs[j].answer)
    /\ row.evaluation # None \/ row.text # jobs[j].text
    /\ EndsQuietly(j, "succeeded")

\* Mutant of Judged: an evaluation that is already there is not looked for again.
JudgedAgain(j) ==
    LET row == answers[jobs[j].answer] IN
    /\ jobs[j].type = "evaluate" /\ jobs[j].pc = "working"
    /\ ~Locked(jobs[j].answer)
    /\ row.text = jobs[j].text

\* Otherwise the judge's reply stands, and the transaction decides what to
\* write with it from what is committed when it reads.
Judged(j) ==
    LET row == answers[jobs[j].answer] IN
    /\ jobs[j].type = "evaluate" /\ jobs[j].pc = "working"
    /\ ~Locked(jobs[j].answer)
    /\ row.evaluation = None /\ row.text = jobs[j].text

Locks(j, write) ==
    /\ jobs' = [jobs EXCEPT ![j].pc = "locked", ![j].write = write]
    /\ UNCHANGED <<status, answers, score, blob, start, uploads, faults>>

\* Mutant of EvaluateProbes: a follow-up may be followed up.
EvaluateProbesAgain(j, kind) ==
    /\ Judged(j)
    /\ Len(answers) < MaxAnswers
    /\ Locks(j, [effect |-> "follow_up", order |-> Len(answers) + 1, kind |-> kind,
                 evaluation |-> [text |-> jobs[j].text, low |-> TRUE], score |-> None])

\* should_follow_up: the new row goes after the highest question_order read.
EvaluateProbes(j, kind) ==
    /\ Judged(j)
    /\ ~answers[jobs[j].answer].followUp
    /\ Len(answers) < MaxAnswers
    /\ Locks(j, [effect |-> "follow_up", order |-> Len(answers) + 1, kind |-> kind,
                 evaluation |-> [text |-> jobs[j].text, low |-> TRUE], score |-> None])

\* The rows as this transaction reads them after its flush.
RowsRead(j, evaluation) == [answers EXCEPT ![jobs[j].answer].evaluation = evaluation]

\* No follow-up: the session is complete if every row is fully answered.
EvaluateAggregates(j, low) ==
    LET evaluation == [text |-> jobs[j].text, low |-> low]
        rows == RowsRead(j, evaluation)
        done == \A i \in DOMAIN rows : FullyAnswered(rows[i])
        Write(effect, result) ==
            [effect |-> effect, order |-> 0, kind |-> None,
             evaluation |-> evaluation, score |-> result]
    IN
    /\ Judged(j)
    /\ low => answers[jobs[j].answer].followUp
    /\ \/ ~done /\ Locks(j, Write("open", None))
       \/ done /\ ~Scorable(rows) /\ Locks(j, Write("incomplete", None))
       \/ done /\ Scorable(rows) /\ Locks(j, Write("complete", Signals(rows)))

\* uq_answers_session_question_order: another follow-up took the slot, and the
\* whole transaction rolls back.
EvaluateCollides(j) ==
    /\ jobs[j].pc = "locked"
    /\ jobs[j].write.effect = "follow_up"
    /\ jobs[j].write.order # Len(answers) + 1
    /\ EndsQuietly(j, "failed")

\* Mutant of EvaluateCommit: the session also completes when signals are missing.
EvaluateCommitRegardless(j) ==
    LET write == jobs[j].write
        scored == [answers EXCEPT ![jobs[j].answer].evaluation = write.evaluation]
    IN
    /\ jobs[j].pc = "locked"
    /\ write.effect = "follow_up" => write.order = Len(answers) + 1
    /\ answers' = IF write.effect = "follow_up" THEN Append(scored, NewRow(write.kind, TRUE))
                  ELSE scored
    /\ status' = IF write.effect \in {"incomplete", "complete"} THEN "completed" ELSE status
    /\ score' = IF write.effect = "complete" THEN write.score ELSE score
    /\ jobs' = [jobs EXCEPT ![j] = Over(j, "succeeded")]
    /\ UNCHANGED <<blob, start, uploads, faults>>

EvaluateCommit(j) ==
    LET write == jobs[j].write
        scored == [answers EXCEPT ![jobs[j].answer].evaluation = write.evaluation]
    IN
    /\ jobs[j].pc = "locked"
    /\ \/ /\ write.effect = "follow_up" /\ write.order = Len(answers) + 1
          /\ answers' = Append(scored, NewRow(write.kind, TRUE))
          /\ UNCHANGED <<status, score>>
       \/ /\ write.effect \in {"open", "incomplete"}
          /\ answers' = scored
          /\ UNCHANGED <<status, score>>
       \/ /\ write.effect = "complete"
          /\ answers' = scored
          /\ status' = "completed"
          /\ score' = write.score
    /\ jobs' = [jobs EXCEPT ![j] =
                  Over(j, IF write.effect = "incomplete" THEN "failed" ELSE "succeeded")]
    /\ UNCHANGED <<blob, start, uploads, faults>>

-----------------------------------------------------------------------------
(***************************************************************************)
(* Faults.  A job past its ARQ timeout is cancelled and a worker or API    *)
(* process may die: the open transaction rolls back, nothing is retried    *)
(* (max_tries = 1, retry_jobs = False).                                    *)
(***************************************************************************)
JobKilled(j) ==
    /\ jobs[j].pc \in Busy
    /\ faults < MaxFaults
    /\ jobs' = [jobs EXCEPT ![j] = Over(j, "lost")]
    /\ faults' = faults + 1
    /\ UNCHANGED <<status, answers, score, blob, start, uploads>>

\* The process that was about to push job j dies, its caller with it.
EnqueuerKilled(j) ==
    /\ jobs[j].pc = "inserted"
    /\ faults < MaxFaults
    /\ jobs' = [i \in DOMAIN jobs |-> IF i \in {j, jobs[j].caller} THEN Over(i, "lost")
                                      ELSE jobs[i]]
    /\ start' = IF jobs[j].type = "generate" THEN "answered" ELSE start
    /\ faults' = faults + 1
    /\ UNCHANGED <<status, answers, score, blob, uploads>>

UploadKilled(r) ==
    /\ uploads[r].pc # "idle"
    /\ faults < MaxFaults
    /\ uploads' = [uploads EXCEPT ![r] = IdleUpload]
    /\ faults' = faults + 1
    /\ UNCHANGED <<status, answers, score, blob, jobs, start>>

-----------------------------------------------------------------------------
Api == \/ AbandonUnqueued
       \/ \E r \in Requests : UploadWrite(r) \/ UploadCommit(r)

Generate(j) == GenerateBegin(j) \/ GenerateWrite(j) \/ GenerateFails(j)

Transcribe(j) ==
    \/ TranscribeBegin(j) \/ TranscribeHear(j) \/ TranscribeFails(j)
    \/ TranscribeSkips(j) \/ TranscribeCheck(j) \/ TranscribeCommit(j)

Evaluate(j) ==
    \/ EvaluateBegin(j) \/ EvaluateWithoutText(j) \/ EvaluateDuplicate(j)
    \/ EvaluateFails(j) \/ EvaluateSkips(j)
    \/ \E kind \in Kinds : EvaluateProbes(j, kind)
    \/ \E low \in BOOLEAN : EvaluateAggregates(j, low)
    \/ EvaluateCollides(j) \/ EvaluateCommit(j)

Job(j) == Push(j) \/ Generate(j) \/ Transcribe(j) \/ Evaluate(j)

Candidate ==
    \/ StartInterview
    \/ \E r \in Requests, a \in AnswerIds, take \in Takes : UploadCheck(r, a, take)

Faults ==
    \/ \E j \in DOMAIN jobs : PushFails(j) \/ JobKilled(j) \/ EnqueuerKilled(j)
    \/ \E r \in Requests : UploadKilled(r)

Next == Candidate \/ Api \/ (\E j \in DOMAIN jobs : Job(j)) \/ Faults

Spec == Init /\ [][Next]_vars

-----------------------------------------------------------------------------
(***************************************************************************)
(* What always holds.                                                      *)
(***************************************************************************)
Statuses == {"absent", "scheduled", "in_progress", "completed", "abandoned"}

JobPcs == {"inserted", "ready", "enqueuing", "succeeded", "failed", "lost"} \cup Busy

HeardColumns == [metrics : Takes \cup {None}, text : Texts \cup {None}]

Row == [kind : Kinds, followUp : BOOLEAN, audio : BOOLEAN,
        metrics : Takes \cup {None}, text : Texts \cup {None},
        evaluation : Evaluation \cup {None}]

Write == [effect : {"follow_up", "open", "incomplete", "complete"}, order : Nat,
          kind : Kinds \cup {None}, evaluation : Evaluation,
          score : Seq(Signal) \cup {None}]

JobRecord == [type : {"generate", "transcribe", "evaluate"}, answer : Nat, caller : Nat,
              pc : JobPcs, take : Takes \cup {None}, heard : Takes \cup {None},
              text : Texts \cup {None}, loaded : HeardColumns \cup {None},
              write : Write \cup {None}]

Upload == [pc : {"idle", "checked", "written"}, answer : Nat, take : Takes \cup {None},
           loaded : HeardColumns \cup {None}]

TypeOK ==
    /\ status \in Statuses
    /\ answers \in Seq(Row)
    /\ score \in Seq(Signal) \cup {None}
    /\ blob \in [AnswerIds -> Takes \cup {None}]
    /\ jobs \in Seq(JobRecord)
    /\ start \in {"idle", "enqueuing", "abandoning", "answered"}
    /\ uploads \in [Requests -> Upload]
    /\ faults \in Nat

\* A stored score is about the session as it stands: the evaluations it was
\* computed from are the ones stored, for every question there is
\* (_upsert_completed_score runs in the transaction that completes the session;
\* no follow-up and no second judgement may arrive after it read the rows).
ScoreIsCurrent ==
    score # None =>
        /\ Len(score) = Len(answers)
        /\ \A i \in DOMAIN answers :
             /\ score[i].evaluation = answers[i].evaluation
             /\ score[i].kind = answers[i].kind

\* What a step may do to the status and the score of the session.
ClosesOnce ==
    /\ (status # "completed" /\ status' = "completed") <=> (score' # score)
    /\ score # None /\ ~AbandonUnqueued => UNCHANGED <<status, score>>

\* A session becomes completed in the very commit that stores its score, and no
\* job or upload that is still queued or running then reopens it, closes it again
\* or scores it again (_upsert_completed_score in the transaction of
\* interview_evaluate).  What the failing start request does to a scored session
\* is the claim AbandonedIsUnscored of InterviewClaims, which does not hold.
CompletedIsScored == [][ClosesOnce]_vars

FollowUpsIn(rows) == {i \in DOMAIN rows : rows[i].followUp}

\* Original questions with a stored evaluation whose score is low.
WeakIn(rows) ==
    {i \in DOMAIN rows :
       ~rows[i].followUp /\ rows[i].evaluation # None /\ rows[i].evaluation.low}

\* Every weak answer to an original question has its follow-up, and nothing else
\* has one, however many evaluate jobs ran for it (the write-time guard of
\* interview_evaluate and should_follow_up).
OneFollowUpEach == Cardinality(FollowUpsIn(answers)) = Cardinality(WeakIn(answers))

\* While an evaluate holds an answer FOR UPDATE, it is alone, and the text it
\* judged is the text of a row nobody has scored.
LockHolds ==
    \A j \in DOMAIN jobs : jobs[j].pc = "locked" =>
        LET row == answers[jobs[j].answer] IN
        /\ row.evaluation = None
        /\ row.text = jobs[j].write.evaluation.text
        /\ \A k \in DOMAIN jobs :
             jobs[k].pc = "locked" /\ jobs[k].answer = jobs[j].answer => k = j

\* A row that says it has audio, and a transcribe job that will be asked for it,
\* have the file: the blob is written before the path is committed, and the path
\* before the job is pushed, whatever is killed in between.
AudioOnDisk ==
    /\ \A a \in DOMAIN answers : answers[a].audio => blob[a] # None
    /\ \A j \in DOMAIN jobs :
         jobs[j].type = "transcribe" /\ ~Ended(jobs[j].pc) =>
            answers[jobs[j].answer].audio

\* What a step must leave of the stored evaluations.
EvaluationsKept ==
    \A a \in DOMAIN answers :
      /\ a \in DOMAIN answers'
      /\ answers[a].evaluation # None => answers'[a].evaluation = answers[a].evaluation
      /\ answers'[a].evaluation # answers[a].evaluation =>
           answers'[a].evaluation.text = answers[a].text

\* An evaluation, once stored, is final, and it is about the text its row held:
\* a duplicate or stale evaluate writes nothing.
EvaluationsAreFinal == [][EvaluationsKept]_vars

\* The session as the contract's readers see it.
Question(row) == [kind |-> row.kind, followUp |-> row.followUp, evaluation |-> row.evaluation]

QuestionsOf(rows) == [i \in DOMAIN rows |-> Question(rows[i])]

ResultOf(stored) ==
    IF stored = None THEN None
    ELSE [i \in DOMAIN stored |-> [kind |-> stored[i].kind, evaluation |-> stored[i].evaluation]]

Contract == INSTANCE SessionContract WITH
    questions <- QuestionsOf(answers), result <- ResultOf(score)

\* The detailed session implements its contract: every commit of every handler,
\* in any interleaving and with any fault, is one of the contract's steps or
\* none (start_interview, interview_generate, interview_evaluate).
KeepsContract == Contract!Spec

-----------------------------------------------------------------------------
(***************************************************************************)
(* What eventually happens.  The worker takes what is queued and a handler *)
(* that was started goes on (event loop, thread pool and timeouts of every *)
(* call); a candidate need not do anything, and no fault must occur.       *)
(***************************************************************************)
JobIds == 1 .. (2 * MaxUploads + 1)

Fairness ==
    /\ \A j \in JobIds : WF_vars(j \in DOMAIN jobs /\ Job(j))
    /\ \A r \in Requests : WF_vars(UploadWrite(r) \/ UploadCommit(r))
    /\ WF_vars(AbandonUnqueued)

FairSpec == Spec /\ Fairness

JobFor(j, type, a) == j \in DOMAIN jobs /\ jobs[j].type = type /\ jobs[j].answer = a

\* No job waits for ever: not for a worker slot, nor for a row another job holds.
JobsEnd ==
    \A j \in JobIds :
        (j \in DOMAIN jobs /\ jobs[j].pc = "ready") ~> (j \in DOMAIN jobs /\ Ended(jobs[j].pc))

\* A started session gets its questions or is abandoned.
LeavesScheduled == status = "scheduled" ~> status # "scheduled"

\* A transcript that is stored is judged, unless a retake clears it or its
\* evaluate job fails: a skipped duplicate never is the last one to look.
TextIsJudged ==
    \A a \in AnswerIds :
        (a \in DOMAIN answers /\ answers[a].text # None) ~>
            \/ a \in DOMAIN answers /\ (answers[a].evaluation # None \/ answers[a].text = None)
            \/ \E j \in JobIds : JobFor(j, "evaluate", a) /\ jobs[j].pc = "failed"
=============================================================================
