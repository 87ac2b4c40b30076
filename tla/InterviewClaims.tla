--------------------------- MODULE InterviewClaims ---------------------------
(***************************************************************************)
(* What comments, docstrings and the README say of an interview session    *)
(* and the code does not keep in every interleaving.  Each statement has a *)
(* run of its own that ends in a counterexample; README.md tells the       *)
(* story of each.                                                          *)
(***************************************************************************)
EXTENDS MCInterview

\* "A retake overwrites the same file and clears transcript/metrics/answer_text
\* so nothing stays stale" (routers/interviews.py:217).
RetakeClears ==
    [][\A r \in Requests : UploadCommit(r) =>
         Heard(answers'[uploads[r].answer]) = [metrics |-> None, text |-> None]]_vars

\* "Re-upload on a closed session would silently change a stored score, so it is
\* refused" (the comment on the status check of routers/interviews.py): no
\* recording is taken in under a session that is completed.
ClosedTakesNoAudio == [][\A r \in Requests : UploadCommit(r) => status # "completed"]_vars

\* "SHA256 of the blob skips a stale write if the file was replaced mid-job"
\* (README.md:404): a transcript that is written is of the file then on disk.
ReplacedIsSkipped ==
    [][\A j \in DOMAIN jobs :
         TranscribeCommit(j) => jobs[j].heard = blob[jobs[j].answer]]_vars

\* "Abandoned sessions get no composite" (README.md:473), so an abandoned session
\* has no scores row for the readers of services/score_access.py to find.
AbandonedIsUnscored == status = "abandoned" => score = None

\* "Mark a session abandoned when generate fails so it cannot sit in scheduled
\* forever" (workers/tasks.py, _abandon_session): once interview_generate has
\* begun, the session leaves `scheduled`.
GenerateLeavesScheduled ==
    (status = "scheduled" /\ jobs # <<>> /\ jobs[1].pc = "working") ~> status # "scheduled"

Quiet ==
    /\ \A j \in DOMAIN jobs : Ended(jobs[j].pc)
    /\ \A r \in Requests : uploads[r].pc = "idle"

\* "Session becomes `completed` when every current question has `answer_text` and
\* no follow-up was appended" (README.md:331), and scoring_v2 can measure all
\* four signals (README.md:1202): checked once nothing is running.
AllScoredCompletes ==
    Quiet /\ answers # <<>> /\ Scorable(answers)
      /\ (\A a \in DOMAIN answers : FullyAnswered(answers[a])) => status = "completed"
=============================================================================
