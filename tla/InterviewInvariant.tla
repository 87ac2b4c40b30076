-------------------------- MODULE InterviewInvariant --------------------------
(***************************************************************************)
(* The inductive invariant behind the theorems about Interview: what every *)
(* handler may rely on between its awaits.  TLC checks it on the small     *)
(* instances; InterviewProofs proves it for all.                           *)
(***************************************************************************)
EXTENDS Interview

\* The start request comes first and only once: the first job is the only
\* generate job, and until it ends there are no rows for other jobs to be about.
StartOrder ==
    /\ start = "idle" => status = "absent" /\ jobs = <<>> /\ answers = <<>>
    /\ start # "idle" => status # "absent" /\ jobs # <<>>
    /\ answers = <<>> => status \in {"absent", "scheduled", "abandoned"}
    /\ \A j \in DOMAIN jobs :
         /\ jobs[j].type = "generate" => j = 1
         /\ jobs[j].type = "generate" /\ ~Ended(jobs[j].pc) => answers = <<>>
         /\ jobs[j].type # "generate" => jobs[j].answer \in DOMAIN answers
    /\ \A r \in Requests : uploads[r].pc # "idle" => uploads[r].answer \in DOMAIN answers

\* What the locals of a handler hold at each of its program points.
JobLocals(job) ==
    /\ job.pc = "inserted" /\ job.type = "generate" => job.caller = 0
    /\ job.pc = "hashed" => job.type = "transcribe"
    /\ job.pc \in {"checked", "enqueuing"} => job.type = "transcribe"
    /\ job.pc = "locked" => job.type = "evaluate" /\ job.write \in Write
    /\ job.pc = "working" /\ job.type = "transcribe" => job.heard \in Takes
    /\ job.pc = "checked" => job.heard \in Takes /\ job.loaded \in HeardColumns
    /\ job.pc = "working" /\ job.type = "evaluate" => job.text \in Texts

UploadLocals(upload) ==
    upload.pc # "idle" =>
        /\ upload.take \in Takes
        /\ upload.loaded \in HeardColumns
        /\ upload.pc = "written" => blob[upload.answer] # None

Locals ==
    /\ \A j \in DOMAIN jobs : JobLocals(jobs[j])
    /\ \A r \in Requests : UploadLocals(uploads[r])
    /\ Len(answers) <= MaxAnswers

\* What an evaluate that holds its row is about to write is still right: nobody
\* can score the row, and once every other row is scored nobody can add one.
PendingWrite(a, write) ==
    /\ write.effect = "follow_up" =>
         /\ write.evaluation.low /\ ~answers[a].followUp
         /\ write.kind \in Kinds
         /\ write.order <= MaxAnswers
    /\ write.effect # "follow_up" => (write.evaluation.low => answers[a].followUp)
    /\ write.effect = "complete" =>
         /\ write.score \in Seq(Signal)
         /\ Len(write.score) = Len(answers)
         /\ \A i \in DOMAIN answers :
              /\ write.score[i].kind = answers[i].kind
              /\ i = a => write.score[i].evaluation = write.evaluation
              /\ i # a => /\ answers[i].evaluation # None
                          /\ write.score[i].evaluation = answers[i].evaluation
         /\ \A k \in Kinds : \E i \in DOMAIN answers : answers[i].kind = k

PendingWrites ==
    \A j \in DOMAIN jobs : jobs[j].pc = "locked" => PendingWrite(jobs[j].answer, jobs[j].write)

AllEvaluated ==
    /\ answers # <<>>
    /\ \A i \in DOMAIN answers : answers[i].evaluation # None

\* TLC checks the conjunction and TLAPS proves it inductive; it is the bridge
\* from what one handler checked to what holds when it commits.
IInv ==
    /\ TypeOK
    /\ StartOrder
    /\ Locals
    /\ AudioOnDisk
    /\ LockHolds
    /\ PendingWrites
    /\ ScoreIsCurrent
    /\ score # None => AllEvaluated

\* What CompletedIsScored rests on: a completed session is never scored later.
Settled == status = "completed" => score # None
=============================================================================
