--------------------------- MODULE InterviewProofs ---------------------------
(***************************************************************************)
(* Theorems about Interview for every value of its constants: the          *)
(* inductive invariant, the safety properties the runs check, and that the *)
(* detailed session implements SessionContract.                            *)
(***************************************************************************)
EXTENDS InterviewInvariant, FiniteSetTheorems, TLAPS

-----------------------------------------------------------------------------
(***************************************************************************)
(* Sequences.                                                              *)
(***************************************************************************)

\* A function on 1..n is a sequence of length n.
LEMMA FunctionIsSeq ==
    ASSUME NEW S, NEW n \in Nat, NEW f \in [1 .. n -> S]
    PROVE  f \in Seq(S) /\ Len(f) = n /\ DOMAIN f = 1 .. n
OBVIOUS

\* What a sequence is made of.
LEMMA SeqIsFunction ==
    ASSUME NEW S, NEW s \in Seq(S)
    PROVE  /\ Len(s) \in Nat /\ DOMAIN s = 1 .. Len(s)
           /\ \A i \in DOMAIN s : s[i] \in S
           /\ s = <<>> <=> Len(s) = 0
OBVIOUS

\* What Append does, one index at a time.
LEMMA AppendByIndex ==
    ASSUME NEW S, NEW s \in Seq(S), NEW e \in S
    PROVE  /\ Append(s, e) \in Seq(S)
           /\ Len(Append(s, e)) = Len(s) + 1
           /\ DOMAIN Append(s, e) = 1 .. Len(s) + 1
           /\ \A i \in DOMAIN s : Append(s, e)[i] = s[i]
           /\ Append(s, e)[Len(s) + 1] = e
OBVIOUS

-----------------------------------------------------------------------------
(***************************************************************************)
(* Records.                                                                *)
(***************************************************************************)

\* A job that ends is still a job, of its type and about its answer.
LEMMA OverIsJob ==
    ASSUME NEW j \in DOMAIN jobs, TypeOK, NEW outcome \in JobPcs
    PROVE  /\ Over(j, outcome) \in JobRecord
           /\ Over(j, outcome).type = jobs[j].type
           /\ Over(j, outcome).answer = jobs[j].answer
           /\ Over(j, outcome).caller = jobs[j].caller
           /\ Over(j, outcome).pc = outcome
<1>1. jobs[j] \in JobRecord
  BY SeqIsFunction DEF TypeOK
<1> QED
  BY <1>1 DEF Over, JobRecord

\* What enqueue_job inserts.
LEMMA NewJobIsJob ==
    ASSUME NEW type \in {"generate", "transcribe", "evaluate"},
           NEW a \in Nat, NEW c \in Nat
    PROVE  NewJob(type, a, c) \in JobRecord
BY DEF NewJob, JobRecord, JobPcs, Busy

LEMMA NewRowIsRow ==
    ASSUME NEW kind \in Kinds, NEW followUp \in BOOLEAN
    PROVE  NewRow(kind, followUp) \in Row
BY DEF NewRow, Row

\* A row whose heard columns are flushed is a row, with its audio set and
\* nothing else changed.
LEMMA WithHeardIsRow ==
    ASSUME NEW row \in Row, NEW loaded \in HeardColumns, NEW assigned \in HeardColumns
    PROVE  /\ WithHeard(row, loaded, assigned) \in Row
           /\ WithHeard(row, loaded, assigned).audio
           /\ WithHeard(row, loaded, assigned).kind = row.kind
           /\ WithHeard(row, loaded, assigned).followUp = row.followUp
           /\ WithHeard(row, loaded, assigned).evaluation = row.evaluation
<1>1. Flushed(row.metrics, loaded.metrics, assigned.metrics) \in Takes \cup {None}
  BY DEF Row, HeardColumns, Flushed
<1>2. Flushed(row.text, loaded.text, assigned.text) \in Texts \cup {None}
  BY DEF Row, HeardColumns, Flushed
<1> QED
  BY <1>1, <1>2 DEF Row, WithHeard

-----------------------------------------------------------------------------
(***************************************************************************)
(* Steps that write to no row of the session.                              *)
(***************************************************************************)

\* A step that moves jobs along, keeps what each is about, takes no row lock and
\* leaves the session, its rows and its files alone, or abandons the session,
\* preserves the invariant.
LEMMA QuietStep ==
    ASSUME IInv,
           UNCHANGED <<answers, score, blob, uploads>>,
           status' = status \/ (status' = "abandoned" /\ start # "idle"),
           start' \in {"idle", "enqueuing", "abandoning", "answered"},
           start' = "idle" <=> start = "idle",
           faults' \in Nat,
           jobs' \in Seq(JobRecord), Len(jobs') = Len(jobs),
           \A i \in DOMAIN jobs :
             /\ jobs'[i].type = jobs[i].type
             /\ jobs'[i].answer = jobs[i].answer
             /\ Ended(jobs[i].pc) => Ended(jobs'[i].pc)
             /\ JobLocals(jobs'[i])
             /\ jobs'[i].pc = "locked" =>
                  jobs[i].pc = "locked" /\ jobs'[i].write = jobs[i].write
    PROVE  IInv'
<1>1. DOMAIN jobs' = DOMAIN jobs /\ (jobs' = <<>> <=> jobs = <<>>)
  BY SeqIsFunction DEF IInv, TypeOK
<1>2. TypeOK'
  BY DEF IInv, TypeOK, Statuses
<1>3. StartOrder'
  BY <1>1 DEF IInv, StartOrder
<1>4. Locals'
  BY <1>1 DEF IInv, Locals, UploadLocals
<1>5. AudioOnDisk'
  BY <1>1 DEF IInv, AudioOnDisk
<1>6. LockHolds'
  BY <1>1 DEF IInv, LockHolds
<1>7. PendingWrites'
  BY <1>1 DEF IInv, PendingWrites, PendingWrite
<1>8. ScoreIsCurrent' /\ (score # None => AllEvaluated)'
  BY DEF IInv, ScoreIsCurrent, AllEvaluated
<1> QED
  BY <1>2, <1>3, <1>4, <1>5, <1>6, <1>7, <1>8 DEF IInv

\* The same for a step of one job.
LEMMA QuietJobStep ==
    ASSUME IInv, NEW j \in DOMAIN jobs, NEW r \in JobRecord,
           r.type = jobs[j].type, r.answer = jobs[j].answer,
           ~Ended(jobs[j].pc), JobLocals(r), r.pc # "locked",
           jobs' = [jobs EXCEPT ![j] = r],
           UNCHANGED <<status, answers, score, blob, start, uploads>>,
           faults' \in Nat
    PROVE  IInv'
<1>1. jobs \in Seq(JobRecord) /\ start \in {"idle", "enqueuing", "abandoning", "answered"}
  BY DEF IInv, TypeOK
<1>2. jobs' \in Seq(JobRecord) /\ Len(jobs') = Len(jobs)
  BY <1>1
<1>3. \A i \in DOMAIN jobs : JobLocals(jobs[i])
  BY DEF IInv, Locals
<1>4. \A i \in DOMAIN jobs : jobs'[i] = IF i = j THEN r ELSE jobs[i]
  BY <1>1
<1> QED
  BY <1>1, <1>2, <1>3, <1>4, QuietStep

\* A handler that ends without having written anything.
LEMMA EndsQuietlyStep ==
    ASSUME IInv, NEW j \in DOMAIN jobs, NEW outcome \in {"succeeded", "failed", "lost"},
           ~Ended(jobs[j].pc), jobs' = [jobs EXCEPT ![j] = Over(j, outcome)],
           UNCHANGED <<status, answers, score, blob, start, uploads>>, faults' \in Nat
    PROVE  IInv'
<1>1. TypeOK /\ outcome \in JobPcs
  BY DEF IInv, JobPcs
<1>2. JobLocals(Over(j, outcome)) /\ Over(j, outcome).pc # "locked"
  BY <1>1, OverIsJob DEF JobLocals
<1> QED
  BY <1>1, <1>2, OverIsJob, QuietJobStep

\* The caller of enqueue_job, and the job it enqueued, after the push.
LEMMA PushStep ==
    ASSUME IInv, NEW j \in DOMAIN jobs, Push(j)
    PROVE  IInv'
<1>1. TypeOK /\ jobs \in Seq(JobRecord) /\ jobs[j] \in JobRecord
  BY SeqIsFunction DEF IInv, TypeOK
<1>2. \A i \in DOMAIN jobs : jobs[i] \in JobRecord /\ JobLocals(jobs[i])
  BY <1>1, SeqIsFunction DEF IInv, Locals
<1> DEFINE r == [jobs[j] EXCEPT !.pc = "ready"]
<1>3. /\ r \in JobRecord /\ r.type = jobs[j].type /\ r.answer = jobs[j].answer
      /\ r.pc = "ready" /\ JobLocals(r)
  BY <1>1 DEF JobRecord, JobPcs, JobLocals
<1>4. \A i \in DOMAIN jobs :
        /\ Over(i, "succeeded") \in JobRecord
        /\ Over(i, "succeeded").type = jobs[i].type
        /\ Over(i, "succeeded").answer = jobs[i].answer
        /\ Over(i, "succeeded").pc = "succeeded"
        /\ JobLocals(Over(i, "succeeded"))
  BY <1>1, OverIsJob DEF JobPcs, JobLocals
<1>5. \A i \in DOMAIN jobs :
        jobs'[i] = IF i = j THEN r
                   ELSE IF i = jobs[j].caller THEN Over(i, "succeeded") ELSE jobs[i]
  BY DEF Push
<1>6. DOMAIN jobs = 1 .. Len(jobs) /\ Len(jobs) \in Nat
  BY <1>1, SeqIsFunction
<1> HIDE DEF r
<1>7. jobs' \in [1 .. Len(jobs) -> JobRecord]
  BY <1>2, <1>3, <1>4, <1>5, <1>6 DEF Push
<1>8. jobs' \in Seq(JobRecord) /\ Len(jobs') = Len(jobs)
  BY <1>6, <1>7, FunctionIsSeq
<1>9. start' \in {"idle", "enqueuing", "abandoning", "answered"} /\ (start' = "idle" <=> start = "idle")
  BY <1>1 DEF Push, IInv, StartOrder, TypeOK
<1>10. UNCHANGED <<status, answers, score, blob, uploads>> /\ faults' \in Nat
  BY <1>1 DEF Push, TypeOK
<1>11. jobs[j].pc = "inserted"
  BY DEF Push
<1> QED
  BY <1>2, <1>3, <1>4, <1>5, <1>8, <1>9, <1>10, <1>11, QuietStep DEF Ended

LEMMA PushFailsStep ==
    ASSUME IInv, NEW j \in DOMAIN jobs, PushFails(j)
    PROVE  IInv'
<1>1. TypeOK /\ jobs \in Seq(JobRecord) /\ jobs[j] \in JobRecord
  BY SeqIsFunction DEF IInv, TypeOK
<1>2. \A i \in DOMAIN jobs : jobs[i] \in JobRecord /\ JobLocals(jobs[i])
  BY <1>1, SeqIsFunction DEF IInv, Locals
<1>3. PICK outcome \in {"failed", "ready"} :
        jobs' = [i \in DOMAIN jobs |->
                   IF i = j THEN [jobs[j] EXCEPT !.pc = outcome]
                   ELSE IF i = jobs[j].caller THEN Over(i, "failed")
                   ELSE jobs[i]]
  BY DEF PushFails
<1> DEFINE r == [jobs[j] EXCEPT !.pc = outcome]
<1>4. /\ r \in JobRecord /\ r.type = jobs[j].type /\ r.answer = jobs[j].answer
      /\ r.pc = outcome /\ JobLocals(r)
  BY <1>1 DEF JobRecord, JobPcs, JobLocals
<1>5. \A i \in DOMAIN jobs :
        /\ Over(i, "failed") \in JobRecord
        /\ Over(i, "failed").type = jobs[i].type
        /\ Over(i, "failed").answer = jobs[i].answer
        /\ Over(i, "failed").pc = "failed"
        /\ JobLocals(Over(i, "failed"))
  BY <1>1, OverIsJob DEF JobPcs, JobLocals
<1>6. \A i \in DOMAIN jobs :
        jobs'[i] = IF i = j THEN r
                   ELSE IF i = jobs[j].caller THEN Over(i, "failed") ELSE jobs[i]
  BY <1>3
<1>7. DOMAIN jobs = 1 .. Len(jobs) /\ Len(jobs) \in Nat
  BY <1>1, SeqIsFunction
<1> HIDE DEF r
<1>8. DOMAIN jobs' = DOMAIN jobs
  BY <1>3
<1>9. jobs' \in [1 .. Len(jobs) -> JobRecord]
  BY <1>2, <1>3, <1>4, <1>5, <1>6, <1>7 DEF r
<1>10. jobs' \in Seq(JobRecord) /\ Len(jobs') = Len(jobs)
  BY <1>7, <1>9, FunctionIsSeq
<1>11. start' \in {"idle", "enqueuing", "abandoning", "answered"} /\ (start' = "idle" <=> start = "idle")
  BY <1>1 DEF PushFails, IInv, StartOrder, TypeOK
<1>12. UNCHANGED <<status, answers, score, blob, uploads>> /\ faults' \in Nat
  BY <1>1 DEF PushFails, TypeOK
<1>13. jobs[j].pc = "inserted"
  BY DEF PushFails
<1> QED
  BY <1>2, <1>4, <1>5, <1>6, <1>10, <1>11, <1>12, <1>13, QuietStep DEF Ended

LEMMA EnqueuerKilledStep ==
    ASSUME IInv, NEW j \in DOMAIN jobs, EnqueuerKilled(j)
    PROVE  IInv'
<1>1. TypeOK /\ jobs \in Seq(JobRecord)
  BY DEF IInv, TypeOK
<1>2. \A i \in DOMAIN jobs : jobs[i] \in JobRecord /\ JobLocals(jobs[i])
  BY <1>1, SeqIsFunction DEF IInv, Locals
<1>3. \A i \in DOMAIN jobs :
        /\ Over(i, "lost") \in JobRecord
        /\ Over(i, "lost").type = jobs[i].type
        /\ Over(i, "lost").answer = jobs[i].answer
        /\ Over(i, "lost").pc = "lost"
        /\ JobLocals(Over(i, "lost"))
  BY <1>1, OverIsJob DEF JobPcs, JobLocals
<1>4. \A i \in DOMAIN jobs :
        jobs'[i] = IF i \in {j, jobs[j].caller} THEN Over(i, "lost") ELSE jobs[i]
  BY DEF EnqueuerKilled
<1>5. DOMAIN jobs = 1 .. Len(jobs) /\ Len(jobs) \in Nat
  BY <1>1, SeqIsFunction
<1>6. jobs' \in [1 .. Len(jobs) -> JobRecord]
  BY <1>2, <1>3, <1>4, <1>5 DEF EnqueuerKilled
<1>7. jobs' \in Seq(JobRecord) /\ Len(jobs') = Len(jobs)
  BY <1>5, <1>6, FunctionIsSeq
<1>8. start' \in {"idle", "enqueuing", "abandoning", "answered"} /\ (start' = "idle" <=> start = "idle")
  BY <1>1 DEF EnqueuerKilled, IInv, StartOrder, TypeOK
<1>9. UNCHANGED <<status, answers, score, blob, uploads>> /\ faults' \in Nat
  BY <1>1 DEF EnqueuerKilled, TypeOK
<1> QED
  BY <1>2, <1>3, <1>4, <1>7, <1>8, <1>9, QuietStep DEF Ended

-----------------------------------------------------------------------------
(***************************************************************************)
(* The reading steps of the handlers.                                      *)
(***************************************************************************)

\* What the invariant says of one job and its answer's row.
LEMMA JobFacts ==
    ASSUME IInv, NEW j \in DOMAIN jobs
    PROVE  /\ jobs[j] \in JobRecord /\ JobLocals(jobs[j]) /\ faults \in Nat
           /\ jobs[j].type # "generate" =>
                /\ jobs[j].answer \in DOMAIN answers
                /\ jobs[j].answer \in AnswerIds
                /\ answers[jobs[j].answer] \in Row
           /\ jobs[j].type = "transcribe" /\ ~Ended(jobs[j].pc) =>
                blob[jobs[j].answer] \in Takes
<1>1. jobs \in Seq(JobRecord) /\ answers \in Seq(Row) /\ faults \in Nat
      /\ blob \in [AnswerIds -> Takes \cup {None}]
  BY DEF IInv, TypeOK
<1>2. jobs[j] \in JobRecord /\ JobLocals(jobs[j])
  BY <1>1, SeqIsFunction DEF IInv, Locals
<1>3. DOMAIN answers = 1 .. Len(answers) /\ Len(answers) \in Nat /\ Len(answers) <= MaxAnswers
  BY <1>1, SeqIsFunction DEF IInv, Locals
<1>4. DOMAIN answers \subseteq AnswerIds
  BY <1>3, ConstantsAssumption DEF AnswerIds
<1>5. jobs[j].type # "generate" => jobs[j].answer \in DOMAIN answers
  BY DEF IInv, StartOrder
<1>6. jobs[j].type = "transcribe" /\ ~Ended(jobs[j].pc) => blob[jobs[j].answer] # None
  BY <1>5 DEF IInv, AudioOnDisk
<1> QED
  BY <1>1, <1>2, <1>4, <1>5, <1>6, SeqIsFunction

LEMMA GenerateBeginStep ==
    ASSUME IInv, NEW j \in DOMAIN jobs, GenerateBegin(j)
    PROVE  IInv'
<1> DEFINE r == [jobs[j] EXCEPT !.pc = "working"]
<1>1. jobs[j] \in JobRecord /\ faults \in Nat
  BY JobFacts
<1>2. /\ r \in JobRecord /\ r.type = jobs[j].type /\ r.answer = jobs[j].answer
      /\ JobLocals(r) /\ r.pc # "locked"
  BY <1>1 DEF GenerateBegin, Taken, JobRecord, JobPcs, Busy, JobLocals
<1>3. jobs' = [jobs EXCEPT ![j] = r]
  BY DEF GenerateBegin
<1>4. ~Ended(jobs[j].pc)
  BY DEF GenerateBegin, Taken, Ended
<1> QED
  BY <1>1, <1>2, <1>3, <1>4, QuietJobStep DEF GenerateBegin

LEMMA TranscribeBeginStep ==
    ASSUME IInv, NEW j \in DOMAIN jobs, TranscribeBegin(j)
    PROVE  IInv'
<1> DEFINE r == [jobs[j] EXCEPT !.pc = "hashed", !.take = blob[jobs[j].answer]]
<1>1. ~Ended(jobs[j].pc) /\ jobs[j].type = "transcribe"
  BY DEF TranscribeBegin, Taken, Ended
<1>2. jobs[j] \in JobRecord /\ faults \in Nat /\ blob[jobs[j].answer] \in Takes
  BY <1>1, JobFacts
<1>3. /\ r \in JobRecord /\ r.type = jobs[j].type /\ r.answer = jobs[j].answer
      /\ JobLocals(r) /\ r.pc # "locked"
  BY <1>1, <1>2 DEF JobRecord, JobPcs, Busy, JobLocals
<1>4. jobs' = [jobs EXCEPT ![j] = r]
  BY DEF TranscribeBegin
<1> QED
  BY <1>1, <1>2, <1>3, <1>4, QuietJobStep DEF TranscribeBegin

LEMMA TranscribeHearStep ==
    ASSUME IInv, NEW j \in DOMAIN jobs, TranscribeHear(j)
    PROVE  IInv'
<1> DEFINE r == [jobs[j] EXCEPT !.pc = "working", !.heard = blob[jobs[j].answer]]
<1>1. ~Ended(jobs[j].pc) /\ jobs[j].type = "transcribe"
  BY DEF TranscribeHear, Ended
<1>2. jobs[j] \in JobRecord /\ faults \in Nat /\ blob[jobs[j].answer] \in Takes
  BY <1>1, JobFacts
<1>3. /\ r \in JobRecord /\ r.type = jobs[j].type /\ r.answer = jobs[j].answer
      /\ JobLocals(r) /\ r.pc # "locked"
  BY <1>1, <1>2 DEF JobRecord, JobPcs, Busy, JobLocals
<1>4. jobs' = [jobs EXCEPT ![j] = r]
  BY DEF TranscribeHear
<1> QED
  BY <1>1, <1>2, <1>3, <1>4, QuietJobStep DEF TranscribeHear

LEMMA TranscribeCheckStep ==
    ASSUME IInv, NEW j \in DOMAIN jobs, TranscribeCheck(j)
    PROVE  IInv'
<1> DEFINE r == [jobs[j] EXCEPT !.pc = "checked", !.loaded = Heard(answers[jobs[j].answer])]
<1>1. ~Ended(jobs[j].pc) /\ jobs[j].type = "transcribe" /\ jobs[j].pc = "working"
  BY DEF TranscribeCheck, Ended
<1>2. /\ jobs[j] \in JobRecord /\ faults \in Nat /\ JobLocals(jobs[j])
      /\ answers[jobs[j].answer] \in Row
  BY <1>1, JobFacts
<1>3. Heard(answers[jobs[j].answer]) \in HeardColumns
  BY <1>2 DEF Heard, HeardColumns, Row
<1>4. jobs[j].heard \in Takes
  BY <1>1, <1>2 DEF JobLocals
<1>5. /\ r \in JobRecord /\ r.type = jobs[j].type /\ r.answer = jobs[j].answer
      /\ JobLocals(r) /\ r.pc # "locked"
  BY <1>1, <1>2, <1>3, <1>4 DEF JobRecord, JobPcs, Busy, JobLocals
<1>6. jobs' = [jobs EXCEPT ![j] = r]
  BY DEF TranscribeCheck
<1> QED
  BY <1>1, <1>2, <1>5, <1>6, QuietJobStep DEF TranscribeCheck

LEMMA EvaluateBeginStep ==
    ASSUME IInv, NEW j \in DOMAIN jobs, EvaluateBegin(j)
    PROVE  IInv'
<1> DEFINE r == [jobs[j] EXCEPT !.pc = "working", !.text = answers[jobs[j].answer].text]
<1>1. ~Ended(jobs[j].pc) /\ jobs[j].type = "evaluate"
  BY DEF EvaluateBegin, Taken, Ended
<1>2. jobs[j] \in JobRecord /\ faults \in Nat /\ answers[jobs[j].answer] \in Row
  BY <1>1, JobFacts
<1>3. answers[jobs[j].answer].text \in Texts
  BY <1>2 DEF EvaluateBegin, Row
<1>4. /\ r \in JobRecord /\ r.type = jobs[j].type /\ r.answer = jobs[j].answer
      /\ JobLocals(r) /\ r.pc # "locked"
  BY <1>1, <1>2, <1>3 DEF JobRecord, JobPcs, Busy, JobLocals
<1>5. jobs' = [jobs EXCEPT ![j] = r]
  BY DEF EvaluateBegin
<1> QED
  BY <1>1, <1>2, <1>4, <1>5, QuietJobStep DEF EvaluateBegin

\* Every way a job can end without writing: skips, duplicates, errors, a rolled
\* back follow-up, and being killed.
LEMMA QuietEndSteps ==
    ASSUME IInv, NEW j \in DOMAIN jobs,
           \/ TranscribeFails(j) \/ TranscribeSkips(j) \/ EvaluateWithoutText(j)
           \/ EvaluateDuplicate(j) \/ EvaluateFails(j) \/ EvaluateSkips(j)
           \/ EvaluateCollides(j) \/ JobKilled(j)
    PROVE  IInv'
<1>1. faults \in Nat
  BY JobFacts
<1>2. ~Ended(jobs[j].pc)
  BY DEF TranscribeFails, TranscribeSkips, EvaluateWithoutText, EvaluateDuplicate, EvaluateFails,
         EvaluateSkips, EvaluateCollides, JobKilled, Taken, Ended, Busy
<1>3. \E outcome \in {"succeeded", "failed", "lost"} : jobs' = [jobs EXCEPT ![j] = Over(j, outcome)]
  BY DEF TranscribeFails, TranscribeSkips, EvaluateWithoutText, EvaluateDuplicate, EvaluateFails,
         EvaluateSkips, EvaluateCollides, JobKilled, EndsQuietly
<1>4. UNCHANGED <<status, answers, score, blob, start, uploads>> /\ faults' \in Nat
  BY <1>1
     DEF TranscribeFails, TranscribeSkips, EvaluateWithoutText, EvaluateDuplicate, EvaluateFails,
         EvaluateSkips, EvaluateCollides, JobKilled, EndsQuietly
<1> QED
  BY <1>2, <1>3, <1>4, EndsQuietlyStep

-----------------------------------------------------------------------------
(***************************************************************************)
(* interview_evaluate takes the row lock and decides.                      *)
(***************************************************************************)

\* An evaluate that judged the row's text takes the lock with a write that is
\* right at that moment.
LEMMA LockStep ==
    ASSUME IInv, NEW j \in DOMAIN jobs, NEW write \in Write, Judged(j),
           Locks(j, write), write.evaluation.text = jobs[j].text,
           PendingWrite(jobs[j].answer, write)
    PROVE  IInv'
<1> DEFINE r == [jobs[j] EXCEPT !.pc = "locked", !.write = write]
<1>1. /\ jobs[j] \in JobRecord /\ JobLocals(jobs[j]) /\ jobs \in Seq(JobRecord)
      /\ faults \in Nat
  BY JobFacts DEF IInv, TypeOK
<1>2. jobs[j].type = "evaluate" /\ jobs[j].pc = "working"
  BY DEF Judged
<1>3. /\ r \in JobRecord /\ r.type = "evaluate" /\ r.answer = jobs[j].answer
      /\ r.pc = "locked" /\ r.write = write /\ JobLocals(r)
  BY <1>1, <1>2 DEF JobRecord, JobPcs, Busy, JobLocals
<1>4. jobs' = [jobs EXCEPT ![j] = r]
      /\ UNCHANGED <<status, answers, score, blob, start, uploads, faults>>
  BY DEF Locks
<1> HIDE DEF r
<1>5. \A i \in DOMAIN jobs : jobs'[i] = IF i = j THEN r ELSE jobs[i]
  BY <1>4
<1>6. /\ jobs' \in Seq(JobRecord) /\ Len(jobs') = Len(jobs) /\ DOMAIN jobs' = DOMAIN jobs
      /\ (jobs' = <<>> <=> jobs = <<>>)
  BY <1>1, <1>3, <1>4
<1>7. TypeOK'
  BY <1>4, <1>6 DEF IInv, TypeOK
<1>8. StartOrder'
  BY <1>2, <1>3, <1>4, <1>5, <1>6 DEF IInv, StartOrder
<1>9. Locals'
  BY <1>3, <1>4, <1>5, <1>6 DEF IInv, Locals, UploadLocals
<1>10. AudioOnDisk'
  BY <1>3, <1>4, <1>5, <1>6 DEF IInv, AudioOnDisk
<1>11. LockHolds'
  <2>1. /\ answers[jobs[j].answer].evaluation = None
        /\ answers[jobs[j].answer].text = write.evaluation.text
        /\ ~Locked(jobs[j].answer)
    BY DEF Judged
  <2>2. \A k \in DOMAIN jobs : jobs[k].pc = "locked" => jobs[k].answer # jobs[j].answer
    BY <2>1 DEF Locked
  <2> QED
    BY <1>3, <1>4, <1>5, <1>6, <2>1, <2>2 DEF IInv, LockHolds
<1>12. PendingWrites'
  BY <1>3, <1>4, <1>5, <1>6 DEF IInv, PendingWrites, PendingWrite
<1>13. ScoreIsCurrent' /\ (score # None => AllEvaluated)'
  BY <1>4 DEF IInv, ScoreIsCurrent, AllEvaluated
<1> QED
  BY <1>7, <1>8, <1>9, <1>10, <1>11, <1>12, <1>13 DEF IInv

LEMMA EvaluateProbesStep ==
    ASSUME IInv, NEW j \in DOMAIN jobs, NEW kind \in Kinds, EvaluateProbes(j, kind)
    PROVE  IInv'
<1> DEFINE w == [effect |-> "follow_up", order |-> Len(answers) + 1, kind |-> kind,
                 evaluation |-> [text |-> jobs[j].text, low |-> TRUE], score |-> None]
<1>1. Judged(j) /\ Locks(j, w) /\ ~answers[jobs[j].answer].followUp /\ Len(answers) < MaxAnswers
  BY DEF EvaluateProbes
<1>2. jobs[j].text \in Texts
  BY <1>1, JobFacts DEF Judged, JobLocals
<1>3. Len(answers) \in Nat
  BY SeqIsFunction DEF IInv, TypeOK
<1>4. w \in Write
  BY <1>2, <1>3 DEF Write, Evaluation
<1>5. PendingWrite(jobs[j].answer, w)
  BY <1>1, <1>3, ConstantsAssumption DEF PendingWrite
<1>6. w.evaluation.text = jobs[j].text
  OBVIOUS
<1> HIDE DEF w
<1> QED
  BY <1>1, <1>4, <1>5, <1>6, LockStep

\* The signals of rows that are all evaluated and heard are signals.
LEMMA SignalsType ==
    ASSUME NEW rows \in Seq(Row), \A i \in DOMAIN rows : FullyAnswered(rows[i])
    PROVE  /\ Signals(rows) \in Seq(Signal) /\ Len(Signals(rows)) = Len(rows)
           /\ \A i \in DOMAIN rows : /\ Signals(rows)[i].kind = rows[i].kind
                                     /\ Signals(rows)[i].evaluation = rows[i].evaluation
<1>1. Len(rows) \in Nat /\ DOMAIN rows = 1 .. Len(rows) /\ \A i \in DOMAIN rows : rows[i] \in Row
  BY SeqIsFunction
<1>2. \A i \in DOMAIN rows :
        [kind |-> rows[i].kind, evaluation |-> rows[i].evaluation, metrics |-> rows[i].metrics]
          \in Signal
  BY <1>1 DEF FullyAnswered, Row, Signal
<1>3. Signals(rows) \in [1 .. Len(rows) -> Signal]
  BY <1>1, <1>2 DEF Signals
<1>4. Signals(rows) \in Seq(Signal) /\ Len(Signals(rows)) = Len(rows)
  BY <1>1, <1>3, FunctionIsSeq
<1> QED
  BY <1>4 DEF Signals

\* Writing an evaluation into one row leaves a sequence of rows.
LEMMA EvaluatedRows ==
    ASSUME NEW rows \in Seq(Row), NEW a \in DOMAIN rows, NEW e \in Evaluation
    PROVE  LET scored == [rows EXCEPT ![a].evaluation = e] IN
           /\ scored \in Seq(Row) /\ Len(scored) = Len(rows) /\ DOMAIN scored = DOMAIN rows
           /\ \A i \in DOMAIN rows :
                /\ scored[i].kind = rows[i].kind
                /\ scored[i].followUp = rows[i].followUp
                /\ scored[i].audio = rows[i].audio
                /\ scored[i].metrics = rows[i].metrics
                /\ scored[i].text = rows[i].text
                /\ scored[i].evaluation = IF i = a THEN e ELSE rows[i].evaluation
<1> DEFINE scored == [rows EXCEPT ![a].evaluation = e]
<1>1. Len(rows) \in Nat /\ DOMAIN rows = 1 .. Len(rows) /\ \A i \in DOMAIN rows : rows[i] \in Row
  BY SeqIsFunction
<1>2. \A i \in DOMAIN rows :
        scored[i] = IF i = a THEN [rows[a] EXCEPT !.evaluation = e] ELSE rows[i]
  OBVIOUS
<1>3. [rows[a] EXCEPT !.evaluation = e] \in Row
  BY <1>1 DEF Row
<1>4. scored \in [1 .. Len(rows) -> Row]
  BY <1>1, <1>2, <1>3
<1>5. scored \in Seq(Row) /\ Len(scored) = Len(rows) /\ DOMAIN scored = DOMAIN rows
  BY <1>1, <1>4, FunctionIsSeq
<1>6. rows[a] \in Row
  BY <1>1
<1>7. \A i \in DOMAIN rows :
        /\ scored[i].kind = rows[i].kind
        /\ scored[i].followUp = rows[i].followUp
        /\ scored[i].audio = rows[i].audio
        /\ scored[i].metrics = rows[i].metrics
        /\ scored[i].text = rows[i].text
        /\ scored[i].evaluation = IF i = a THEN e ELSE rows[i].evaluation
  BY <1>2, <1>6 DEF Row
<1> QED
  BY <1>5, <1>7

LEMMA EvaluateAggregatesStep ==
    ASSUME IInv, NEW j \in DOMAIN jobs, NEW low \in BOOLEAN, EvaluateAggregates(j, low)
    PROVE  IInv'
<1> DEFINE a == jobs[j].answer
           e == [text |-> jobs[j].text, low |-> low]
           rows == RowsRead(j, e)
           w(effect, result) == [effect |-> effect, order |-> 0, kind |-> None,
                                 evaluation |-> e, score |-> result]
<1>1. Judged(j) /\ (low => answers[a].followUp)
  BY DEF EvaluateAggregates
<1>2. /\ jobs[j].text \in Texts /\ a \in DOMAIN answers
      /\ answers \in Seq(Row)
  BY <1>1, JobFacts DEF Judged, JobLocals, IInv, TypeOK
<1>3. e \in Evaluation
  BY <1>2 DEF Evaluation
<1>4. /\ rows \in Seq(Row) /\ Len(rows) = Len(answers) /\ DOMAIN rows = DOMAIN answers
      /\ \A i \in DOMAIN answers :
           /\ rows[i].kind = answers[i].kind
           /\ rows[i].evaluation = IF i = a THEN e ELSE answers[i].evaluation
  BY <1>2, <1>3, EvaluatedRows DEF RowsRead
<1>5. CASE \E effect \in {"open", "incomplete"} : Locks(j, w(effect, None))
  <2>1. PICK effect \in {"open", "incomplete"} : Locks(j, w(effect, None))
    BY <1>5
  <2>2. w(effect, None) \in Write
    BY <1>3 DEF Write
  <2>3. PendingWrite(a, w(effect, None)) /\ w(effect, None).evaluation.text = jobs[j].text
    BY <1>1 DEF PendingWrite
  <2> QED
    BY <1>1, <2>1, <2>2, <2>3, LockStep
<1>6. CASE /\ \A i \in DOMAIN rows : FullyAnswered(rows[i])
           /\ Scorable(rows)
           /\ Locks(j, w("complete", Signals(rows)))
  <2>1. /\ Signals(rows) \in Seq(Signal) /\ Len(Signals(rows)) = Len(rows)
        /\ \A i \in DOMAIN rows : /\ Signals(rows)[i].kind = rows[i].kind
                                  /\ Signals(rows)[i].evaluation = rows[i].evaluation
    BY <1>4, <1>6, SignalsType
  <2>2. w("complete", Signals(rows)) \in Write
    BY <1>3, <2>1 DEF Write
  <2>3. \A i \in DOMAIN answers : i # a => answers[i].evaluation # None
    BY <1>4, <1>6 DEF FullyAnswered
  <2>4. \A k \in Kinds : \E i \in DOMAIN answers : answers[i].kind = k
    BY <1>4, <1>6 DEF Scorable
  <2>5. /\ PendingWrite(a, w("complete", Signals(rows)))
        /\ w("complete", Signals(rows)).evaluation.text = jobs[j].text
    <3> DEFINE v == w("complete", Signals(rows))
    <3>1. /\ v.effect = "complete" /\ v.evaluation = e /\ v.score = Signals(rows)
          /\ v.evaluation.low = low /\ v.evaluation.text = jobs[j].text
      OBVIOUS
    <3> HIDE DEF v, rows
    <3> QED
      BY <1>1, <1>4, <2>1, <2>3, <2>4, <3>1 DEF PendingWrite
  <2> QED
    BY <1>1, <1>6, <2>2, <2>5, LockStep
<1> QED
  BY <1>5, <1>6 DEF EvaluateAggregates

-----------------------------------------------------------------------------
(***************************************************************************)
(* Steps of the API and of the start request.                              *)
(***************************************************************************)

\* A job appended behind the others.
LEMMA EnqueuedJob ==
    ASSUME IInv, NEW job \in JobRecord, NEW prior \in Seq(JobRecord), Len(prior) = Len(jobs)
    PROVE  /\ Append(prior, job) \in Seq(JobRecord)
           /\ DOMAIN Append(prior, job) = DOMAIN jobs \cup {Len(jobs) + 1}
           /\ Len(jobs) + 1 \notin DOMAIN jobs
           /\ \A i \in DOMAIN jobs : Append(prior, job)[i] = prior[i]
           /\ Append(prior, job)[Len(jobs) + 1] = job
           /\ Append(prior, job) # <<>>
           /\ DOMAIN jobs = 1 .. Len(jobs) /\ Len(jobs) \in Nat
<1>1. jobs \in Seq(JobRecord)
  BY DEF IInv, TypeOK
<1>2. DOMAIN jobs = 1 .. Len(jobs) /\ Len(jobs) \in Nat
  BY <1>1, SeqIsFunction
<1>3. DOMAIN prior = DOMAIN jobs
  BY <1>2, SeqIsFunction
<1>4. /\ Append(prior, job) \in Seq(JobRecord)
      /\ Len(Append(prior, job)) = Len(jobs) + 1
      /\ DOMAIN Append(prior, job) = 1 .. Len(jobs) + 1
      /\ \A i \in DOMAIN prior : Append(prior, job)[i] = prior[i]
      /\ Append(prior, job)[Len(jobs) + 1] = job
  BY AppendByIndex
<1>5. Append(prior, job) # <<>>
  BY <1>2, <1>4
<1>6. DOMAIN Append(prior, job) = DOMAIN jobs \cup {Len(jobs) + 1} /\ Len(jobs) + 1 \notin DOMAIN jobs
  BY <1>2, <1>4
<1> QED
  BY <1>2, <1>3, <1>4, <1>5, <1>6

LEMMA StartInterviewStep ==
    ASSUME IInv, StartInterview
    PROVE  IInv'
<1> DEFINE job == NewJob("generate", 0, 0)
<1>1. /\ start = "idle" /\ status' = "scheduled" /\ start' = "enqueuing"
      /\ jobs' = Append(jobs, job)
      /\ UNCHANGED <<answers, score, blob, uploads, faults>>
  BY DEF StartInterview
<1>2. jobs = <<>> /\ answers = <<>> /\ jobs \in Seq(JobRecord) /\ Len(jobs) = 0 /\ DOMAIN answers = {}
  BY <1>1 DEF IInv, StartOrder, TypeOK
<1>3. job \in JobRecord
  BY NewJobIsJob
<1>4. /\ jobs' \in Seq(JobRecord) /\ DOMAIN jobs' = {1} /\ jobs'[1] = job /\ jobs' # <<>>
  BY <1>1, <1>2, <1>3, EnqueuedJob
<1>5. /\ job.type = "generate" /\ job.pc = "inserted" /\ job.caller = 0
  BY DEF NewJob
<1> HIDE DEF job
<1>6. TypeOK'
  BY <1>1, <1>4 DEF IInv, TypeOK, Statuses
<1>7. StartOrder'
  BY <1>1, <1>2, <1>4, <1>5 DEF IInv, StartOrder
<1>8. Locals'
  BY <1>1, <1>4, <1>5 DEF IInv, Locals, JobLocals, UploadLocals
<1>9. AudioOnDisk' /\ LockHolds' /\ PendingWrites'
  BY <1>1, <1>2, <1>4, <1>5 DEF AudioOnDisk, LockHolds, PendingWrites
<1>10. ScoreIsCurrent' /\ (score # None => AllEvaluated)'
  BY <1>1 DEF IInv, ScoreIsCurrent, AllEvaluated
<1> QED
  BY <1>6, <1>7, <1>8, <1>9, <1>10 DEF IInv

LEMMA AbandonUnqueuedStep ==
    ASSUME IInv, AbandonUnqueued
    PROVE  IInv'
<1>1. /\ start = "abandoning" /\ start' = "answered" /\ status' = "abandoned"
      /\ UNCHANGED <<answers, score, blob, jobs, uploads, faults>>
  BY DEF AbandonUnqueued
<1>2. TypeOK' /\ StartOrder'
  BY <1>1 DEF IInv, TypeOK, StartOrder, Statuses
<1>3. Locals' /\ AudioOnDisk' /\ LockHolds'
  BY <1>1 DEF IInv, Locals, UploadLocals, AudioOnDisk, LockHolds
<1>4. PendingWrites' /\ ScoreIsCurrent' /\ (score # None => AllEvaluated)'
  BY <1>1 DEF IInv, PendingWrites, PendingWrite, ScoreIsCurrent, AllEvaluated
<1> QED
  BY <1>2, <1>3, <1>4 DEF IInv

\* A step of one upload handler that writes no row and pushes no job.
LEMMA UploadStep ==
    ASSUME IInv, NEW r \in Requests, NEW upload \in Upload,
           uploads' = [uploads EXCEPT ![r] = upload],
           UNCHANGED <<status, answers, score, jobs, start>>,
           blob' \in [AnswerIds -> Takes \cup {None}],
           \A a \in AnswerIds : blob[a] # None => blob'[a] # None,
           faults' \in Nat,
           upload.pc # "idle" =>
             /\ upload.answer \in DOMAIN answers
             /\ upload.take \in Takes /\ upload.loaded \in HeardColumns
             /\ upload.pc = "written" => blob'[upload.answer] # None
    PROVE  IInv'
<1>1. uploads \in [Requests -> Upload]
  BY DEF IInv, TypeOK
<1>2. \A q \in Requests : uploads'[q] = IF q = r THEN upload ELSE uploads[q]
  BY <1>1
<1>3. DOMAIN answers \subseteq AnswerIds
  BY SeqIsFunction, ConstantsAssumption DEF IInv, TypeOK, Locals, AnswerIds
<1>4. TypeOK'
  BY <1>1 DEF IInv, TypeOK
<1>5. StartOrder'
  BY <1>2 DEF IInv, StartOrder
<1>6. Locals'
  <2>1. ASSUME NEW q \in Requests, uploads'[q].pc # "idle"
        PROVE  /\ uploads'[q].take \in Takes
               /\ uploads'[q].loaded \in HeardColumns
               /\ uploads'[q].pc = "written" => blob'[uploads'[q].answer] # None
    <3>1. CASE q = r
      BY <1>2, <2>1, <3>1
    <3>2. CASE q # r
      <4>1. uploads'[q] = uploads[q] /\ uploads[q].answer \in AnswerIds /\ UploadLocals(uploads[q])
        BY <1>2, <1>3, <2>1, <3>2 DEF IInv, StartOrder, Locals
      <4> QED
        BY <2>1, <4>1 DEF UploadLocals
    <3> QED
      BY <3>1, <3>2
  <2> QED
    BY <2>1 DEF IInv, Locals, UploadLocals
<1>7. AudioOnDisk'
  BY <1>3 DEF IInv, AudioOnDisk
<1>8. LockHolds' /\ PendingWrites'
  BY DEF IInv, LockHolds, PendingWrites, PendingWrite
<1>9. ScoreIsCurrent' /\ (score # None => AllEvaluated)'
  BY DEF IInv, ScoreIsCurrent, AllEvaluated
<1> QED
  BY <1>4, <1>5, <1>6, <1>7, <1>8, <1>9 DEF IInv

LEMMA UploadCheckStep ==
    ASSUME IInv, NEW r \in Requests, NEW a \in AnswerIds, NEW take \in Takes,
           UploadCheck(r, a, take)
    PROVE  IInv'
<1> DEFINE upload == [pc |-> "checked", answer |-> a, take |-> take, loaded |-> Heard(answers[a])]
<1>1. a \in DOMAIN answers /\ answers[a] \in Row /\ faults \in Nat
      /\ blob \in [AnswerIds -> Takes \cup {None}]
  BY SeqIsFunction DEF UploadCheck, IInv, TypeOK
<1>2. Heard(answers[a]) \in HeardColumns
  BY <1>1 DEF Heard, HeardColumns, Row
<1>3. upload \in Upload
  BY <1>2, ConstantsAssumption DEF Upload, AnswerIds
<1>4. upload.take = take /\ upload.loaded \in HeardColumns /\ upload.pc = "checked"
  BY <1>2
<1>5. uploads' = [uploads EXCEPT ![r] = upload]
      /\ UNCHANGED <<status, answers, score, blob, jobs, start, faults>>
  BY DEF UploadCheck
<1>6. upload.answer = a
  OBVIOUS
<1> HIDE DEF upload
<1> QED
  BY <1>1, <1>3, <1>4, <1>5, <1>6, UploadStep

LEMMA UploadWriteStep ==
    ASSUME IInv, NEW r \in Requests, UploadWrite(r)
    PROVE  IInv'
<1> DEFINE a == uploads[r].answer
           upload == [uploads[r] EXCEPT !.pc = "written"]
<1>1. /\ uploads[r].pc = "checked" /\ uploads[r] \in Upload /\ faults \in Nat
      /\ UploadLocals(uploads[r])
      /\ blob \in [AnswerIds -> Takes \cup {None}]
  BY DEF UploadWrite, IInv, TypeOK, Locals
<1>2. a \in DOMAIN answers /\ a \in AnswerIds
  <2>1. a \in DOMAIN answers
    BY <1>1 DEF IInv, StartOrder
  <2> QED
    BY <2>1, SeqIsFunction, ConstantsAssumption DEF IInv, TypeOK, Locals, AnswerIds
<1>3. uploads[r].take \in Takes /\ uploads[r].loaded \in HeardColumns
  BY <1>1 DEF UploadLocals
<1>4. /\ upload \in Upload /\ upload.answer = a /\ upload.take = uploads[r].take
      /\ upload.loaded = uploads[r].loaded
  BY <1>1 DEF Upload
<1>5. /\ blob' = [blob EXCEPT ![a] = uploads[r].take]
      /\ uploads' = [uploads EXCEPT ![r] = upload]
      /\ UNCHANGED <<status, answers, score, jobs, start, faults>>
  <2>1. uploads \in [Requests -> Upload]
    BY DEF IInv, TypeOK
  <2> QED
    BY <2>1 DEF UploadWrite
<1>6. blob' \in [AnswerIds -> Takes \cup {None}] /\ blob'[a] # None
      /\ \A b \in AnswerIds : blob[b] # None => blob'[b] # None
  BY <1>1, <1>2, <1>3, <1>5, NoneAssumption
<1> HIDE DEF upload
<1> QED
  BY <1>1, <1>2, <1>3, <1>4, <1>5, <1>6, UploadStep

LEMMA UploadKilledStep ==
    ASSUME IInv, NEW r \in Requests, UploadKilled(r)
    PROVE  IInv'
<1>1. faults \in Nat /\ blob \in [AnswerIds -> Takes \cup {None}]
  BY DEF IInv, TypeOK
<1>2. IdleUpload \in Upload /\ IdleUpload.pc = "idle"
  BY DEF IdleUpload, Upload
<1>3. /\ uploads' = [uploads EXCEPT ![r] = IdleUpload] /\ faults' \in Nat
      /\ UNCHANGED <<status, answers, score, blob, jobs, start>>
  BY <1>1 DEF UploadKilled
<1> QED
  BY <1>1, <1>2, <1>3, UploadStep

-----------------------------------------------------------------------------
(***************************************************************************)
(* The commits of the jobs.                                                *)
(***************************************************************************)

LEMMA GenerateFailsStep ==
    ASSUME IInv, NEW j \in DOMAIN jobs, GenerateFails(j)
    PROVE  IInv'
<1> DEFINE r == Over(j, "failed")
<1>1. /\ jobs[j].pc = "working" /\ status' = "abandoned"
      /\ jobs' = [jobs EXCEPT ![j] = r]
      /\ UNCHANGED <<answers, score, blob, start, uploads, faults>>
  BY DEF GenerateFails
<1>2. TypeOK /\ jobs \in Seq(JobRecord) /\ faults \in Nat
      /\ start \in {"idle", "enqueuing", "abandoning", "answered"}
  BY DEF IInv, TypeOK
<1>3. start # "idle"
  BY <1>2, SeqIsFunction DEF IInv, StartOrder
<1>4. /\ r \in JobRecord /\ r.type = jobs[j].type /\ r.answer = jobs[j].answer
      /\ r.pc = "failed" /\ JobLocals(r)
  BY <1>2, OverIsJob DEF JobPcs, JobLocals
<1> HIDE DEF r
<1>5. /\ jobs' \in Seq(JobRecord) /\ Len(jobs') = Len(jobs)
      /\ \A i \in DOMAIN jobs : jobs'[i] = IF i = j THEN r ELSE jobs[i]
  BY <1>1, <1>2, <1>4
<1>6. \A i \in DOMAIN jobs : JobLocals(jobs[i])
  BY DEF IInv, Locals
<1> QED
  BY <1>1, <1>2, <1>3, <1>4, <1>5, <1>6, QuietStep DEF Ended

\* The questions of a plan are new rows.
LEMMA PlannedRows ==
    ASSUME NEW plan \in Plans
    PROVE  LET rows == [i \in DOMAIN plan |-> NewRow(plan[i], FALSE)] IN
           /\ rows \in Seq(Row) /\ Len(rows) = Len(plan) /\ Len(rows) <= MaxAnswers
           /\ rows # <<>> /\ DOMAIN rows = DOMAIN plan
           /\ \A i \in DOMAIN rows : rows[i] = NewRow(plan[i], FALSE)
<1>1. plan \in Seq(Kinds) /\ plan # <<>> /\ Len(plan) <= MaxAnswers
  BY ConstantsAssumption
<1>2. Len(plan) \in Nat /\ DOMAIN plan = 1 .. Len(plan) /\ \A i \in DOMAIN plan : plan[i] \in Kinds
  BY <1>1, SeqIsFunction
<1> DEFINE rows == [i \in DOMAIN plan |-> NewRow(plan[i], FALSE)]
<1>3. rows \in [1 .. Len(plan) -> Row]
  BY <1>2, NewRowIsRow
<1>4. rows \in Seq(Row) /\ Len(rows) = Len(plan)
  BY <1>2, <1>3, FunctionIsSeq
<1> QED
  BY <1>1, <1>2, <1>4, SeqIsFunction

LEMMA GenerateWriteStep ==
    ASSUME IInv, NEW j \in DOMAIN jobs, GenerateWrite(j)
    PROVE  IInv'
<1> DEFINE r == Over(j, "succeeded")
<1>1. PICK plan \in Plans : answers' = [i \in DOMAIN plan |-> NewRow(plan[i], FALSE)]
  BY DEF GenerateWrite
<1>2. /\ jobs[j].type = "generate" /\ jobs[j].pc = "working" /\ status' = "in_progress"
      /\ jobs' = [jobs EXCEPT ![j] = r]
      /\ UNCHANGED <<score, blob, start, uploads, faults>>
  BY DEF GenerateWrite
<1>3. TypeOK /\ jobs \in Seq(JobRecord) /\ DOMAIN jobs = 1 .. Len(jobs) /\ Len(jobs) \in Nat
  BY SeqIsFunction DEF IInv, TypeOK
\* Nothing is about any row yet: generate is the only job.
<1>4. /\ answers = <<>> /\ DOMAIN answers = {} /\ j = 1
      /\ \A i \in DOMAIN jobs : i = j
      /\ \A q \in Requests : uploads[q].pc = "idle"
  <2>1. answers = <<>> /\ j = 1
    BY <1>2 DEF IInv, StartOrder, Ended
  <2>2. DOMAIN answers = {}
    BY <2>1
  <2>3. \A i \in DOMAIN jobs : jobs[i].type = "generate"
    BY <2>2 DEF IInv, StartOrder
  <2>4. \A q \in Requests : uploads[q].pc = "idle"
    BY <2>2 DEF IInv, StartOrder
  <2> QED
    BY <2>1, <2>2, <2>3, <2>4 DEF IInv, StartOrder
<1>5. /\ r \in JobRecord /\ r.type = "generate" /\ r.pc = "succeeded" /\ JobLocals(r)
  BY <1>2, <1>3, OverIsJob DEF JobPcs, JobLocals
<1> HIDE DEF r
<1>6. /\ jobs' \in Seq(JobRecord) /\ DOMAIN jobs' = DOMAIN jobs /\ jobs' # <<>>
      /\ \A i \in DOMAIN jobs' : i = 1 /\ jobs'[i] = r
  BY <1>2, <1>3, <1>4, <1>5
<1>7. /\ answers' \in Seq(Row) /\ Len(answers') <= MaxAnswers /\ answers' # <<>>
      /\ \A i \in DOMAIN answers' : ~answers'[i].audio /\ answers'[i].evaluation = None
  BY <1>1, PlannedRows DEF NewRow
<1>8. score = None
  BY <1>4 DEF IInv, AllEvaluated
<1>9. TypeOK'
  BY <1>2, <1>3, <1>6, <1>7 DEF TypeOK, Statuses
<1>10. start # "idle"
  BY <1>3, <1>4 DEF IInv, StartOrder
<1>11. StartOrder'
  BY <1>2, <1>4, <1>5, <1>6, <1>7, <1>10 DEF StartOrder, Ended
<1>12. Locals'
  BY <1>2, <1>4, <1>5, <1>6, <1>7 DEF Locals, UploadLocals
<1>13. AudioOnDisk' /\ LockHolds' /\ PendingWrites'
  BY <1>2, <1>5, <1>6, <1>7 DEF AudioOnDisk, LockHolds, PendingWrites
<1>14. ScoreIsCurrent' /\ (score # None => AllEvaluated)'
  BY <1>2, <1>8 DEF ScoreIsCurrent
<1> QED
  BY <1>9, <1>11, <1>12, <1>13, <1>14 DEF IInv

\* A commit that flushes heard columns into a row no evaluate holds, and may
\* append one job about that row; the job that commits, if any, moves on.
LEMMA HeardStep ==
    ASSUME IInv, NEW a \in DOMAIN answers, NEW loaded \in HeardColumns,
           NEW assigned \in HeardColumns,
           answers' = [answers EXCEPT ![a] = WithHeard(@, loaded, assigned)],
           ~Locked(a), blob[a] # None,
           UNCHANGED <<status, score, blob, start>>, faults' \in Nat,
           uploads' \in [Requests -> Upload],
           \A r \in Requests : uploads'[r] = uploads[r] \/ uploads'[r].pc = "idle",
           jobs' \in Seq(JobRecord), DOMAIN jobs \subseteq DOMAIN jobs', jobs # <<>>,
           jobs' # <<>>,
           \A i \in DOMAIN jobs' : i \in DOMAIN jobs =>
             \/ jobs'[i] = jobs[i]
             \/ /\ jobs'[i].type = jobs[i].type /\ jobs'[i].answer = jobs[i].answer
                /\ ~Ended(jobs[i].pc) /\ JobLocals(jobs'[i]) /\ jobs'[i].pc # "locked",
           \A i \in DOMAIN jobs' : i \notin DOMAIN jobs =>
             /\ jobs'[i].type # "generate" /\ jobs'[i].answer = a
             /\ jobs'[i].pc = "inserted" /\ JobLocals(jobs'[i])
    PROVE  IInv'
<1> DEFINE row == WithHeard(answers[a], loaded, assigned)
<1>1. /\ answers \in Seq(Row) /\ DOMAIN answers = 1 .. Len(answers) /\ Len(answers) \in Nat
      /\ \A i \in DOMAIN answers : answers[i] \in Row
  BY SeqIsFunction DEF IInv, TypeOK
<1>2. /\ row \in Row /\ row.audio /\ row.kind = answers[a].kind
      /\ row.followUp = answers[a].followUp /\ row.evaluation = answers[a].evaluation
  BY <1>1, WithHeardIsRow
<1>3. answers' = [answers EXCEPT ![a] = row]
  OBVIOUS
<1> HIDE DEF row
<1>4. /\ answers' \in Seq(Row) /\ Len(answers') = Len(answers) /\ DOMAIN answers' = DOMAIN answers
      /\ (answers' = <<>> <=> answers = <<>>)
      /\ \A i \in DOMAIN answers : answers'[i] = IF i = a THEN row ELSE answers[i]
  <2>1. \A i \in DOMAIN answers : answers'[i] = IF i = a THEN row ELSE answers[i]
    BY <1>3
  <2>2. answers' \in [1 .. Len(answers) -> Row]
    BY <1>1, <1>2, <1>3
  <2>3. answers' \in Seq(Row) /\ Len(answers') = Len(answers)
    BY <1>1, <2>2, FunctionIsSeq
  <2> QED
    BY <1>1, <2>1, <2>3, SeqIsFunction
<1>5. \A i \in DOMAIN answers :
        /\ answers'[i].kind = answers[i].kind
        /\ answers'[i].followUp = answers[i].followUp
        /\ answers'[i].evaluation = answers[i].evaluation
        /\ i # a => answers'[i] = answers[i]
  BY <1>2, <1>4
\* The jobs that hold a row held it before, and hold another row than a.
<1>6. \A i \in DOMAIN jobs' : jobs'[i].pc = "locked" =>
        /\ i \in DOMAIN jobs /\ jobs'[i] = jobs[i] /\ jobs[i].answer # a
        /\ jobs[i].answer \in DOMAIN answers
  <2> SUFFICES ASSUME NEW i \in DOMAIN jobs', jobs'[i].pc = "locked"
               PROVE  /\ i \in DOMAIN jobs /\ jobs'[i] = jobs[i] /\ jobs[i].answer # a
                      /\ jobs[i].answer \in DOMAIN answers
    OBVIOUS
  <2>1. i \in DOMAIN jobs /\ jobs'[i] = jobs[i]
    OBVIOUS
  <2>2. jobs[i].type = "evaluate"
    BY <2>1 DEF IInv, Locals, JobLocals
  <2> QED
    BY <2>1, <2>2 DEF IInv, StartOrder, Locked
<1>7. TypeOK'
  BY <1>4 DEF IInv, TypeOK
<1>8. StartOrder'
  <2>1. \A i \in DOMAIN jobs' :
          /\ jobs'[i].type = "generate" => i = 1
          /\ jobs'[i].type = "generate" /\ ~Ended(jobs'[i].pc) => answers' = <<>>
          /\ jobs'[i].type # "generate" => jobs'[i].answer \in DOMAIN answers'
    BY <1>4 DEF IInv, StartOrder
  <2>2. \A r \in Requests : uploads'[r].pc # "idle" => uploads'[r].answer \in DOMAIN answers'
    BY <1>4 DEF IInv, StartOrder
  <2>3. /\ start' = "idle" => status' = "absent" /\ jobs' = <<>> /\ answers' = <<>>
        /\ start' # "idle" => status' # "absent" /\ jobs' # <<>>
        /\ answers' = <<>> => status' \in {"absent", "scheduled", "abandoned"}
    BY <1>4 DEF IInv, StartOrder
  <2> QED
    BY <2>1, <2>2, <2>3 DEF StartOrder
<1>9. Locals'
  <2>1. \A i \in DOMAIN jobs' : JobLocals(jobs'[i])
    BY <1>4 DEF IInv, Locals
  <2>2. \A r \in Requests : uploads'[r].pc # "idle" => uploads'[r] = uploads[r]
    OBVIOUS
  <2>3. \A r \in Requests : UploadLocals(uploads[r])
    BY DEF IInv, Locals
  <2>4. \A r \in Requests : uploads'[r].pc # "idle" =>
          /\ uploads'[r].take \in Takes
          /\ uploads'[r].loaded \in HeardColumns
          /\ uploads'[r].pc = "written" => blob[uploads'[r].answer] # None
    BY <2>2, <2>3 DEF UploadLocals
  <2>5. Len(answers') <= MaxAnswers
    BY <1>4 DEF IInv, Locals
  <2> QED
    BY <2>1, <2>4, <2>5 DEF Locals, JobLocals, UploadLocals
<1>10. AudioOnDisk'
  BY <1>2, <1>4 DEF IInv, AudioOnDisk, StartOrder
<1>11. LockHolds'
  BY <1>5, <1>6 DEF IInv, LockHolds
<1>12. PendingWrites'
  <2> SUFFICES ASSUME NEW i \in DOMAIN jobs', jobs'[i].pc = "locked"
               PROVE  PendingWrite(jobs[i].answer, jobs[i].write)'
    BY DEF PendingWrites
  <2>1. /\ jobs'[i].answer = jobs[i].answer /\ jobs'[i].write = jobs[i].write
        /\ jobs[i].answer \in DOMAIN answers
    BY <1>6
  <2>2. PendingWrite(jobs[i].answer, jobs[i].write)
    BY <1>6 DEF IInv, PendingWrites
  <2>3. /\ Len(answers') = Len(answers) /\ DOMAIN answers' = DOMAIN answers
        /\ \A b \in DOMAIN answers :
             /\ answers'[b].kind = answers[b].kind
             /\ answers'[b].followUp = answers[b].followUp
             /\ answers'[b].evaluation = answers[b].evaluation
    BY <1>4, <1>5
  <2> QED
    BY <2>1, <2>2, <2>3 DEF PendingWrite
<1>13. ScoreIsCurrent' /\ (score # None => AllEvaluated)'
  BY <1>4, <1>5 DEF IInv, ScoreIsCurrent, AllEvaluated
<1> QED
  BY <1>7, <1>8, <1>9, <1>10, <1>11, <1>12, <1>13 DEF IInv

LEMMA UploadCommitStep ==
    ASSUME IInv, NEW r \in Requests, UploadCommit(r)
    PROVE  IInv'
<1> DEFINE a == uploads[r].answer
           job == NewJob("transcribe", a, 0)
           cleared == [metrics |-> None, text |-> None]
<1>1. /\ uploads[r].pc = "written" /\ ~Locked(a)
      /\ answers' = [answers EXCEPT ![a] = WithHeard(@, uploads[r].loaded, cleared)]
      /\ jobs' = Append(jobs, job)
      /\ uploads' = [uploads EXCEPT ![r] = IdleUpload]
      /\ UNCHANGED <<status, score, blob, start, faults>>
  BY DEF UploadCommit
<1>2. /\ a \in DOMAIN answers /\ UploadLocals(uploads[r]) /\ a \in Nat
      /\ jobs \in Seq(JobRecord) /\ uploads \in [Requests -> Upload] /\ faults \in Nat
  BY <1>1, SeqIsFunction DEF IInv, StartOrder, Locals, TypeOK
<1>3. uploads[r].loaded \in HeardColumns /\ blob[a] # None /\ cleared \in HeardColumns
  BY <1>1, <1>2 DEF UploadLocals, HeardColumns
<1>4. jobs # <<>>
  BY <1>2, SeqIsFunction DEF IInv, StartOrder, TypeOK
<1>5. /\ job \in JobRecord /\ job.type = "transcribe" /\ job.answer = a
      /\ job.pc = "inserted" /\ JobLocals(job)
  BY <1>2, NewJobIsJob DEF NewJob, JobLocals
<1>6. \A q \in Requests : uploads'[q] = uploads[q] \/ uploads'[q].pc = "idle"
  BY <1>1, <1>2 DEF IdleUpload
<1>7. uploads' \in [Requests -> Upload]
  BY <1>1, <1>2 DEF IdleUpload, Upload
<1> HIDE DEF job, cleared
<1>8. /\ jobs' \in Seq(JobRecord) /\ DOMAIN jobs' = DOMAIN jobs \cup {Len(jobs) + 1} /\ jobs' # <<>>
      /\ \A i \in DOMAIN jobs : jobs'[i] = jobs[i]
      /\ jobs'[Len(jobs) + 1] = job
  BY <1>1, <1>2, <1>5, EnqueuedJob
<1>9. \A i \in DOMAIN jobs' : i \notin DOMAIN jobs => jobs'[i] = job
  BY <1>8
<1> QED
  BY <1>1, <1>2, <1>3, <1>4, <1>5, <1>6, <1>7, <1>8, <1>9, HeardStep

LEMMA TranscribeCommitStep ==
    ASSUME IInv, NEW j \in DOMAIN jobs, TranscribeCommit(j)
    PROVE  IInv'
<1> DEFINE a == jobs[j].answer
           text == TranscriptOf[jobs[j].heard]
           heard == [metrics |-> jobs[j].heard, text |-> text]
           job == NewJob("evaluate", a, j)
           prior(outcome) == [jobs EXCEPT ![j] = Over(j, outcome)]
<1>1. /\ jobs[j].type = "transcribe" /\ jobs[j].pc = "checked" /\ ~Locked(a)
      /\ answers' = [answers EXCEPT ![a] = WithHeard(@, jobs[j].loaded, heard)]
      /\ UNCHANGED <<status, score, blob, start, uploads, faults>>
      /\ \/ jobs' = prior("succeeded")
         \/ jobs' = Append(prior("enqueuing"), job)
  BY DEF TranscribeCommit
<1>2. /\ a \in DOMAIN answers /\ JobLocals(jobs[j]) /\ a \in Nat /\ j \in Nat
      /\ jobs \in Seq(JobRecord) /\ uploads \in [Requests -> Upload] /\ faults \in Nat /\ TypeOK
  BY <1>1, SeqIsFunction DEF IInv, StartOrder, Locals, TypeOK
<1>3. jobs[j].loaded \in HeardColumns /\ heard \in HeardColumns
  BY <1>1, <1>2, ConstantsAssumption DEF JobLocals, HeardColumns
<1>4. blob[a] # None
  BY <1>1, <1>2 DEF IInv, AudioOnDisk, Ended
<1>5. jobs # <<>>
  BY <1>2, SeqIsFunction
<1>6. /\ job \in JobRecord /\ job.type = "evaluate" /\ job.answer = a
      /\ job.pc = "inserted" /\ JobLocals(job)
  BY <1>2, NewJobIsJob DEF NewJob, JobLocals
<1>7. \A outcome \in {"succeeded", "enqueuing"} :
        /\ prior(outcome) \in Seq(JobRecord) /\ Len(prior(outcome)) = Len(jobs)
        /\ \A i \in DOMAIN jobs : prior(outcome)[i] = IF i = j THEN Over(j, outcome) ELSE jobs[i]
        /\ Over(j, outcome).type = jobs[j].type /\ Over(j, outcome).answer = a
        /\ Over(j, outcome).pc = outcome /\ JobLocals(Over(j, outcome))
  <2> SUFFICES ASSUME NEW outcome \in {"succeeded", "enqueuing"}
               PROVE  /\ prior(outcome) \in Seq(JobRecord) /\ Len(prior(outcome)) = Len(jobs)
                      /\ \A i \in DOMAIN jobs :
                           prior(outcome)[i] = IF i = j THEN Over(j, outcome) ELSE jobs[i]
                      /\ Over(j, outcome).type = jobs[j].type /\ Over(j, outcome).answer = a
                      /\ Over(j, outcome).pc = outcome /\ JobLocals(Over(j, outcome))
    OBVIOUS
  <2>1. outcome \in JobPcs
    BY DEF JobPcs
  <2>2. /\ Over(j, outcome) \in JobRecord /\ Over(j, outcome).type = jobs[j].type
        /\ Over(j, outcome).answer = a /\ Over(j, outcome).pc = outcome
    BY <1>2, <2>1, OverIsJob
  <2>3. JobLocals(Over(j, outcome))
    BY <1>1, <2>2 DEF JobLocals
  <2>4. prior(outcome) \in Seq(JobRecord) /\ Len(prior(outcome)) = Len(jobs)
    BY <1>2, <2>2
  <2> QED
    BY <1>2, <2>2, <2>3, <2>4
<1>8. DOMAIN jobs = 1 .. Len(jobs) /\ ~Ended(jobs[j].pc)
  BY <1>1, <1>2, SeqIsFunction DEF Ended
<1> HIDE DEF job, heard, prior
<1>9. CASE jobs' = prior("succeeded")
  <2>1. jobs' \in Seq(JobRecord) /\ DOMAIN jobs' = DOMAIN jobs /\ jobs' # <<>>
    BY <1>5, <1>7, <1>8, <1>9, SeqIsFunction
  <2> QED
    BY <1>1, <1>2, <1>3, <1>4, <1>5, <1>7, <1>8, <1>9, <2>1, HeardStep
<1>10. CASE jobs' = Append(prior("enqueuing"), job)
  <2>1. /\ jobs' \in Seq(JobRecord) /\ DOMAIN jobs' = DOMAIN jobs \cup {Len(jobs) + 1} /\ jobs' # <<>>
        /\ \A i \in DOMAIN jobs : jobs'[i] = IF i = j THEN Over(j, "enqueuing") ELSE jobs[i]
        /\ jobs'[Len(jobs) + 1] = job
    BY <1>6, <1>7, <1>10, EnqueuedJob
  <2>2. \A i \in DOMAIN jobs' : i \notin DOMAIN jobs => jobs'[i] = job
    BY <2>1
  <2> QED
    BY <1>1, <1>2, <1>3, <1>4, <1>5, <1>6, <1>7, <1>8, <2>1, <2>2, HeardStep
<1> QED
  BY <1>1, <1>9, <1>10

\* The commit of an evaluate: what it read under the lock is still so.
LEMMA EvaluateCommitStep ==
    ASSUME IInv, NEW j \in DOMAIN jobs, EvaluateCommit(j)
    PROVE  IInv'
<1> DEFINE a == jobs[j].answer
           w == jobs[j].write
           e == w.evaluation
           scored == [answers EXCEPT ![a].evaluation = e]
           row == NewRow(w.kind, TRUE)
           r == Over(j, IF w.effect = "incomplete" THEN "failed" ELSE "succeeded")
<1>1. /\ jobs[j].pc = "locked" /\ jobs' = [jobs EXCEPT ![j] = r]
      /\ UNCHANGED <<blob, start, uploads, faults>>
      /\ \/ /\ w.effect = "follow_up" /\ w.order = Len(answers) + 1
            /\ answers' = Append(scored, row) /\ UNCHANGED <<status, score>>
         \/ /\ w.effect \in {"open", "incomplete"}
            /\ answers' = scored /\ UNCHANGED <<status, score>>
         \/ /\ w.effect = "complete"
            /\ answers' = scored /\ status' = "completed" /\ score' = w.score
  BY DEF EvaluateCommit
<1>2. /\ TypeOK /\ jobs \in Seq(JobRecord) /\ answers \in Seq(Row)
      /\ DOMAIN answers = 1 .. Len(answers) /\ Len(answers) \in Nat
      /\ JobLocals(jobs[j])
  BY SeqIsFunction DEF IInv, TypeOK, Locals
<1>3. jobs[j].type = "evaluate" /\ w \in Write /\ e \in Evaluation
  BY <1>1, <1>2 DEF JobLocals, Write
<1>4. a \in DOMAIN answers /\ answers[a].evaluation = None /\ PendingWrite(a, w)
  BY <1>1, <1>3 DEF IInv, StartOrder, LockHolds, PendingWrites
<1>5. score = None
  BY <1>4 DEF IInv, AllEvaluated
<1>6. e # None
  BY <1>3, NoneAssumption
<1>7. /\ scored \in Seq(Row) /\ Len(scored) = Len(answers) /\ DOMAIN scored = DOMAIN answers
      /\ \A i \in DOMAIN answers :
           /\ scored[i].kind = answers[i].kind
           /\ scored[i].followUp = answers[i].followUp
           /\ scored[i].audio = answers[i].audio
           /\ scored[i].metrics = answers[i].metrics
           /\ scored[i].text = answers[i].text
           /\ scored[i].evaluation = IF i = a THEN e ELSE answers[i].evaluation
  BY <1>2, <1>3, <1>4, EvaluatedRows
<1>8. /\ r \in JobRecord /\ r.type = "evaluate" /\ r.answer = a
      /\ Ended(r.pc) /\ r.pc # "locked" /\ JobLocals(r)
  BY <1>2, <1>3, OverIsJob DEF JobPcs, JobLocals, Ended
<1> HIDE DEF r, scored
<1>9. /\ jobs' \in Seq(JobRecord) /\ Len(jobs') = Len(jobs) /\ DOMAIN jobs' = DOMAIN jobs
      /\ (jobs' = <<>> <=> jobs = <<>>)
      /\ \A i \in DOMAIN jobs : jobs'[i] = IF i = j THEN r ELSE jobs[i]
  BY <1>1, <1>2, <1>8
\* What the commit does to the rows, whichever of the three it is.
<1>10. /\ answers' \in Seq(Row) /\ DOMAIN answers \subseteq DOMAIN answers' /\ answers' # <<>>
       /\ Len(answers') <= MaxAnswers
       /\ \A i \in DOMAIN answers :
            /\ answers'[i].kind = answers[i].kind
            /\ answers'[i].followUp = answers[i].followUp
            /\ answers'[i].audio = answers[i].audio
            /\ answers'[i].text = answers[i].text
            /\ answers'[i].evaluation = IF i = a THEN e ELSE answers[i].evaluation
       /\ \A i \in DOMAIN answers' : i \notin DOMAIN answers => ~answers'[i].audio
  <2>1. Len(answers) <= MaxAnswers /\ MaxAnswers \in Nat /\ Len(answers) # 0
    BY <1>2, <1>4, ConstantsAssumption DEF IInv, Locals
  <2>2. CASE w.effect = "follow_up" /\ w.order = Len(answers) + 1 /\ answers' = Append(scored, row)
    <3>1. w.kind \in Kinds /\ Len(answers) + 1 <= MaxAnswers
      BY <1>4, <2>2 DEF PendingWrite
    <3>2. row \in Row /\ ~row.audio
      BY <3>1, NewRowIsRow DEF NewRow
    <3> HIDE DEF row
    <3>3. /\ answers' \in Seq(Row) /\ Len(answers') = Len(answers) + 1
          /\ DOMAIN answers' = 1 .. Len(answers) + 1
          /\ \A i \in DOMAIN answers : answers'[i] = scored[i]
          /\ answers'[Len(answers) + 1] = row
      BY <1>7, <2>2, <3>2, AppendByIndex
    <3> QED
      BY <1>2, <1>7, <2>1, <3>1, <3>2, <3>3
  <2>3. CASE answers' = scored
    BY <1>2, <1>7, <2>1, <2>3
  <2> QED
    BY <1>1, <2>2, <2>3
\* Another evaluate may hold another row, but not to complete the session: row a
\* was not scored when it read.
<1>11. \A k \in DOMAIN jobs' : jobs'[k].pc = "locked" =>
         /\ k \in DOMAIN jobs /\ jobs'[k] = jobs[k]
         /\ jobs[k].answer \in DOMAIN answers /\ jobs[k].answer # a
         /\ jobs[k].write.effect # "complete"
  <2> SUFFICES ASSUME NEW k \in DOMAIN jobs', jobs'[k].pc = "locked"
               PROVE  /\ k \in DOMAIN jobs /\ jobs'[k] = jobs[k]
                      /\ jobs[k].answer \in DOMAIN answers /\ jobs[k].answer # a
                      /\ jobs[k].write.effect # "complete"
    OBVIOUS
  <2>1. k \in DOMAIN jobs /\ jobs'[k] = jobs[k] /\ k # j
    BY <1>8, <1>9
  <2>2. jobs[k].type = "evaluate"
    BY <2>1 DEF IInv, Locals, JobLocals
  <2>3. jobs[k].answer \in DOMAIN answers /\ jobs[k].answer # a
    BY <1>1, <2>1, <2>2 DEF IInv, StartOrder, LockHolds
  <2>4. PendingWrite(jobs[k].answer, jobs[k].write)
    BY <2>1 DEF IInv, PendingWrites
  <2> QED
    BY <1>4, <2>1, <2>3, <2>4 DEF PendingWrite
<1>12. \/ UNCHANGED <<status, score>>
       \/ w.effect = "complete" /\ answers' = scored /\ status' = "completed" /\ score' = w.score
  BY <1>1
<1>13. TypeOK'
  <2>1. status' \in Statuses /\ score' \in Seq(Signal) \cup {None}
    BY <1>2, <1>3, <1>12 DEF TypeOK, Statuses, Write
  <2> QED
    BY <1>1, <1>2, <1>9, <1>10, <2>1 DEF TypeOK
<1>14. StartOrder'
  <2>1. start # "idle" /\ answers # <<>>
    BY <1>2, <1>4 DEF IInv, StartOrder
  <2>2. status' # "absent"
    BY <1>12, <2>1 DEF IInv, StartOrder
  <2>3. \A i \in DOMAIN jobs' :
          /\ jobs'[i].type = "generate" => i = 1
          /\ jobs'[i].type = "generate" => Ended(jobs'[i].pc)
          /\ jobs'[i].type # "generate" => jobs'[i].answer \in DOMAIN answers'
    BY <1>3, <1>4, <1>8, <1>9, <1>10, <2>1 DEF IInv, StartOrder
  <2> QED
    BY <1>1, <1>9, <1>10, <2>1, <2>2, <2>3 DEF IInv, StartOrder
<1>15. Locals'
  BY <1>1, <1>8, <1>9, <1>10 DEF IInv, Locals, UploadLocals
<1>16. AudioOnDisk'
  BY <1>1, <1>3, <1>8, <1>9, <1>10 DEF IInv, AudioOnDisk, StartOrder
<1>17. LockHolds'
  BY <1>10, <1>11 DEF IInv, LockHolds
<1>18. PendingWrites'
  <2> SUFFICES ASSUME NEW k \in DOMAIN jobs', jobs'[k].pc = "locked"
               PROVE  PendingWrite(jobs[k].answer, jobs[k].write)'
    BY DEF PendingWrites
  <2>1. PendingWrite(jobs[k].answer, jobs[k].write) /\ jobs[k].write.effect # "complete"
    BY <1>11 DEF IInv, PendingWrites
  <2>2. jobs'[k].answer = jobs[k].answer /\ jobs'[k].write = jobs[k].write
    BY <1>11
  <2>3. answers'[jobs[k].answer].followUp = answers[jobs[k].answer].followUp
    BY <1>10, <1>11
  <2> QED
    BY <2>1, <2>2, <2>3 DEF PendingWrite
<1>19. ScoreIsCurrent' /\ (score # None => AllEvaluated)'
  <2>1. CASE UNCHANGED <<status, score>>
    BY <1>5, <2>1 DEF ScoreIsCurrent
  <2>2. CASE w.effect = "complete" /\ answers' = scored /\ score' = w.score
    <3>1. /\ Len(w.score) = Len(answers)
          /\ \A i \in DOMAIN answers :
               /\ w.score[i].kind = answers[i].kind
               /\ i = a => w.score[i].evaluation = e
               /\ i # a => /\ answers[i].evaluation # None
                           /\ w.score[i].evaluation = answers[i].evaluation
      BY <1>4, <2>2 DEF PendingWrite
    <3> QED
      BY <1>6, <1>7, <1>10, <2>2, <3>1 DEF ScoreIsCurrent, AllEvaluated
  <2> QED
    BY <1>12, <2>1, <2>2
<1> QED
  BY <1>13, <1>14, <1>15, <1>16, <1>17, <1>18, <1>19 DEF IInv

-----------------------------------------------------------------------------
(***************************************************************************)
(* The invariant holds.                                                    *)
(***************************************************************************)

LEMMA InitIInv == Init => IInv
<1> SUFFICES ASSUME Init PROVE IInv
  OBVIOUS
<1>1. TypeOK
  BY DEF Init, TypeOK, Statuses, IdleUpload, Upload, AnswerIds
<1>2. StartOrder /\ Locals
  BY ConstantsAssumption DEF Init, StartOrder, Locals, UploadLocals, IdleUpload
<1>3. AudioOnDisk /\ LockHolds /\ PendingWrites
  BY DEF Init, AudioOnDisk, LockHolds, PendingWrites
<1>4. ScoreIsCurrent /\ (score # None => AllEvaluated)
  BY DEF Init, ScoreIsCurrent
<1> QED
  BY <1>1, <1>2, <1>3, <1>4 DEF IInv

LEMMA NextIInv == IInv /\ [Next]_vars => IInv'
<1> SUFFICES ASSUME IInv, [Next]_vars PROVE IInv'
  OBVIOUS
<1>1. CASE UNCHANGED vars
  BY <1>1
     DEF vars, IInv, TypeOK, StartOrder, Locals, UploadLocals, AudioOnDisk, LockHolds,
         PendingWrites, PendingWrite, ScoreIsCurrent, AllEvaluated
<1>2. CASE Candidate
  BY <1>2, StartInterviewStep, UploadCheckStep DEF Candidate
<1>3. CASE Api
  BY <1>3, AbandonUnqueuedStep, UploadWriteStep, UploadCommitStep DEF Api
<1>4. ASSUME NEW j \in DOMAIN jobs, Job(j)
      PROVE  IInv'
  <2>1. CASE Push(j)
    BY <2>1, PushStep
  <2>2. CASE Generate(j)
    BY <2>2, GenerateBeginStep, GenerateWriteStep, GenerateFailsStep DEF Generate
  <2>3. CASE Transcribe(j)
    BY <2>3, TranscribeBeginStep, TranscribeHearStep, TranscribeCheckStep, TranscribeCommitStep,
       QuietEndSteps
       DEF Transcribe
  <2>4. CASE Evaluate(j)
    BY <2>4, EvaluateBeginStep, EvaluateProbesStep, EvaluateAggregatesStep, EvaluateCommitStep,
       QuietEndSteps
       DEF Evaluate
  <2> QED
    BY <1>4, <2>1, <2>2, <2>3, <2>4 DEF Job
<1>5. CASE Faults
  BY <1>5, PushFailsStep, EnqueuerKilledStep, UploadKilledStep, QuietEndSteps DEF Faults
<1> QED
  BY <1>1, <1>2, <1>3, <1>4, <1>5 DEF Next

\* The inductive invariant of the session: what each handler may still rely on
\* after every await of interview_generate, transcribe, interview_evaluate and
\* the upload handler.
THEOREM Invariance == Spec => []IInv
<1>1. Init => IInv
  BY InitIInv
<1>2. IInv /\ [Next]_vars => IInv'
  BY NextIInv
<1> QED
  BY <1>1, <1>2, PTL DEF Spec

\* Every row, job and handler keeps its type, for any number of requests,
\* recordings, questions and jobs.
THEOREM TypeCorrect == Spec => []TypeOK
<1>1. IInv => TypeOK
  BY DEF IInv
<1> QED
  BY <1>1, Invariance, PTL

\* A stored score (_upsert_completed_score) is about the evaluations that are
\* stored, of every question there is.
THEOREM ScoresStayCurrent == Spec => []ScoreIsCurrent
<1>1. IInv => ScoreIsCurrent
  BY DEF IInv
<1> QED
  BY <1>1, Invariance, PTL

\* SELECT ... FOR UPDATE in interview_evaluate protects what it is taken for.
THEOREM LocksHold == Spec => []LockHolds
<1>1. IInv => LockHolds
  BY DEF IInv
<1> QED
  BY <1>1, Invariance, PTL

\* A committed audio_path has its file, whatever dies in between (upload_answer_audio).
THEOREM AudioStaysOnDisk == Spec => []AudioOnDisk
<1>1. IInv => AudioOnDisk
  BY DEF IInv
<1> QED
  BY <1>1, Invariance, PTL

-----------------------------------------------------------------------------
(***************************************************************************)
(* What a commit does to the rows, and the action property.                *)
(***************************************************************************)

\* The steps that write the rows of the session; every other one leaves them.
RowsWritten ==
    \/ \E j \in DOMAIN jobs : GenerateWrite(j) \/ TranscribeCommit(j) \/ EvaluateCommit(j)
    \/ \E r \in Requests : UploadCommit(r)

LEMMA RowsUnwritten ==
    ASSUME [Next]_vars, ~RowsWritten
    PROVE  UNCHANGED <<answers, score>>
<1>1. CASE UNCHANGED vars
  BY <1>1 DEF vars
<1>2. CASE Candidate
  BY <1>2 DEF Candidate, StartInterview, UploadCheck
<1>3. CASE Api
  BY <1>3 DEF Api, AbandonUnqueued, UploadWrite, RowsWritten
<1>4. ASSUME NEW j \in DOMAIN jobs, Job(j)
      PROVE  UNCHANGED <<answers, score>>
  <2>1. CASE Push(j)
    BY <2>1 DEF Push
  <2>2. CASE Generate(j)
    BY <2>2 DEF Generate, GenerateBegin, GenerateFails, RowsWritten
  <2>3. CASE Transcribe(j)
    BY <2>3 DEF Transcribe, TranscribeBegin, TranscribeHear, TranscribeFails, TranscribeSkips,
                TranscribeCheck, EndsQuietly, RowsWritten
  <2>4. CASE Evaluate(j)
    BY <2>4 DEF Evaluate, EvaluateBegin, EvaluateWithoutText, EvaluateDuplicate, EvaluateFails,
                EvaluateSkips, EvaluateProbes, EvaluateAggregates, EvaluateCollides, EndsQuietly,
                Locks, RowsWritten
  <2> QED
    BY <1>4, <2>1, <2>2, <2>3, <2>4 DEF Job
<1>5. CASE Faults
  BY <1>5 DEF Faults, PushFails, JobKilled, EnqueuerKilled, UploadKilled
<1> QED
  BY <1>1, <1>2, <1>3, <1>4, <1>5 DEF Next

\* A retake or a transcript changes nothing that a reader of the contract sees.
LEMMA HeardRows ==
    ASSUME IInv, NEW a \in DOMAIN answers, NEW loaded \in HeardColumns,
           NEW assigned \in HeardColumns,
           answers' = [answers EXCEPT ![a] = WithHeard(@, loaded, assigned)]
    PROVE  /\ DOMAIN answers' = DOMAIN answers
           /\ \A i \in DOMAIN answers :
                /\ answers'[i].kind = answers[i].kind
                /\ answers'[i].followUp = answers[i].followUp
                /\ answers'[i].evaluation = answers[i].evaluation
<1>1. \A i \in DOMAIN answers : answers[i] \in Row
  BY SeqIsFunction DEF IInv, TypeOK
<1>2. \A i \in DOMAIN answers :
        answers'[i] = IF i = a THEN WithHeard(answers[a], loaded, assigned) ELSE answers[i]
  OBVIOUS
<1> QED
  BY <1>1, <1>2, WithHeardIsRow

LEMMA UploadCommitRows ==
    ASSUME IInv, NEW r \in Requests, UploadCommit(r)
    PROVE  /\ DOMAIN answers' = DOMAIN answers
           /\ \A i \in DOMAIN answers :
                /\ answers'[i].kind = answers[i].kind
                /\ answers'[i].followUp = answers[i].followUp
                /\ answers'[i].evaluation = answers[i].evaluation
           /\ UNCHANGED <<status, score>>
<1> DEFINE cleared == [metrics |-> None, text |-> None]
<1>1. uploads[r].answer \in DOMAIN answers /\ uploads[r].loaded \in HeardColumns
  BY DEF UploadCommit, IInv, StartOrder, Locals, UploadLocals
<1>2. cleared \in HeardColumns
  BY DEF HeardColumns
<1>3. /\ answers' = [answers EXCEPT ![uploads[r].answer] =
                       WithHeard(@, uploads[r].loaded, cleared)]
      /\ UNCHANGED <<status, score>>
  BY DEF UploadCommit
<1> HIDE DEF cleared
<1> QED
  BY <1>1, <1>2, <1>3, HeardRows

LEMMA TranscribeCommitRows ==
    ASSUME IInv, NEW j \in DOMAIN jobs, TranscribeCommit(j)
    PROVE  /\ DOMAIN answers' = DOMAIN answers
           /\ \A i \in DOMAIN answers :
                /\ answers'[i].kind = answers[i].kind
                /\ answers'[i].followUp = answers[i].followUp
                /\ answers'[i].evaluation = answers[i].evaluation
           /\ UNCHANGED <<status, score>>
<1> DEFINE heard == [metrics |-> jobs[j].heard, text |-> TranscriptOf[jobs[j].heard]]
<1>1. /\ jobs[j].answer \in DOMAIN answers /\ jobs[j].loaded \in HeardColumns
      /\ jobs[j].heard \in Takes
  BY DEF TranscribeCommit, IInv, StartOrder, Locals, JobLocals
<1>2. heard \in HeardColumns
  BY <1>1, ConstantsAssumption DEF HeardColumns
<1>3. /\ answers' = [answers EXCEPT ![jobs[j].answer] = WithHeard(@, jobs[j].loaded, heard)]
      /\ UNCHANGED <<status, score>>
  BY DEF TranscribeCommit
<1> HIDE DEF heard
<1> QED
  BY <1>1, <1>2, <1>3, HeardRows

\* The three effects of an evaluate's commit, seen from the rows.
LEMMA EvaluateCommitRows ==
    ASSUME IInv, NEW j \in DOMAIN jobs, EvaluateCommit(j)
    PROVE  LET a == jobs[j].answer
               w == jobs[j].write
               scored == [answers EXCEPT ![a].evaluation = w.evaluation]
           IN
           /\ w \in Write /\ w.evaluation \in Evaluation
           /\ a \in DOMAIN answers /\ answers[a].evaluation = None
           /\ answers[a].text = w.evaluation.text /\ PendingWrite(a, w) /\ score = None
           /\ scored \in Seq(Row) /\ Len(scored) = Len(answers) /\ DOMAIN scored = DOMAIN answers
           /\ \A i \in DOMAIN answers :
                /\ scored[i].kind = answers[i].kind
                /\ scored[i].followUp = answers[i].followUp
                /\ scored[i].evaluation = IF i = a THEN w.evaluation ELSE answers[i].evaluation
           /\ \/ /\ w.effect = "follow_up" /\ NewRow(w.kind, TRUE) \in Row
                 /\ answers' = Append(scored, NewRow(w.kind, TRUE)) /\ UNCHANGED <<status, score>>
              \/ /\ w.effect \in {"open", "incomplete"}
                 /\ answers' = scored /\ UNCHANGED <<status, score>>
              \/ /\ w.effect = "complete"
                 /\ answers' = scored /\ status' = "completed" /\ score' = w.score
<1> DEFINE a == jobs[j].answer
           w == jobs[j].write
           scored == [answers EXCEPT ![a].evaluation = w.evaluation]
<1>1. JobLocals(jobs[j]) /\ jobs[j].pc = "locked" /\ answers \in Seq(Row)
  BY DEF EvaluateCommit, IInv, Locals, TypeOK
<1>2. jobs[j].type = "evaluate" /\ w \in Write /\ w.evaluation \in Evaluation
  BY <1>1 DEF JobLocals, Write
<1>3. /\ a \in DOMAIN answers /\ answers[a].evaluation = None
      /\ answers[a].text = w.evaluation.text /\ PendingWrite(a, w)
  BY <1>1, <1>2 DEF IInv, StartOrder, LockHolds, PendingWrites
<1>4. score = None
  BY <1>3 DEF IInv, AllEvaluated
<1>5. /\ scored \in Seq(Row) /\ Len(scored) = Len(answers) /\ DOMAIN scored = DOMAIN answers
      /\ \A i \in DOMAIN answers :
           /\ scored[i].kind = answers[i].kind
           /\ scored[i].followUp = answers[i].followUp
           /\ scored[i].evaluation = IF i = a THEN w.evaluation ELSE answers[i].evaluation
  BY <1>1, <1>2, <1>3, EvaluatedRows
<1>6. w.effect = "follow_up" => NewRow(w.kind, TRUE) \in Row
  BY <1>3, NewRowIsRow DEF PendingWrite
<1> QED
  BY <1>2, <1>3, <1>4, <1>5, <1>6 DEF EvaluateCommit

LEMMA StepKeepsEvaluations == IInv /\ [Next]_vars => EvaluationsKept
<1> SUFFICES ASSUME IInv, [Next]_vars PROVE EvaluationsKept
  OBVIOUS
<1>1. CASE ~RowsWritten
  BY <1>1, RowsUnwritten DEF EvaluationsKept
<1>2. ASSUME NEW j \in DOMAIN jobs, GenerateWrite(j) PROVE EvaluationsKept
  <2>1. answers = <<>>
    BY <1>2 DEF GenerateWrite, IInv, StartOrder, Ended
  <2> QED
    BY <2>1 DEF EvaluationsKept
<1>3. ASSUME NEW j \in DOMAIN jobs, TranscribeCommit(j) PROVE EvaluationsKept
  BY <1>3, TranscribeCommitRows DEF EvaluationsKept
<1>4. ASSUME NEW r \in Requests, UploadCommit(r) PROVE EvaluationsKept
  BY <1>4, UploadCommitRows DEF EvaluationsKept
<1>5. ASSUME NEW j \in DOMAIN jobs, EvaluateCommit(j) PROVE EvaluationsKept
  <2> DEFINE a == jobs[j].answer
             w == jobs[j].write
             scored == [answers EXCEPT ![a].evaluation = w.evaluation]
  <2>1. /\ a \in DOMAIN answers /\ answers[a].evaluation = None
        /\ answers[a].text = w.evaluation.text
        /\ scored \in Seq(Row) /\ Len(scored) = Len(answers) /\ DOMAIN scored = DOMAIN answers
        /\ \A i \in DOMAIN answers :
             scored[i].evaluation = IF i = a THEN w.evaluation ELSE answers[i].evaluation
        /\ \/ NewRow(w.kind, TRUE) \in Row /\ answers' = Append(scored, NewRow(w.kind, TRUE))
           \/ answers' = scored
    BY <1>5, EvaluateCommitRows
  <2> DEFINE row == NewRow(w.kind, TRUE)
  <2> HIDE DEF scored, row
  <2>2. DOMAIN answers \subseteq DOMAIN answers' /\ \A i \in DOMAIN answers : answers'[i] = scored[i]
    <3>1. CASE answers' = scored
      BY <2>1, <3>1
    <3>2. CASE row \in Row /\ answers' = Append(scored, row)
      <4>1. Len(scored) \in Nat /\ DOMAIN scored = 1 .. Len(scored)
        BY <2>1, SeqIsFunction
      <4>2. scored \in Seq(Row) /\ row \in Row
        BY <2>1, <3>2
      <4>3. /\ DOMAIN Append(scored, row) = 1 .. Len(scored) + 1
            /\ \A i \in DOMAIN scored : Append(scored, row)[i] = scored[i]
        BY <4>2, AppendByIndex
      <4>4. DOMAIN scored \subseteq DOMAIN Append(scored, row)
        BY <4>1, <4>3
      <4>5. DOMAIN answers \subseteq DOMAIN Append(scored, row) /\ DOMAIN answers = DOMAIN scored
        BY <2>1, <4>4
      <4> QED
        BY <3>2, <4>3, <4>5, Zenon
    <3> QED
      BY <2>1, <3>1, <3>2 DEF row
  <2> QED
    BY <2>1, <2>2 DEF EvaluationsKept
<1> QED
  BY <1>1, <1>2, <1>3, <1>4, <1>5 DEF RowsWritten

\* No step of any handler changes a stored evaluation, or stores one about a text
\* its row does not hold (the write-time guard of interview_evaluate).
THEOREM EvaluationsStayFinal == Spec => EvaluationsAreFinal
<1>1. IInv /\ [Next]_vars => EvaluationsKept
  BY StepKeepsEvaluations
<1> QED
  BY <1>1, Invariance, PTL DEF Spec, EvaluationsAreFinal

-----------------------------------------------------------------------------
(***************************************************************************)
(* A session is completed by the commit that stores its score.             *)
(***************************************************************************)

\* The steps that set the session's status or the start request's place.
StatusWritten ==
    \/ StartInterview \/ AbandonUnqueued
    \/ \E j \in DOMAIN jobs :
         \/ GenerateWrite(j) \/ GenerateFails(j) \/ EvaluateCommit(j)
         \/ Push(j) \/ PushFails(j) \/ EnqueuerKilled(j)

LEMMA StatusUnwritten ==
    ASSUME IInv, [Next]_vars, ~StatusWritten
    PROVE  UNCHANGED <<status, score>>
<1>1. CASE UNCHANGED vars
  BY <1>1 DEF vars
<1>2. CASE Candidate
  BY <1>2 DEF Candidate, UploadCheck, StatusWritten
<1>3. CASE Api
  BY <1>3 DEF Api, UploadWrite, UploadCommit, StatusWritten
<1>4. ASSUME NEW j \in DOMAIN jobs, Job(j)
      PROVE  UNCHANGED <<status, score>>
  <2>1. CASE Generate(j)
    BY <2>1 DEF Generate, GenerateBegin, StatusWritten
  <2>2. CASE Transcribe(j)
    BY <2>2 DEF Transcribe, TranscribeBegin, TranscribeHear, TranscribeFails, TranscribeSkips,
                TranscribeCheck, TranscribeCommit, EndsQuietly
  <2>3. CASE Evaluate(j)
    BY <2>3 DEF Evaluate, EvaluateBegin, EvaluateWithoutText, EvaluateDuplicate, EvaluateFails,
                EvaluateSkips, EvaluateProbes, EvaluateAggregates, EvaluateCollides, EndsQuietly,
                Locks, StatusWritten
  <2> QED
    BY <1>4, <2>1, <2>2, <2>3 DEF Job, StatusWritten
<1>5. CASE Faults
  BY <1>5 DEF Faults, JobKilled, UploadKilled, StatusWritten
<1> QED
  BY <1>1, <1>2, <1>3, <1>4, <1>5 DEF Next

LEMMA StepSettles == IInv /\ Settled /\ [Next]_vars => Settled' /\ ClosesOnce
<1> SUFFICES ASSUME IInv, Settled, [Next]_vars PROVE Settled' /\ ClosesOnce
  OBVIOUS
<1>1. answers = <<>> => score = None
  BY DEF IInv, AllEvaluated
<1>2. CASE ~StatusWritten
  BY <1>2, StatusUnwritten DEF Settled, ClosesOnce
<1>3. CASE StartInterview
  <2>1. score = None
    BY <1>1, <1>3 DEF StartInterview, IInv, StartOrder
  <2> QED
    BY <1>3, <2>1 DEF StartInterview, Settled, ClosesOnce
<1>4. CASE AbandonUnqueued
  BY <1>4 DEF AbandonUnqueued, Settled, ClosesOnce
<1>5. ASSUME NEW j \in DOMAIN jobs, GenerateWrite(j) \/ GenerateFails(j)
      PROVE  Settled' /\ ClosesOnce
  <2>1. score = None
    BY <1>1, <1>5 DEF GenerateWrite, GenerateFails, IInv, StartOrder, Ended
  <2> QED
    BY <1>5, <2>1 DEF GenerateWrite, GenerateFails, Settled, ClosesOnce
<1>6. ASSUME NEW j \in DOMAIN jobs, Push(j) \/ PushFails(j) \/ EnqueuerKilled(j)
      PROVE  Settled' /\ ClosesOnce
  BY <1>6 DEF Push, PushFails, EnqueuerKilled, Settled, ClosesOnce
<1>7. ASSUME NEW j \in DOMAIN jobs, EvaluateCommit(j) PROVE Settled' /\ ClosesOnce
  <2> DEFINE w == jobs[j].write
  <2>1. /\ PendingWrite(jobs[j].answer, w)
        /\ \/ UNCHANGED <<status, score>>
           \/ w.effect = "complete" /\ status' = "completed" /\ score' = w.score
    BY <1>7, EvaluateCommitRows
  <2>2. w.effect = "complete" => w.score # None
    BY <2>1, NoneAssumption DEF PendingWrite
  <2>3. score = None
    BY <1>7 DEF EvaluateCommit, IInv, LockHolds, AllEvaluated, StartOrder, Locals, JobLocals
  <2> QED
    BY <2>1, <2>2, <2>3 DEF Settled, ClosesOnce
<1> QED
  BY <1>2, <1>3, <1>4, <1>5, <1>6, <1>7 DEF StatusWritten

\* A session is completed by the commit that stores its score, and no job and no
\* upload changes the status or the score of a scored one (interview_evaluate).
THEOREM CompletedStaysScored == Spec => CompletedIsScored
<1>1. Init => Settled
  BY DEF Init, Settled
<1>2. IInv /\ Settled /\ [Next]_vars => Settled' /\ ClosesOnce
  BY StepSettles
<1> QED
  BY <1>1, <1>2, Invariance, PTL DEF Spec, CompletedIsScored

-----------------------------------------------------------------------------
(***************************************************************************)
(* The detailed session implements its contract.                           *)
(***************************************************************************)

LEMMA SequencesEqual ==
    ASSUME NEW S, NEW s \in Seq(S), NEW t \in Seq(S), Len(s) = Len(t),
           \A i \in 1 .. Len(s) : s[i] = t[i]
    PROVE  s = t
OBVIOUS

QuestionRecord == [kind : Kinds, followUp : BOOLEAN, evaluation : Evaluation \cup {None}]

\* The questions of rows, one index at a time.
LEMMA QuestionsByIndex ==
    ASSUME NEW rows \in Seq(Row)
    PROVE  /\ QuestionsOf(rows) \in Seq(QuestionRecord)
           /\ Len(QuestionsOf(rows)) = Len(rows) /\ DOMAIN QuestionsOf(rows) = DOMAIN rows
           /\ \A i \in DOMAIN rows : QuestionsOf(rows)[i] = Question(rows[i])
           /\ (QuestionsOf(rows) = <<>> <=> rows = <<>>)
<1>1. Len(rows) \in Nat /\ DOMAIN rows = 1 .. Len(rows) /\ \A i \in DOMAIN rows : rows[i] \in Row
  BY SeqIsFunction
<1>2. \A i \in DOMAIN rows : Question(rows[i]) \in QuestionRecord
  BY <1>1 DEF Question, QuestionRecord, Row
<1>3. QuestionsOf(rows) \in [1 .. Len(rows) -> QuestionRecord]
  BY <1>1, <1>2 DEF QuestionsOf
<1>4. QuestionsOf(rows) \in Seq(QuestionRecord) /\ Len(QuestionsOf(rows)) = Len(rows)
  BY <1>1, <1>3, FunctionIsSeq
<1>5. \A i \in DOMAIN rows : QuestionsOf(rows)[i] = Question(rows[i])
  BY DEF QuestionsOf
<1> QED
  BY <1>1, <1>4, <1>5, SeqIsFunction

\* Rows that a reader cannot tell apart have the same questions.
LEMMA SameQuestions ==
    ASSUME NEW rows, NEW others, DOMAIN others = DOMAIN rows,
           \A i \in DOMAIN rows :
             /\ others[i].kind = rows[i].kind
             /\ others[i].followUp = rows[i].followUp
             /\ others[i].evaluation = rows[i].evaluation
    PROVE  QuestionsOf(others) = QuestionsOf(rows)
BY DEF QuestionsOf, Question

\* Scoring a row scores its question.
LEMMA ScoredQuestions ==
    ASSUME NEW rows \in Seq(Row), NEW others \in Seq(Row), NEW a \in DOMAIN rows,
           NEW e \in Evaluation, DOMAIN others = DOMAIN rows,
           \A i \in DOMAIN rows :
             /\ others[i].kind = rows[i].kind
             /\ others[i].followUp = rows[i].followUp
             /\ others[i].evaluation = IF i = a THEN e ELSE rows[i].evaluation
    PROVE  QuestionsOf(others) = [QuestionsOf(rows) EXCEPT ![a].evaluation = e]
<1> DEFINE asked == QuestionsOf(rows)
           scored == [asked EXCEPT ![a].evaluation = e]
<1>1. DOMAIN asked = DOMAIN rows /\ \A i \in DOMAIN rows : asked[i] = Question(rows[i])
  BY QuestionsByIndex
<1> HIDE DEF asked
<1>2. \A i \in DOMAIN rows :
        scored[i] = IF i = a THEN [asked[a] EXCEPT !.evaluation = e] ELSE asked[i]
  BY <1>1
<1>3. [Question(rows[a]) EXCEPT !.evaluation = e] = Question(others[a])
  BY DEF Question
<1>4. \A i \in DOMAIN rows : scored[i] = Question(others[i])
  BY <1>1, <1>2, <1>3 DEF Question
<1>5. scored = [i \in DOMAIN rows |-> Question(others[i])]
  BY <1>1, <1>4
<1> QED
  BY <1>5 DEF QuestionsOf, asked

\* A row appended asks one more question.
LEMMA AppendedQuestions ==
    ASSUME NEW rows \in Seq(Row), NEW row \in Row
    PROVE  QuestionsOf(Append(rows, row)) = Append(QuestionsOf(rows), Question(row))
<1> DEFINE longer == Append(rows, row)
           left == QuestionsOf(longer)
           asked == QuestionsOf(rows)
           right == Append(asked, Question(row))
<1>1. /\ longer \in Seq(Row) /\ Len(longer) = Len(rows) + 1 /\ DOMAIN longer = 1 .. Len(rows) + 1
      /\ \A i \in DOMAIN rows : longer[i] = rows[i]
      /\ longer[Len(rows) + 1] = row
  BY AppendByIndex
<1>2. Len(rows) \in Nat /\ DOMAIN rows = 1 .. Len(rows)
  BY SeqIsFunction
<1>3. Question(row) \in QuestionRecord
  BY DEF Question, QuestionRecord, Row
<1>4. /\ asked \in Seq(QuestionRecord) /\ Len(asked) = Len(rows)
      /\ DOMAIN asked = DOMAIN rows /\ \A i \in DOMAIN rows : asked[i] = Question(rows[i])
  BY QuestionsByIndex
<1> HIDE DEF longer, asked
<1>5. /\ left \in Seq(QuestionRecord) /\ Len(left) = Len(rows) + 1
      /\ \A i \in DOMAIN longer : left[i] = Question(longer[i])
  BY <1>1, QuestionsByIndex
<1>6. /\ right \in Seq(QuestionRecord) /\ Len(right) = Len(rows) + 1
      /\ \A i \in DOMAIN rows : right[i] = asked[i]
      /\ right[Len(rows) + 1] = Question(row)
  BY <1>3, <1>4, AppendByIndex
<1> HIDE DEF left, right
<1>7. \A i \in 1 .. Len(left) : left[i] = right[i]
  <2> SUFFICES ASSUME NEW i \in 1 .. Len(rows) + 1 PROVE left[i] = right[i]
    BY <1>5
  <2>1. CASE i \in DOMAIN rows
    BY <1>1, <1>4, <1>5, <1>6, <2>1
  <2>2. CASE i = Len(rows) + 1
    BY <1>1, <1>5, <1>6, <2>2
  <2> QED
    BY <1>2, <2>1, <2>2
<1>8. left = right
  BY <1>5, <1>6, <1>7, SequencesEqual
<1> QED
  BY <1>8 DEF left, right, longer, asked

LEMMA InitKeepsContract == Init => Contract!Init
<1> SUFFICES ASSUME Init PROVE Contract!Init
  OBVIOUS
<1>1. <<>> \in Seq(Row)
  OBVIOUS
<1>2. QuestionsOf(answers) = <<>>
  BY <1>1, QuestionsByIndex DEF Init
<1> QED
  BY <1>2 DEF Init, Contract!Init, ResultOf

\* Steps that the contract's readers do not see.
LEMMA StutterStep ==
    ASSUME UNCHANGED <<status, score>>, QuestionsOf(answers)' = QuestionsOf(answers)
    PROVE  [Contract!Next]_(Contract!vars)
BY DEF Contract!vars, ResultOf

LEMMA GenerateWriteAsks ==
    ASSUME IInv, NEW j \in DOMAIN jobs, GenerateWrite(j)
    PROVE  Contract!Next
<1>1. PICK plan \in Plans : answers' = [i \in DOMAIN plan |-> NewRow(plan[i], FALSE)]
  BY DEF GenerateWrite
<1>2. jobs[j].type = "generate" /\ jobs[j].pc = "working" /\ status' = "in_progress" /\ score' = score
  BY DEF GenerateWrite
<1>3. answers = <<>> /\ status \in {"scheduled", "abandoned"}
  BY <1>2, SeqIsFunction DEF IInv, StartOrder, Ended, TypeOK
<1>4. QuestionsOf(answers) = <<>>
  BY <1>3, QuestionsByIndex DEF IInv, TypeOK
<1>5. /\ DOMAIN answers' = DOMAIN plan
      /\ \A i \in DOMAIN plan : answers'[i] = NewRow(plan[i], FALSE)
  BY <1>1, PlannedRows
<1>6. \A i \in DOMAIN plan : Question(answers'[i]) = Contract!Asked(plan[i], FALSE)
  <2>1. \A i \in DOMAIN plan : Question(NewRow(plan[i], FALSE)) = Contract!Asked(plan[i], FALSE)
    BY DEF Question, NewRow, Contract!Asked
  <2> QED
    BY <1>5, <2>1
<1>7. QuestionsOf(answers)' = [i \in DOMAIN plan |-> Contract!Asked(plan[i], FALSE)]
  BY <1>5, <1>6 DEF QuestionsOf
<1>8. ResultOf(score)' = ResultOf(score)
  BY <1>2 DEF ResultOf
<1>9. Contract!Ask(plan)
  BY <1>2, <1>3, <1>4, <1>7, <1>8 DEF Contract!Ask, Contract!Open
<1> QED
  BY <1>9 DEF Contract!Next

\* An evaluate's commit is the contract's Probe, Judge or Complete.
LEMMA EvaluateCommitJudges ==
    ASSUME IInv, NEW j \in DOMAIN jobs, EvaluateCommit(j)
    PROVE  Contract!Next
<1> DEFINE a == jobs[j].answer
           w == jobs[j].write
           e == w.evaluation
           scored == [answers EXCEPT ![a].evaluation = e]
           row == NewRow(w.kind, TRUE)
           questions == QuestionsOf(answers)
<1>1. /\ w \in Write /\ e \in Evaluation
      /\ a \in DOMAIN answers /\ answers[a].evaluation = None
      /\ PendingWrite(a, w) /\ score = None
      /\ scored \in Seq(Row) /\ Len(scored) = Len(answers) /\ DOMAIN scored = DOMAIN answers
      /\ \A i \in DOMAIN answers :
           /\ scored[i].kind = answers[i].kind
           /\ scored[i].followUp = answers[i].followUp
           /\ scored[i].evaluation = IF i = a THEN e ELSE answers[i].evaluation
      /\ \/ /\ w.effect = "follow_up" /\ row \in Row
            /\ answers' = Append(scored, row) /\ UNCHANGED <<status, score>>
         \/ /\ w.effect \in {"open", "incomplete"}
            /\ answers' = scored /\ UNCHANGED <<status, score>>
         \/ /\ w.effect = "complete"
            /\ answers' = scored /\ status' = "completed" /\ score' = w.score
  BY EvaluateCommitRows
<1>2. answers \in Seq(Row)
  BY DEF IInv, TypeOK
<1>3. /\ DOMAIN questions = DOMAIN answers
      /\ \A i \in DOMAIN answers :
           /\ questions[i].kind = answers[i].kind
           /\ questions[i].followUp = answers[i].followUp
           /\ questions[i].evaluation = answers[i].evaluation
  <2>1. DOMAIN questions = DOMAIN answers /\ \A i \in DOMAIN answers : questions[i] = Question(answers[i])
    BY <1>2, QuestionsByIndex
  <2> HIDE DEF questions
  <2> QED
    BY <2>1 DEF Question
<1> HIDE DEF scored
<1>4. QuestionsOf(scored) = [questions EXCEPT ![a].evaluation = e]
  <2> HIDE DEF a, e, row
  <2>1. /\ scored \in Seq(Row) /\ DOMAIN scored = DOMAIN answers
        /\ a \in DOMAIN answers /\ e \in Evaluation
        /\ \A i \in DOMAIN answers :
             /\ scored[i].kind = answers[i].kind
             /\ scored[i].followUp = answers[i].followUp
             /\ scored[i].evaluation = IF i = a THEN e ELSE answers[i].evaluation
    BY <1>1
  <2> QED
    BY <1>2, <2>1, ScoredQuestions
<1>5. QuestionsOf(scored) = Contract!WithEvaluation(a, e)
  BY <1>4 DEF Contract!WithEvaluation
<1>6. e \in Contract!Evaluation
  BY <1>1 DEF Evaluation, Contract!Evaluation
<1>7. CASE w.effect = "follow_up" /\ row \in Row /\ answers' = Append(scored, row)
            /\ UNCHANGED <<status, score>>
  <2>1. e.low /\ ~answers[a].followUp /\ w.kind \in Kinds
    BY <1>1, <1>7 DEF PendingWrite
  <2>2. Question(row) = Contract!Asked(w.kind, TRUE)
    BY DEF Question, NewRow, Contract!Asked
  <2> HIDE DEF row
  <2>3. QuestionsOf(answers)' = Append(QuestionsOf(scored), Question(row))
    BY <1>1, <1>7, AppendedQuestions
  <2>4. QuestionsOf(answers)' = Append(Contract!WithEvaluation(a, e), Contract!Asked(w.kind, TRUE))
    BY <1>5, <2>2, <2>3
  <2>5. ResultOf(score)' = ResultOf(score)
    BY <1>7 DEF ResultOf
  <2>6. Contract!Probe(a, e, w.kind)
    BY <1>1, <1>3, <1>7, <2>1, <2>4, <2>5 DEF Contract!Probe
  <2>7. w.kind \in Contract!Kinds
    BY <2>1 DEF Kinds, Contract!Kinds
  <2> QED
    BY <1>1, <1>3, <1>6, <2>6, <2>7 DEF Contract!Next
<1>8. CASE w.effect # "follow_up" /\ answers' = scored /\ UNCHANGED <<status, score>>
  <2>1. e.low => answers[a].followUp
    BY <1>1, <1>8 DEF PendingWrite
  <2>2. QuestionsOf(answers)' = Contract!WithEvaluation(a, e) /\ ResultOf(score)' = ResultOf(score)
    BY <1>5, <1>8 DEF ResultOf
  <2>3. Contract!Judge(a, e)
    BY <1>1, <1>3, <1>8, <2>1, <2>2 DEF Contract!Judge
  <2> QED
    BY <1>1, <1>3, <1>6, <2>3 DEF Contract!Next
<1>9. CASE w.effect = "complete" /\ answers' = scored /\ status' = "completed" /\ score' = w.score
  <2>1. /\ e.low => answers[a].followUp
        /\ w.score \in Seq(Signal) /\ Len(w.score) = Len(answers)
        /\ \A i \in DOMAIN answers :
             /\ w.score[i].kind = answers[i].kind
             /\ i = a => w.score[i].evaluation = e
             /\ i # a => /\ answers[i].evaluation # None
                         /\ w.score[i].evaluation = answers[i].evaluation
        /\ \A k \in Kinds : \E i \in DOMAIN answers : answers[i].kind = k
    BY <1>1, <1>9 DEF PendingWrite
  <2>2. w.score # None /\ DOMAIN w.score = DOMAIN answers
    BY <1>2, <2>1, NoneAssumption, SeqIsFunction
  <2>3. QuestionsOf(answers)' = Contract!WithEvaluation(a, e)
    BY <1>5, <1>9
  <2>4. ResultOf(score)' = [q \in DOMAIN questions |->
                              [kind |-> questions[q].kind,
                               evaluation |-> IF q = a THEN e ELSE questions[q].evaluation]]
    <3>1. ResultOf(w.score) = [i \in DOMAIN answers |->
                                 [kind |-> w.score[i].kind, evaluation |-> w.score[i].evaluation]]
      BY <2>2 DEF ResultOf
    <3>2. \A i \in DOMAIN answers :
            /\ w.score[i].kind = questions[i].kind
            /\ w.score[i].evaluation = IF i = a THEN e ELSE questions[i].evaluation
      BY <1>3, <2>1
    <3>3. ResultOf(score)' = ResultOf(w.score)
      BY <1>9 DEF ResultOf
    <3> HIDE DEF questions, w
    <3> QED
      BY <1>3, <3>1, <3>2, <3>3
  <2>5. \A k \in Contract!Kinds : \E q \in DOMAIN questions : questions[q].kind = k
    BY <1>3, <2>1 DEF Kinds, Contract!Kinds
  <2>6. Contract!Complete(a, e)
    <3>1. a \in DOMAIN questions /\ questions[a].evaluation = None
          /\ (e.low => questions[a].followUp)
          /\ \A q \in DOMAIN questions \ {a} : questions[q].evaluation # None
      BY <1>1, <1>3, <2>1
    <3> QED
      BY <1>9, <2>3, <2>4, <2>5, <3>1 DEF Contract!Complete
  <2> QED
    BY <1>1, <1>3, <1>6, <2>6 DEF Contract!Next
<1> QED
  BY <1>1, <1>7, <1>8, <1>9

LEMMA StepKeepsContract == IInv /\ [Next]_vars => [Contract!Next]_(Contract!vars)
<1> SUFFICES ASSUME IInv, [Next]_vars PROVE [Contract!Next]_(Contract!vars)
  OBVIOUS
<1>1. CASE ~RowsWritten /\ ~StatusWritten
  <2>1. UNCHANGED <<status, answers, score>>
    BY <1>1, RowsUnwritten, StatusUnwritten
  <2> QED
    BY <2>1, StutterStep DEF QuestionsOf
<1>2. CASE StartInterview
  <2>1. /\ status = "absent" /\ status' = "scheduled"
        /\ UNCHANGED <<answers, score>>
    BY <1>2 DEF StartInterview, IInv, StartOrder
  <2>2. QuestionsOf(answers)' = QuestionsOf(answers) /\ ResultOf(score)' = ResultOf(score)
    BY <2>1 DEF QuestionsOf, ResultOf
  <2> QED
    BY <2>1, <2>2 DEF Contract!Schedule, Contract!Next
<1>3. ASSUME AbandonUnqueued \/ \E j \in DOMAIN jobs : GenerateFails(j)
      PROVE  [Contract!Next]_(Contract!vars)
  <2>1. start # "idle"
    BY <1>3, SeqIsFunction DEF AbandonUnqueued, IInv, StartOrder, TypeOK
  <2>2. /\ status # "absent" /\ status' = "abandoned"
        /\ UNCHANGED <<answers, score>>
    BY <1>3, <2>1 DEF AbandonUnqueued, GenerateFails, IInv, StartOrder
  <2>3. QuestionsOf(answers)' = QuestionsOf(answers) /\ ResultOf(score)' = ResultOf(score)
    BY <2>2 DEF QuestionsOf, ResultOf
  <2> QED
    BY <2>2, <2>3 DEF Contract!Abandon, Contract!Next
<1>4. ASSUME NEW j \in DOMAIN jobs, Push(j) \/ PushFails(j) \/ EnqueuerKilled(j)
      PROVE  [Contract!Next]_(Contract!vars)
  <2>1. UNCHANGED <<status, answers, score>>
    BY <1>4 DEF Push, PushFails, EnqueuerKilled
  <2> QED
    BY <2>1, StutterStep DEF QuestionsOf
<1>5. ASSUME NEW j \in DOMAIN jobs, TranscribeCommit(j)
      PROVE  [Contract!Next]_(Contract!vars)
  <2>1. QuestionsOf(answers') = QuestionsOf(answers) /\ UNCHANGED <<status, score>>
    BY <1>5, TranscribeCommitRows, SameQuestions
  <2> QED
    BY <2>1, StutterStep
<1>6. ASSUME NEW r \in Requests, UploadCommit(r)
      PROVE  [Contract!Next]_(Contract!vars)
  <2>1. QuestionsOf(answers') = QuestionsOf(answers) /\ UNCHANGED <<status, score>>
    BY <1>6, UploadCommitRows, SameQuestions
  <2> QED
    BY <2>1, StutterStep
<1> QED
  BY <1>1, <1>2, <1>3, <1>4, <1>5, <1>6, GenerateWriteAsks, EvaluateCommitJudges
     DEF RowsWritten, StatusWritten

\* Whatever handlers, jobs and faults interleave, what the readers of a session
\* see follows the contract.
THEOREM ContractKept == Spec => KeepsContract
<1>1. Init => Contract!Init
  BY InitKeepsContract
<1>2. IInv /\ [Next]_vars => [Contract!Next]_(Contract!vars)
  BY StepKeepsContract
<1> QED
  BY <1>1, <1>2, Invariance, PTL DEF Spec, KeepsContract, Contract!Spec

-----------------------------------------------------------------------------
(***************************************************************************)
(* One follow-up for every weak answer.                                    *)
(***************************************************************************)

\* Rows that a reader cannot tell apart have the same follow-ups.
LEMMA SameFollowUps ==
    ASSUME NEW rows, NEW others, DOMAIN others = DOMAIN rows,
           \A i \in DOMAIN rows :
             /\ others[i].followUp = rows[i].followUp
             /\ others[i].evaluation = rows[i].evaluation
    PROVE  FollowUpsIn(others) = FollowUpsIn(rows) /\ WeakIn(others) = WeakIn(rows)
BY DEF FollowUpsIn, WeakIn

LEMMA FollowUpsFinite ==
    ASSUME NEW rows \in Seq(Row)
    PROVE  IsFiniteSet(FollowUpsIn(rows)) /\ IsFiniteSet(WeakIn(rows))
<1>1. Len(rows) \in Nat /\ DOMAIN rows = 1 .. Len(rows)
  BY SeqIsFunction
<1>2. IsFiniteSet(1 .. Len(rows))
  BY <1>1, FS_Interval
<1>3. FollowUpsIn(rows) \in SUBSET (1 .. Len(rows)) /\ WeakIn(rows) \in SUBSET (1 .. Len(rows))
  BY <1>1 DEF FollowUpsIn, WeakIn
<1> QED
  BY <1>2, <1>3, FS_Subset

\* What an evaluate's commit adds to either side.
LEMMA EvaluateCommitFollowUps ==
    ASSUME IInv, OneFollowUpEach, NEW j \in DOMAIN jobs, EvaluateCommit(j)
    PROVE  OneFollowUpEach'
<1> DEFINE a == jobs[j].answer
           w == jobs[j].write
           e == w.evaluation
           scored == [answers EXCEPT ![a].evaluation = e]
           row == NewRow(w.kind, TRUE)
<1>1. /\ e \in Evaluation /\ a \in DOMAIN answers /\ answers[a].evaluation = None
      /\ PendingWrite(a, w)
      /\ scored \in Seq(Row) /\ Len(scored) = Len(answers) /\ DOMAIN scored = DOMAIN answers
      /\ \A i \in DOMAIN answers :
           /\ scored[i].followUp = answers[i].followUp
           /\ scored[i].evaluation = IF i = a THEN e ELSE answers[i].evaluation
      /\ \/ w.effect = "follow_up" /\ row \in Row /\ answers' = Append(scored, row)
         \/ w.effect # "follow_up" /\ answers' = scored
  BY EvaluateCommitRows
<1>2. /\ answers \in Seq(Row) /\ DOMAIN answers = 1 .. Len(answers) /\ Len(answers) \in Nat
      /\ IsFiniteSet(FollowUpsIn(answers)) /\ IsFiniteSet(WeakIn(answers))
  BY SeqIsFunction, FollowUpsFinite DEF IInv, TypeOK
<1>3. e # None
  BY <1>1, NoneAssumption
<1>4. row.followUp /\ row.evaluation = None
  BY DEF NewRow
<1>5. a \notin WeakIn(answers)
  BY <1>1 DEF WeakIn
<1>6. FollowUpsIn(scored) = FollowUpsIn(answers)
  <2> HIDE DEF scored
  <2> QED
    BY <1>1 DEF FollowUpsIn
<1>7. CASE w.effect = "follow_up" /\ row \in Row /\ answers' = Append(scored, row)
  <2>1. e.low /\ ~answers[a].followUp
    BY <1>1, <1>7 DEF PendingWrite
  <2> HIDE DEF scored, row, e
  <2>2. scored \in Seq(Row) /\ row \in Row
    BY <1>1, <1>7
  <2>3. /\ DOMAIN answers' = 1 .. Len(answers) + 1
        /\ \A i \in DOMAIN answers : answers'[i] = scored[i]
        /\ answers'[Len(answers) + 1] = row
    BY <1>1, <1>7, <2>2, AppendByIndex
  <2>4. FollowUpsIn(answers') = FollowUpsIn(answers) \cup {Len(answers) + 1}
    BY <1>1, <1>2, <1>4, <2>3 DEF FollowUpsIn
  <2>5. WeakIn(answers') = WeakIn(answers) \cup {a}
    BY <1>1, <1>2, <1>3, <1>4, <2>1, <2>3 DEF WeakIn
  <2>6. Len(answers) + 1 \notin FollowUpsIn(answers)
    BY <1>2 DEF FollowUpsIn
  <2>7. /\ Cardinality(FollowUpsIn(answers')) = Cardinality(FollowUpsIn(answers)) + 1
        /\ Cardinality(WeakIn(answers')) = Cardinality(WeakIn(answers)) + 1
    BY <1>2, <1>5, <2>4, <2>5, <2>6, FS_AddElement
  <2> QED
    BY <2>7 DEF OneFollowUpEach
<1>8. CASE w.effect # "follow_up" /\ answers' = scored
  <2>1. e.low => answers[a].followUp
    BY <1>1, <1>8 DEF PendingWrite
  <2> HIDE DEF scored, e
  <2>2. WeakIn(scored) = WeakIn(answers)
    BY <1>1, <2>1 DEF WeakIn
  <2> QED
    BY <1>6, <1>8, <2>2 DEF OneFollowUpEach
<1> QED
  BY <1>1, <1>7, <1>8

LEMMA StepKeepsFollowUps == IInv /\ OneFollowUpEach /\ [Next]_vars => OneFollowUpEach'
<1> SUFFICES ASSUME IInv, OneFollowUpEach, [Next]_vars PROVE OneFollowUpEach'
  OBVIOUS
<1>1. CASE ~RowsWritten
  BY <1>1, RowsUnwritten DEF OneFollowUpEach
<1>2. ASSUME NEW j \in DOMAIN jobs, GenerateWrite(j) PROVE OneFollowUpEach'
  <2>1. PICK plan \in Plans : answers' = [i \in DOMAIN plan |-> NewRow(plan[i], FALSE)]
    BY <1>2 DEF GenerateWrite
  <2>2. \A i \in DOMAIN answers' : ~answers'[i].followUp /\ answers'[i].evaluation = None
    BY <2>1, PlannedRows DEF NewRow
  <2>3. FollowUpsIn(answers') = {} /\ WeakIn(answers') = {}
    BY <2>2 DEF FollowUpsIn, WeakIn
  <2> QED
    BY <2>3 DEF OneFollowUpEach
<1>3. ASSUME NEW j \in DOMAIN jobs, TranscribeCommit(j) PROVE OneFollowUpEach'
  BY <1>3, TranscribeCommitRows, SameFollowUps DEF OneFollowUpEach
<1>4. ASSUME NEW r \in Requests, UploadCommit(r) PROVE OneFollowUpEach'
  BY <1>4, UploadCommitRows, SameFollowUps DEF OneFollowUpEach
<1> QED
  BY <1>1, <1>2, <1>3, <1>4, EvaluateCommitFollowUps DEF RowsWritten

\* A weak answer to an original question has one follow-up, however many
\* evaluate jobs ran for it, and no other answer has any.
THEOREM FollowUpsStayOneEach == Spec => []OneFollowUpEach
<1>1. Init => OneFollowUpEach
  BY DEF Init, OneFollowUpEach, FollowUpsIn, WeakIn
<1>2. IInv /\ OneFollowUpEach /\ [Next]_vars => OneFollowUpEach'
  BY StepKeepsFollowUps
<1> QED
  BY <1>1, <1>2, Invariance, PTL DEF Spec
=============================================================================
