# A formal model of the AI interview platform

TLA+ specifications of the platform (FastAPI handlers, the Postgres rows they share with
an ARQ worker, the Redis queue between them, the files on disk, the threads that talk to
models, the arithmetic behind a score and the pages that hold tokens or poll), TLC configurations that check small instances of them, and TLAPS
proofs of their safety properties for every value of the constants.

    tlc -config ResumePipeline.cfg MCResumePipeline.tla   # one run of those PROJECT.json lists
    tlapm JobQueueProofs.tla                              # the proofs of one component

`PROJECT.json` holds the machine-readable side: components, runs, the mutation each
property is known to catch, the source lines each definition stands for, hazards,
findings and theorems.

## 1. The system

The API never runs a model. A request checks its input, writes Postgres, inserts an
`async_jobs` row, pushes an ARQ message whose id is that row's id and returns the id;
the worker runs the handler and writes the outcome; the page polls `GET /jobs/{id}` and
then reads the stored row. All state is shared through Postgres rows and files, each
handler has a transaction per step, and almost every interesting failure sits between
two of those transactions.

### Inventory

| component | state it keeps | operations | talks to | what makes it correct |
|---|---|---|---|---|
| interview session (`routers/interviews.py`, `workers/tasks.py`) | `interview_sessions.status`, `answers` rows, `scores` row, one WebM file per answer | start, upload or retake, `interview_generate`, `transcribe`, `interview_evaluate` | queue, LLM provider, speech pipeline, scoring | each answer judged once, about its own text; one follow-up per weak original; one score, about the final evaluations; nothing stale survives a retake |
| job queue (`workers/enqueue.py`, `tracked.py`, `settings.py`, `routers/jobs.py`, `hooks/use-job-status.ts`) | `async_jobs.status`, ARQ message, worker slot | enqueue, take, run, record the outcome, cancel, poll | every component that queues | a message has its row; a terminal status is true and is the last one a client sees; no handler runs twice; slots come back |
| resumes (`routers/resumes.py`, `resume_parse`, results page) | PDF, `resumes.status`, parsed data, ATS score, embedding | upload, parse, show | queue, ml.resume, ml.matching | parsed means usable; the page finds the outcome its job reported |
| scores (`models/score.py`, `ml/scoring`) | weights, composite and sub-scores | aggregate, insert or update | interview session | a convex mean of all four signals; a zero is measured, a missing signal stops the scoring |
| speech pipeline (`ml/speech`) | models in memory, a temporary WAV | transcode, hear, find pauses and fillers | ffmpeg, Whisper, Silero, Praat | both fluency arms follow one rule; nothing is kept on any path |
| LLM providers and question generation (`ml/llm`, `ml/interview`, `tasks.py`) | an HTTP client | generate, top up, cut at six, judge, probe | Ollama or an OpenAI-compatible API | replies match their schema; both kinds present; a weak answer never passes unprobed |
| resume parsing and ATS (`ml/resume`) | none | split into sections, count, score | resumes | no line is lost or filed twice |
| postings (`routers/postings.py`) | `jobs.is_active` | create, patch | interview session, admin | a patch takes, or was overlapped by another |
| score readers and reports (`routers/scores.py`, `reports.py`, `services/score_access.py`) | PDFs on disk | read, rank, compare, print | rows of the session | a score or an order that was shown or printed stays true |
| authentication (`auth/`, `routers/auth.py`) | `users`, `refresh_tokens` | register, login, refresh (rotate), logout, reuse detection | frontend client | one live token per login; a reused token ends the sessions of its user |
| admin (`routers/admin.py`) | `users.is_active`, `is_admin`, postings | list, patch | auth, postings | who may fall, and by whom |
| frontend client (`api/client.ts`, `token-store.ts`, `auth-provider.tsx`) | token pair in memory and `localStorage`, refresh in flight | call, single-flight refresh, logout | auth | no token posted twice; a posted token goes |
| matches and embeddings, skill taxonomy | `jobs.embedding` | embed, rank | queue, pgvector | not modelled |
| interview page and recorder | recorder state, polling flags | record, upload, refetch | interviews, jobs | not modelled |
| migrations, seeds, deployment, other pages | none | | | |

### What is hard here

* **Awaits between a check and a write.** The upload handler checks the session and the
  answer, awaits the body and commits; `transcribe` compares a digest and commits later;
  `interview_evaluate` reads the other rows' state and locks only its own.
* **Two rows, two transactions.** The caller's row and the `async_jobs` row; the resume
  and its job; a transcript and the evaluate job that should follow it.
* **The push can fail after it succeeded.** A lost Redis reply makes the API record a
  failure while the worker runs the job.
* **Cancellation is not an exception.** An ARQ timeout raises `CancelledError`, which
  `except Exception` does not see, and nothing is retried.
* **The ORM writes differences.** Assigning a column the value it was loaded with writes
  nothing, whatever the database holds by then.
* **Slots.** A handler that waits for a row lock keeps one of `max_jobs` slots.
* **Single-use tokens.** Rotation reads a token and writes its successor in two steps;
  two tabs, a lost answer and a thief look the same to the table.
* **Three notions of a scored session.** Rankings test the status, access tests the
  composite, lists join the two tables, and a session can be scored and then abandoned.
* **Zero, missing, out of range.** A mark of zero, a silent recording, a plan of one
  kind, overlapping words: the numbers must stay defined and on their scale.

`PROJECT.json` lists each of these at the line where it bites, with the properties that
watch it.

## 2. Modules

| module | what it is |
|---|---|
| `Interview` | one session: API handlers, three job types, rows, blobs, faults |
| `SessionContract` | what readers of a session may rely on; `Interview` implements it |
| `InterviewInvariant`, `InterviewProofs` | the inductive invariant and the theorems |
| `MCInterview`, `InterviewClaims` | constants for TLC; statements of the docs that do not always hold |
| `JobQueue` | `async_jobs` row, ARQ message, handler run, caller, poller, faults |
| `JobLifecycle` | what `GET /jobs/{id}` promises a client; `JobQueue` implements it |
| `JobQueueProofs`, `MCJobQueue` | theorems; the constant and a statement of the comments that does not hold |
| `ResumePipeline` | `POST /resumes`, `resume_parse` and the results page, on top of `JobQueue` |
| `ResumePipelineProofs`, `MCResumePipeline` | theorems; constants and a refuted statement |
| `Accounts`, `AccountsProofs`, `MCAccounts` | users and refresh tokens under concurrent requests; theorems; constants |
| `ClientSession`, `ClientSessionProofs`, `MCClientSession` | the tabs of one browser on top of `Accounts`; theorems; constants and a refuted statement |
| `Board`, `BoardProofs`, `MCBoard` | postings, sessions on them and everybody who reads their scores; theorems; constants and a refuted statement |
| `WorkerThread`, `WorkerThreadProofs`, `MCWorkerThread` | the synchronous bodies of the jobs: calls, replies, resources; theorems; constants |
| `Scoring` | points for fluency and the weighting, as operators |
| `Signals`, `SignalsProofs`, `MCSignals` | from lines, words, voiced islands and marks to the four signals and the composite; theorems about both modules; constants |

### Interview

| variable | code |
|---|---|
| `status` | `interview_sessions.status`; `absent` before the INSERT |
| `answers` | the session's rows by `question_order` (unique per session). `text` stands for `transcript` and `answer_text`, which are always written together; `metrics` for `speech_metrics`, named by the take they were measured on; `evaluation` for the judge's JSON: the text judged and whether its score is low |
| `score` | the `scores` row, as the list of signals it was aggregated from |
| `blob` | the bytes of `<answer id>.webm` |
| `jobs` | ARQ jobs in order of insertion, with the locals of their handlers |
| `start`, `uploads` | program counters and locals of the API handlers |

A step is one transaction or one stretch without an await. `UploadCheck`, `UploadWrite`
and `UploadCommit` are the three stretches of the upload handler; `TranscribeBegin`
(digest), `Hear` (ffmpeg reads the file), `Check` (row loaded, digest compared) and
`Commit` those of `transcribe`; `EvaluateBegin`, the decision under `FOR UPDATE`
(`EvaluateProbes`, `EvaluateAggregates`) and `EvaluateCommit` or `EvaluateCollides`
(unique constraint) those of `interview_evaluate`. The decision and the commit are two
steps because under READ COMMITTED other transactions commit in between; the row lock is
the condition `Locked`. `Flushed` is the ORM's rule that an unchanged column is not
written.

Two pairs of steps are merged, because no other actor can tell: the caller's commit and
the commit of its `async_jobs` row, and the upload handler's two reads.

### JobQueue and ResumePipeline

`JobQueue` has one function per process: `request` (the caller of `enqueue_job`),
`message` (Redis), `run` (`run_tracked_job` in the worker), `row` (Postgres), `shown`
(the poller). `PushFails` is enabled before and after the message was stored; `Cancel`
is the ARQ timeout, `WorkerKilled` takes every running handler at once, `DropOrphan` is
ARQ refusing a second try (`max_tries=1`). The read and the commit of a one-column
update by primary key are one step: the value written does not depend on the value read.
The branch for a duplicate ARQ id is left out, the id being a fresh UUID.

`ResumePipeline` extends `JobQueue`: its actions are conjunctions of a queue action
(`Insert`, `HandlerReturns`, `HandlerRaises`) with their own effect, or leave the queue
alone. So every behaviour of the pipeline is one of the queue (`PipelineIsQueue`) and
the queue's theorems carry over. `RefuseUpload` is the router's write of `failed`,
`WriteBreaks` a database error in one of the handler's three writes.

### Accounts and ClientSession

A row of `refresh_tokens` is named by the order of its commit; `replaced` is
`replaced_by_id`, `revoked` the rows with `revoked_at`, and `from` (a history variable, no
column) the token a rotation started from. A request goes from the step that reads and
decides to the step that commits; what it has read is a record in `request`. Two
rotations of one token both commit a successor and the later `replaced_by_id` overwrites
the earlier one, as two UPDATEs by primary key do. Expiry is a choice: any token may turn
out to have expired. `PatchCheck` and `PatchCommit` are the administrators' PATCH, whose
guard compares the target with the caller.

`ClientSession` extends `Accounts` as `ResumePipeline` extends `JobQueue`. `memory` is a
page's `currentTokens`, read from `localStorage` when the page is loaded and never again;
`refreshing` is `refreshInFlight`; `form` the login or logout under way. Calls may be
lost on either way (`RefreshFails`, `MeFails`, `LogoutFails`), and a reload forgets the
calls of the page before it.

### Board

One row per posting and session; `job` and `router` say how far the generate job and
`POST /interviews` are, which is all of `Interview` that a reader can tell, including the
session that its router abandons after a failed push that was delivered. `screen` is the
ranking a recruiter looks at, `printing` what a rendering thread has read, `printed` the
file. Readers are the operators `Readable`, `Ranked`, `History`, `AuditedSessions`,
`AuditedScores`: each is one endpoint's query. A posting may be closed between
`StartRead` and `StartCommit`, as in the code; no property says otherwise.

### WorkerThread

The body that `asyncio.to_thread` runs: `pc` walks from the construction of the provider
through calls and validations to `finally`. A reply is what its schema can tell: a list
of kinds, a kind, a score. `Mismatch` is any reply the schema refuses. `transcribe` walks
through its stages with a model in memory and a WAV on disk.

### Scoring and Signals

`Scoring` has the piecewise linear scales and the weighted mean, in thousandths and
tenths of a point, rounded down where the code has floats: properties compare values
computed the same way, never with a decimal constant. `Signals` computes what `Interview`
takes as given: sections line by line, the two fluency arms of a take, judge means, the
refusal for an unmeasured signal. A take of no words is never judged, so its session is
never scored. A plan of one kind in `Signals` and `Interview` stands for the six
questions of one kind that generation can return (section 5).

## 3. Runs

| run | instance | question |
|---|---|---|
| `interview` | one question and its follow-up, two upload handlers, three uploads, one fault | do duplicate and stale jobs, kills and failed pushes leave evaluations, follow-ups, files and the score right? is the invariant of the proofs true? |
| `interview_liveness` | two questions of both kinds, takes with two texts and one silent, no fault, fairness | does the session implement its contract? do jobs end, does a session leave `scheduled`, is a stored text judged? |
| `resume_pipeline` | two uploads, one slot, two queue faults, two of the pipeline's own, fairness | is a parsed resume usable, does the page find the outcome its job reported, does a fault stay with the job it hit? |
| `accounts` | two recruiters of whom one administers, two requests at once, four tokens | do races of rotations, revoke-alls, registrations and patches multiply or spare sessions, touch accounts, take the last administrator? |
| `client_session` | two tabs, one user, two tokens, one reload, one lost call, fairness | does the client trip reuse detection by itself, does a page let go of a token it posted? |
| `board` | one posting, owner, administrator, candidate, two sessions, two composites | does a patch take, and do the composites and the order that were shown or printed stay true? |
| `worker_thread` | every list of up to seven kinds, scores from -1 to 6, every failure | is what the thread returns complete, and what it held gone? |
| `signals` | resumes of up to four lines, five takes, marks 0, 2, 3, 5, up to four rows | are the numbers behind a score defined, on their scale, and monotone? |
| `claim_all_scored`, `claim_retake_clears`, `claim_abandoned_is_unscored`, `claim_crash_is_recorded` | the smallest instance that shows it | one sentence of the docs each that the code does not keep |

**Bounds.** `MaxAnswers`, `MaxUploads`, `MaxFaults`, `MaxTokens`, `MaxLoads`,
`MaxLosses`, `MaxLines`, `MaxRows` and `StartScores` cut behaviours, they do not change
steps. Three uploads are the fewest for a retake of a retake with a follow-up open; two
uploads on two answers the fewest for two concurrent evaluates; `MaxConcurrent` 2 the
fewest for two handlers at once and 1 the fewest for a full worker. Four tokens are a
login, two racing rotations of it and one of theirs. Two tabs and one reload are the
fewest for two holders of one pair. Two sessions are the fewest for an order; four marks
are the ends of the scale and both sides of the follow-up rule; five takes are one per
branch of the fluency code. `WorkerThread` is exhaustive, its inputs are that small. The
theorems hold for every value. Requests of `Accounts` and sessions of `Board` are
interchangeable, hence the symmetry of those two safety runs. Deadlock is not checked
where the bounds stop the system: uploads, tokens or rows that are used up, a queue whose
jobs have ended.

**Fairness.** Weak fairness of each job's next step (the worker's loop polls Redis and
every handler has a timeout), of each API handler that began, of the pollers (a TanStack
interval) and of answers on their way to a page. None of uploads, of starting a session,
of logins: a candidate may leave. None of a page fetching or refreshing: a page without a
job to poll may idle for ever, so `PostedPairGoes` speaks only of a refresh that was
sent. None of faults, losses or reloads. `claim_crash_is_recorded` and
`ClaimGenerateLeaves.cfg` are refuted under the same fairness of enqueuer, worker and
poller, so their systems do not merely stop.

## 4. What is proved

For all constants (any number of requests, jobs, takes, texts, questions, slots,
faults):

* **Interview.** `IInv` is inductive (`Invariance`); from it follow the type invariant,
  `ScoreIsCurrent`, `LockHolds`, `AudioOnDisk`, `EvaluationsAreFinal`,
  `CompletedIsScored`, `OneFollowUpEach` and the refinement `ContractKept`. None of the
  properties is inductive alone. `PendingWrites` says that what an evaluate holds in its
  hands between its reads and its commit is still right: its row is locked and unscored,
  and if it is about to complete the session every other row is scored already, so no
  other evaluate can be judging or adding a row. That is what makes the score current
  and the step a step of the contract. `CompletedIsScored` says that the commit that completes
  the session is the one that stores its score, and that no job or upload touches either
  afterwards; what the failing start request may do to a scored session is left to
  `claim_abandoned_is_unscored`. `StartOrder` and `Locals` say that rows exist
  before the jobs about them and what a handler's locals hold. `OneFollowUpEach` is a
  count and needs the library's facts about cardinality.
* **JobQueue.** `QueueInv` is inductive: per job, how far caller, message, run and row
  can be apart (`InStep`). A row follows its run unless its enqueuer wrote `failed` onto
  it, and that enqueuer never returned the id; hence `OutcomesAreTrue` and
  `LifecycleKept` for those who were given one.
* **ResumePipeline.** `ResumeInv` adds, per upload, that the resume follows its
  handler's stage unless the router refused the upload; `PipelineIsQueue` gives the
  queue's half of the induction.
* **Accounts.** `AccountsInv` joins the type invariant, `ChainsHold` (`replaced_by_id`
  marks every token that was ever rotated, whichever of two racing rotations won the
  link, and leads forward in the order of issue) and `InStep` (what a request has read is
  still true where its commit relies on it). From it follow `ReuseEndsSessions`,
  `AccountsStay` and `LastAdminFalls`. `ChainsHold` alone is not inductive: a rotation's
  commit needs to know that its token exists.
  Two of its properties are counts, with an invariant of their own (`CountsInvariance`).
  `ForksFit`: the rotations of a token that were committed and those that have read it
  and are yet to commit share the request slots, because nobody reads a rotated token as
  valid any more; hence `ForksAreOverlaps`. `EndsAreCounted`: of the tokens that descend
  from one login, those never rotated are one more than those whose link was overwritten
  by a racing rotation. A first rotation moves an end, a second one adds an end and
  unlinks one token. A live token is an end, hence `LiveIsCounted`. The login of a token
  is a recursive function along `from`; that it is defined everywhere is shown by the set
  of tokens on which it is, since the library's induction cannot be used.
* **ClientSession.** `ClientInv` adds that an answer under way is nobody's pair yet
  (`AnswersAreFresh`), that a page still holding a token it posted has its refresh
  outstanding (`PagesInStep`), and that without a reload a token is one page's only
  (`OnePageEach`); hence `NeverShownTwice` and `ReuseNeedsReload`, whatever calls fail.
  `ClientIsAccounts` shows step by step that tabs do to the tables only what `Accounts`
  allows, so its theorems hold of them as well (`SessionsStayCounted`).
* **Board.** `BoardInv`: composites are written once and never changed, a `finished`
  stamp is one session's; a patch that is not overlapped writes what it was sent; hence
  the three properties of the run.
* **WorkerThread.** `ThreadInv` ties what is held, asked and taken to `pc`; the three
  properties follow for every set of replies, also longer ones than TLC tries.
* **Scoring and Signals.** Arms stay between 0 and 100 points and fall with pauses and
  fillers; a composite is monotone and between its signals for all weights that
  `applied()` takes. `SignalsKept` is inductive: the current section is that of the last
  header read, sections hold their lines, and a stored composite is that of the rows as
  they stand, which a refusal for missing kinds must be told apart from; hence
  `SectionsHoldTheirLines` and `RefusedForKindsOnly`. The rest follows from
  it in each state: `PausesAgree` (in a sorted list the gaps telescope, and where spans
  overlap the gap is negative and no pause), `CompositeIsBetween` and `BetterNeverLower`
  (a larger mark is a larger sum, mean and composite). Two tools come first: a sum over a
  finite set does not depend on the order in which the fold picks its elements, and
  sorting by rank gives every index one place. The pauses rest on `end >= start` of a
  word, which `ml/speech/asr.py:26` states and Whisper has to keep.

Assumed: `ConstantsAssumption`, `NoneAssumption` (of `Interview` and of `Signals`),
`QueueAssumption`, `AccountsAssumption`, `PagesAssumption`, `BoardAssumption`,
`RepliesAssumption`, `WeightsAssumption` and `SignalsAssumption`, which only give the
constants their types: finitely many users, jobs and requests at once, weights that
`applied()` does not refuse, marks from 0 to 5.

Every safety property of a passing run is stated by a theorem. Only model-checked are the
liveness properties (`JobsEnd`, `LeavesScheduled`, `TextIsJudged`, `PageSettles`,
`QueueDrains`, `PostedPairGoes`), because fairness and ENABLED are out of the prover's
reach. Refuted statements are TLC counterexamples.

## 5. Where code and docs disagree

Four disagreements are runs of the project:

* `claim_all_scored`. Two evaluates of different answers lock different rows. Each
  flushes its own evaluation, reads the others' as still missing and leaves the session
  open; both commit. Every row is then answered, nothing is queued, and the session
  never completes.
* `claim_retake_clears`. A retake loads an answer without transcript, awaits its file
  while `transcribe` commits one, and assigns `None` to columns it loaded as `None`: the
  ORM writes nothing and the old transcript stays with the new audio.
* `claim_abandoned_is_unscored`. Redis takes the generate job, its reply is lost, and the
  session is generated, answered and scored before `POST /interviews` gives up and writes
  `abandoned` onto it. It keeps its composite; README.md:472 says that abandoned sessions
  get none. Every reader that tests the composite and not the status shows it (below).
* `claim_crash_is_recorded`. A job whose id its client holds is cancelled by its timeout
  after its row was marked `running`. ARQ gives it up, the row stays, and the poller is
  shown `running` for ever; `workers/settings.py:56` says that the row records failed.

The following have a configuration of their own, to be run by hand; each names a
statement of the docs, and TLC refutes it:

* `ClaimAbandonedIsHidden.cfg` (`MCBoard`). A session scored and then abandoned is shown
  by the candidate's score, report and history and by the administrators' lists.
  `services/score_access.py:4`, `routers/admin.py:254` and `ml/scoring/report.py:34` say
  that there is nothing to show. Rankings test the status and leave it out.
* `ClaimClosedTakesNoAudio.cfg` (`InterviewClaims`). A retake passes the status check of
  `upload_answer_audio` while the answer's first take is still to be transcribed; that
  take is heard and judged, the last evaluate completes and scores the session, and the
  retake's commit then clears an answer the score was computed from. The comment at
  `routers/interviews.py:224` says that this is refused.
* `ClaimReplacedIsSkipped.cfg` (`InterviewClaims`). `transcribe` compares the digest of
  the file, a retake replaces the file, and the transcript of the old take is committed
  beside the new recording; README.md:404 says that the digest skips such a write.
* `ClaimGenerateLeaves.cfg` (`InterviewClaims`). `interview_generate` is cancelled by its
  timeout or dies with the worker: `except Exception` does not run, nothing is retried,
  and the session stays `scheduled`; `_abandon_session` (`workers/tasks.py:324`) is there
  so that it cannot.
* `ClaimFailedMeansRaised.cfg` (`MCResumePipeline`). The reply of the push is lost, the
  worker parses the resume and stores everything, and the router then writes `failed`
  onto it; `models/enums.py:24` says of that status that parsing raised.
* `ClaimSignedOutStays.cfg` (`MCClientSession`). A page signs out while its refresh is
  under way. The rotation commits a live successor, which the logout does not revoke,
  `clearTokens` empties the page, and the refresh's answer stores the successor: the page
  is signed in again (README.md:114: sign out always clears local state).
* `ClaimBothKinds.cfg` (`MCWorkerThread`). A first reply of six questions of one kind is
  valid and lacks a kind; the top-up becomes the seventh question and is cut off, so the
  plan has one kind and its session is never scored; the docstring at
  `workers/tasks.py:212` guarantees both. `PlanCovers`, which is proved, says that this
  is the only way.

One more was met while modelling and no sentence of the docs is against it: a silent
recording scores 66.7 in both fluency arms, because no pause and no filler are full marks
for two of three components. It is never part of a score, because a blank transcript is
not judged.

## 6. Not modelled

* Matches and embeddings: one SELECT ranked by the cosine of SBERT vectors, without state
  of its own; `posting_embed` as a job is `JobQueue`.
* Skill taxonomy, PDF text, regular expressions for contacts, pitch and intensity,
  prompts, rubric texts, the wording of explanations: text and signal processing that the
  models take as inputs.
* The recorder and the interview page: their requests are actions of `Interview` in any
  number and order, so a model of the page could only restrict them.
* `compare_sessions`: two scores read side by side, nothing kept.
* Rate limits, configuration, migrations, scripts, layout.
* A database or disk outage as such; single refused writes appear where the code reacts
  to them (`WriteBreaks`).
* Memory: that a thread whose job was cancelled still runs while the next job loads its
  model. The typed-answer endpoint, which always answers 410.

ARQ, asyncpg, the ORM and the browser are modelled from how this code uses them.

## 7. Plan

Done: the interview session with its contract, the job queue and its lifecycle, resumes,
accounts and the client, postings and score readers, the worker's threads, scoring and
the signals behind it, each with proofs of its safety properties.

What is left, in order of use: `posting_embed` and the matches that skip an unembedded
posting, on `JobQueue`; the recorder's states with what a retake does to the poller of
the take before.
