----------------------------- MODULE WorkerThread -----------------------------
(***************************************************************************)
(* What asyncio.to_thread runs for an ARQ job: the synchronous body of     *)
(* interview_generate and interview_evaluate, which talk to a language     *)
(* model, and of transcribe, which loads speech models.  The handlers that *)
(* await it are in Interview; this module is about what the thread returns *)
(* to them, and about the HTTP client, the models and the WAV it holds on  *)
(* the way, whichever call fails.                                          *)
(***************************************************************************)
EXTENDS Integers, Sequences, Functions

CONSTANT Replies    \* lists of question kinds that a first reply may state

\* A model states a kind, leaves it out, or makes one up.
Kinds == {"technical", "behavioral"}
Stated == Kinds \cup {"omitted", "unknown"}

ASSUME RepliesAssumption == Replies \subseteq Seq(Stated)

MaxQuestions == 6

Schemas == {"questions", "topup", "evaluation", "probe"}

None == "none"

VARIABLES
    pc,         \* where the thread stands
    job,        \* the arguments it was called with
    client,     \* is an owned httpx client open?
    loaded,     \* speech models in memory
    wav,        \* does the temporary directory with answer.wav exist?
    schema,     \* response_model of the completion being asked for
    plan,       \* generated.questions, by kind
    kinds,      \* the local of that name: kinds the plan is taken to cover
    score,      \* evaluation.score, or None
    probe,      \* kind of the follow-up question, or None
    raising     \* is an exception on its way through `finally`?

llm == <<schema, plan, kinds, score, probe>>
held == <<client, loaded, wav>>
vars == <<pc, job, held, llm, raising>>

GenerateJob == [task |-> "generate"]
TranscribeJob == [task |-> "transcribe"]
EvaluateJob(kind, followUp) == [task |-> "evaluate", kind |-> kind, followUp |-> followUp]

Jobs == {GenerateJob, TranscribeJob}
          \cup {EvaluateJob(k, f) : k \in Kinds, f \in BOOLEAN}

Over == pc \in {"idle", "returned", "raised"}

-----------------------------------------------------------------------------
(* Replies and the schemas they are validated against. *)

\* question_kind has a default, and is otherwise a closed literal.
KindOf(stated) == IF stated = "omitted" THEN "technical" ELSE stated

Values(s) ==
    CASE s = "questions" -> Replies
      [] s \in {"topup", "probe"} -> Stated
      [] s = "evaluation" -> -1 .. 6

Valid(s, value) ==
    CASE s = "questions" -> Len(value) \in 1 .. MaxQuestions /\ "unknown" \notin Range(value)
      [] s \in {"topup", "probe"} -> value # "unknown"
      [] s = "evaluation" -> value \in 0 .. 5

Covered(questions) == {KindOf(q) : q \in Range(questions)}

\* should_follow_up
Weak(value, followUp) == ~followUp /\ value <= 2

\* [*generated.questions, extra][:6]: a seventh question is cut off again.
Topped(questions, kind) ==
    IF Len(questions) < MaxQuestions THEN Append(questions, kind) ELSE questions

-----------------------------------------------------------------------------
Init ==
    /\ pc = "idle" /\ job = None
    /\ client = FALSE /\ loaded = {} /\ wav = FALSE
    /\ schema = None /\ plan = <<>> /\ kinds = {} /\ score = None /\ probe = None
    /\ raising = FALSE

\* The handler calls to_thread; a thread of the pool starts with fresh locals.
Begin(j) ==
    /\ Over
    /\ job' = j
    /\ pc' = IF j.task = "transcribe" THEN "check" ELSE "build"
    /\ plan' = <<>> /\ kinds' = {} /\ score' = None /\ probe' = None
    /\ schema' = None /\ raising' = FALSE
    /\ UNCHANGED held

\* _build_interview_provider: no client yet.  An unknown LLM_PROVIDER raises
\* before the `try`.
Build ==
    /\ pc = "build"
    /\ pc' = "ask"
    /\ schema' = IF job.task = "generate" THEN "questions" ELSE "evaluation"
    /\ UNCHANGED <<job, held, plan, kinds, score, probe, raising>>

BuildFails ==
    /\ pc = "build"
    /\ pc' = "raised"
    /\ raising' = TRUE
    /\ UNCHANGED <<job, held, llm>>

\* complete_json: the client is opened by the first generate().
Ask ==
    /\ pc = "ask"
    /\ pc' = "waiting"
    /\ client' = TRUE
    /\ UNCHANGED <<job, loaded, wav, llm, raising>>

\* load_rubric raises RubricNotFoundError, inside the `try` and before any call.
RubricMissing ==
    /\ pc = "ask" /\ schema = "evaluation"
    /\ pc' = "finally"
    /\ raising' = TRUE
    /\ UNCHANGED <<job, held, llm>>

\* Mutant: a follow-up that cannot be had does not cost the evaluation.
CallFailsForgiven ==
    /\ pc = "waiting"
    /\ pc' = "finally"
    /\ raising' = (schema # "probe")
    /\ UNCHANGED <<job, held, llm>>

\* LLMProviderError (no connection, an error status, a body that is not JSON) or
\* LLMJSONError (no message, or a message that is not JSON).
CallFails ==
    /\ pc = "waiting"
    /\ pc' = "finally"
    /\ raising' = TRUE
    /\ UNCHANGED <<job, held, llm>>

\* LLMSchemaError: JSON of another shape is neither repaired nor clamped.
Mismatch(value) ==
    /\ pc = "waiting"
    /\ ~Valid(schema, value)
    /\ pc' = "finally"
    /\ raising' = TRUE
    /\ UNCHANGED <<job, held, llm>>

\* The first reply of a generate, and the `for missing_kind` loop up to the call
\* it makes: a list with one question at least lacks one kind at most.
Generated(value) ==
    /\ pc = "waiting" /\ schema = "questions"
    /\ Valid(schema, value)
    /\ plan' = [i \in DOMAIN value |-> KindOf(value[i])]
    /\ kinds' = Covered(value)
    /\ IF kinds' = Kinds
       THEN pc' = "finally" /\ UNCHANGED schema
       ELSE pc' = "ask" /\ schema' = "topup"
    /\ UNCHANGED <<job, held, score, probe, raising>>

\* Mutant: the top-up is taken whatever its kind.
ToppedUpAnyKind(value) ==
    /\ pc = "waiting" /\ schema = "topup"
    /\ Valid(schema, value)
    /\ pc' = "finally"
    /\ plan' = Topped(plan, KindOf(value))
    /\ kinds' = Kinds
    /\ UNCHANGED <<job, held, schema, score, probe, raising>>

\* The top-up: a question of the kind asked for is taken, any other raises
\* QuestionKindError.
ToppedUp(value) ==
    /\ pc = "waiting" /\ schema = "topup"
    /\ Valid(schema, value)
    /\ pc' = "finally"
    /\ IF KindOf(value) \in kinds
       THEN raising' = TRUE /\ UNCHANGED <<plan, kinds>>
       ELSE /\ plan' = Topped(plan, KindOf(value))
            /\ kinds' = kinds \cup {KindOf(value)}
            /\ UNCHANGED raising
    /\ UNCHANGED <<job, held, schema, score, probe>>

\* The judge's evaluation; a weak answer to an original question is probed by
\* the same pass.
Judged(value) ==
    /\ pc = "waiting" /\ schema = "evaluation"
    /\ Valid(schema, value)
    /\ score' = value
    /\ IF Weak(value, job.followUp)
       THEN pc' = "ask" /\ schema' = "probe"
       ELSE pc' = "finally" /\ UNCHANGED schema
    /\ UNCHANGED <<job, held, plan, kinds, probe, raising>>

\* The follow-up question may be of the other kind.
Probed(value) ==
    /\ pc = "waiting" /\ schema = "probe"
    /\ Valid(schema, value)
    /\ probe' = KindOf(value)
    /\ pc' = "finally"
    /\ UNCHANGED <<job, held, schema, plan, kinds, score, raising>>

\* Mutant: close() follows the last call instead of standing in a `finally`.
CloseOnSuccess ==
    /\ pc = "finally" /\ job.task # "transcribe"
    /\ client' = (client /\ raising)
    /\ pc' = IF raising THEN "raised" ELSE "returned"
    /\ UNCHANGED <<job, loaded, wav, llm, raising>>

\* `finally: provider.close()`, then the value or the exception reaches the
\* handler that awaits the thread.
Close ==
    /\ pc = "finally" /\ job.task # "transcribe"
    /\ client' = FALSE
    /\ pc' = IF raising THEN "raised" ELSE "returned"
    /\ UNCHANGED <<job, loaded, wav, llm, raising>>

-----------------------------------------------------------------------------
(* run_speech_pipeline.  Its outcomes are the stages' in a row: ffmpeg,     *)
(* faster-whisper, Silero, Praat.                                          *)

\* The blob must be on disk before a temporary directory is made.
AudioMissing ==
    /\ pc = "check"
    /\ pc' = "raised"
    /\ raising' = TRUE
    /\ UNCHANGED <<job, held, llm>>

OpenTemp ==
    /\ pc = "check"
    /\ wav' = TRUE
    /\ pc' = "ffmpeg"
    /\ UNCHANGED <<job, client, loaded, llm, raising>>

Transcode ==
    /\ pc = "ffmpeg"
    /\ pc' = "whisper"
    /\ UNCHANGED <<job, held, llm, raising>>

\* WhisperModel(...) and load_silero_vad().
Load ==
    /\ pc \in {"whisper", "silero"} /\ loaded = {}
    /\ loaded' = {pc}
    /\ UNCHANGED <<pc, job, client, wav, llm, raising>>

\* transcribe or get_speech_timestamps returned; the model's own `finally`
\* drops it.
Heard ==
    /\ pc \in loaded
    /\ loaded' = {}
    /\ pc' = IF pc = "whisper" THEN "silero" ELSE "praat"
    /\ UNCHANGED <<job, client, wav, llm, raising>>

Measured ==
    /\ pc = "praat"
    /\ pc' = "finally"
    /\ UNCHANGED <<job, held, llm, raising>>

\* A stage raises its SpeechError; a model it had loaded is dropped first.
StageFails ==
    /\ pc \in {"ffmpeg", "whisper", "silero", "praat"}
    /\ loaded' = {}
    /\ raising' = TRUE
    /\ pc' = "finally"
    /\ UNCHANGED <<job, client, wav, llm>>

\* TemporaryDirectory.__exit__
CloseTemp ==
    /\ pc = "finally" /\ job.task = "transcribe"
    /\ wav' = FALSE
    /\ pc' = IF raising THEN "raised" ELSE "returned"
    /\ UNCHANGED <<job, client, loaded, llm, raising>>

Next ==
    \/ \E j \in Jobs : Begin(j)
    \/ Build \/ BuildFails \/ Ask \/ RubricMissing \/ CallFails
    \/ /\ pc = "waiting"
       /\ \E value \in Values(schema) :
             \/ Mismatch(value) \/ Generated(value) \/ ToppedUp(value)
             \/ Judged(value) \/ Probed(value)
    \/ Close
    \/ AudioMissing \/ OpenTemp \/ Transcode \/ Load \/ Heard \/ Measured
    \/ StageFails \/ CloseTemp

Spec == Init /\ [][Next]_vars

-----------------------------------------------------------------------------
\* The plan a handler is given has 1..6 questions and both kinds, unless the
\* model's first reply was six questions of one kind (the docstring promises
\* both, see BothKinds).
PlanCovers ==
    pc = "returned" /\ job.task = "generate" =>
      /\ Len(plan) \in 1 .. MaxQuestions
      /\ Range(plan) # Kinds => Len(plan) = MaxQuestions

\* An evaluation reaches its handler on the scale of the rubric and with its
\* follow-up question exactly when the rule asks for one: a failing follow-up
\* call costs the evaluation, and no weak answer passes unprobed.
EvaluationHasItsProbe ==
    pc = "returned" /\ job.task = "evaluate" =>
      /\ score \in 0 .. 5
      /\ (probe # None) <=> Weak(score, job.followUp)

\* Whatever failed, a thread that is over has closed its client, dropped its
\* models and deleted its WAV, and Whisper is gone before Silero is loaded.
NothingHeld ==
    /\ Over => ~client /\ loaded = {} /\ ~wav
    /\ loaded \subseteq {pc}

\* "Guarantees at least one technical and one behavioral question"
\* (workers/tasks.py:212).
BothKinds ==
    pc = "returned" /\ job.task = "generate" => Range(plan) = Kinds
=============================================================================
