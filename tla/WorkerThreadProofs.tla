-------------------------- MODULE WorkerThreadProofs --------------------------
(***************************************************************************)
(* What a worker thread returns and releases, for every set of replies a   *)
(* model may give.  The invariant says of each place in the thread what is *)
(* held there and what has been established of the result.                 *)
(***************************************************************************)
EXTENDS WorkerThread, TLAPS

Places == {"idle", "build", "ask", "waiting", "finally", "check", "ffmpeg",
           "whisper", "silero", "praat", "returned", "raised"}

\* Each resource is held only where the code between its opening and its
\* `finally` can be.
HeldWhereUsed ==
    /\ client => pc \in {"ask", "waiting", "finally"} /\ job.task # "transcribe"
    /\ wav => pc \in {"ffmpeg", "whisper", "silero", "praat", "finally"}
                /\ job.task = "transcribe"
    /\ loaded \subseteq {pc} /\ (loaded # {} => pc \in {"whisper", "silero"})

\* The list a top-up is asked for: one kind only.
OneSided(questions) ==
    /\ questions \in Seq(Kinds)
    /\ Len(questions) \in 1 .. MaxQuestions
    /\ Range(questions) = kinds
    /\ kinds # Kinds

Asking ==
    pc \in {"ask", "waiting"} =>
      /\ ~raising
      /\ \/ schema = "questions" /\ job.task = "generate"
         \/ schema = "topup" /\ job.task = "generate" /\ OneSided(plan)
         \/ schema = "evaluation" /\ job.task = "evaluate" /\ probe = None
         \/ /\ schema = "probe" /\ job.task = "evaluate" /\ probe = None
            /\ score \in 0 .. 5 /\ Weak(score, job.followUp)

PlanIsGood ==
    /\ Len(plan) \in 1 .. MaxQuestions
    /\ Range(plan) # Kinds => Len(plan) = MaxQuestions

EvaluationIsGood ==
    /\ score \in 0 .. 5
    /\ (probe # None) <=> Weak(score, job.followUp)

Answered ==
    pc = "returned" \/ (pc = "finally" /\ ~raising) =>
      /\ job.task = "generate" => PlanIsGood
      /\ job.task = "evaluate" => EvaluationIsGood

\* Which job can stand where.
OnItsWay ==
    /\ pc = "build" => job.task \in {"generate", "evaluate"} /\ probe = None /\ ~raising
    /\ pc \in {"check", "ffmpeg", "whisper", "silero", "praat"} => job.task = "transcribe"

ThreadInv ==
    /\ pc \in Places
    /\ client \in BOOLEAN /\ wav \in BOOLEAN /\ raising \in BOOLEAN
    /\ pc # "idle" => job \in Jobs
    /\ OnItsWay
    /\ HeldWhereUsed
    /\ Asking
    /\ Answered

-----------------------------------------------------------------------------
\* The three shapes of a job.
LEMMA JobShapes ==
    /\ GenerateJob.task = "generate" /\ TranscribeJob.task = "transcribe"
    /\ \A k, f : EvaluateJob(k, f).task = "evaluate" /\ EvaluateJob(k, f).followUp = f
    /\ \A j \in Jobs : j.task \in {"generate", "transcribe", "evaluate"}
    /\ \A j \in Jobs : j.task = "evaluate" => j.followUp \in BOOLEAN
  BY DEF GenerateJob, TranscribeJob, EvaluateJob, Jobs

\* A stated kind is stored as one of the two.
LEMMA KindsStored == \A q \in Stated : q # "unknown" => KindOf(q) \in Kinds
  BY DEF Stated, Kinds, KindOf

\* generated.questions of a reply that the schema accepts.
LEMMA FirstPlan ==
    ASSUME NEW value \in Replies, Valid("questions", value)
    PROVE  LET questions == [i \in DOMAIN value |-> KindOf(value[i])]
           IN  /\ questions \in Seq(Kinds)
               /\ Len(questions) \in 1 .. MaxQuestions
               /\ Range(questions) = Covered(value)
               /\ Covered(value) \subseteq Kinds
<1>1. value \in Seq(Stated)  BY RepliesAssumption
<1>2. Len(value) \in 1 .. MaxQuestions /\ "unknown" \notin Range(value)
  BY DEF Valid
<1>3. \A i \in DOMAIN value : KindOf(value[i]) \in Kinds
  BY <1>1, <1>2, KindsStored DEF Range
<1>4. [i \in DOMAIN value |-> KindOf(value[i])] \in Seq(Kinds)
  BY <1>1, <1>3
<1>5. Len([i \in DOMAIN value |-> KindOf(value[i])]) = Len(value)
  BY <1>1, <1>4
<1>6. Range([i \in DOMAIN value |-> KindOf(value[i])]) = Covered(value)
  BY DEF Range, Covered
<1>7. Covered(value) \subseteq Kinds
  BY <1>3 DEF Covered, Range
<1> QED  BY <1>2, <1>4, <1>5, <1>6, <1>7

\* The top-up completes a list of one kind, unless the cut takes it off again.
LEMMA ToppedPlan ==
    ASSUME OneSided(plan), NEW kind \in Kinds, kind \notin kinds
    PROVE  LET topped == Topped(plan, kind)
           IN  /\ Len(topped) \in 1 .. MaxQuestions
               /\ Range(topped) # Kinds => Len(topped) = MaxQuestions
<1>1. plan \in Seq(Kinds) /\ Len(plan) \in 1 .. MaxQuestions /\ Range(plan) = kinds
  BY DEF OneSided
<1>2. CASE Len(plan) < MaxQuestions
  <2>1. Topped(plan, kind) = Append(plan, kind)  BY <1>2 DEF Topped
  <2>2. Len(Append(plan, kind)) = Len(plan) + 1  BY <1>1
  <2>3. \A i \in DOMAIN plan : Append(plan, kind)[i] = plan[i]  BY <1>1
  <2>4. Append(plan, kind)[Len(plan) + 1] = kind  BY <1>1
  <2>5. DOMAIN Append(plan, kind) = 1 .. Len(plan) + 1 /\ DOMAIN plan = 1 .. Len(plan)
    BY <1>1
  <2>6. plan[1] \in Kinds /\ plan[1] \in kinds  BY <1>1, <2>5 DEF Range, MaxQuestions
  <2>7. kind \in Range(Append(plan, kind)) /\ plan[1] \in Range(Append(plan, kind))
    BY <1>1, <2>3, <2>4, <2>5 DEF Range, MaxQuestions
  <2>8. Kinds \subseteq Range(Append(plan, kind))
    BY <2>6, <2>7 DEF Kinds
  <2>9. Range(Append(plan, kind)) \subseteq Kinds
    BY <1>1, <2>3, <2>4, <2>5 DEF Range
  <2> QED  BY <1>1, <2>1, <2>2, <2>8, <2>9, <1>2 DEF MaxQuestions
<1>3. CASE ~(Len(plan) < MaxQuestions)
  <2>1. Topped(plan, kind) = plan  BY <1>3, Zenon DEF Topped
  <2>2. Len(plan) \in 1 .. 6 /\ ~(Len(plan) < 6)  BY <1>1, <1>3 DEF MaxQuestions
  <2>3. Len(plan) = MaxQuestions  BY <2>2 DEF MaxQuestions
  <2> QED  BY <1>1, <2>1, <2>3
<1> QED  BY <1>2, <1>3

-----------------------------------------------------------------------------
LEMMA InitInv == Init => ThreadInv
  BY DEF Init, ThreadInv, OnItsWay, HeldWhereUsed, Asking, Answered, Places

LEMMA BeginInv == ASSUME ThreadInv, NEW j \in Jobs, Begin(j) PROVE ThreadInv'
<1>1. ~client /\ ~wav /\ loaded = {}
  BY DEF Begin, Over, ThreadInv, HeldWhereUsed
<1>2. pc' \in {"check", "build"} /\ job' = j /\ raising' = FALSE /\ probe' = None
        /\ client' = client /\ wav' = wav /\ loaded' = loaded
        /\ (pc' = "check" <=> j.task = "transcribe")
  BY DEF Begin, held
<1>3. j.task \in {"generate", "transcribe", "evaluate"}  BY JobShapes
<1> QED  BY <1>1, <1>2, <1>3 DEF ThreadInv, OnItsWay, HeldWhereUsed, Asking, Answered, Places

LEMMA BuildInv == ASSUME ThreadInv, Build PROVE ThreadInv'
  BY DEF Build, ThreadInv, OnItsWay, HeldWhereUsed, Asking, Answered, Places, held

LEMMA BuildFailsInv == ASSUME ThreadInv, BuildFails PROVE ThreadInv'
  BY DEF BuildFails, ThreadInv, OnItsWay, HeldWhereUsed, Asking, Answered, Places, held

\* A step that only moves from "ask" to "waiting" or up to `finally`, raising.
LEMMA AskInv == ASSUME ThreadInv, Ask PROVE ThreadInv'
<1>1. OneSided(plan) => OneSided(plan)'
  BY DEF Ask, llm, OneSided
<1> QED
  BY <1>1 DEF Ask, ThreadInv, OnItsWay, HeldWhereUsed, Asking, Answered, Places, llm

LEMMA RaiseInv ==
    ASSUME ThreadInv, \/ RubricMissing \/ CallFails \/ \E value : Mismatch(value)
    PROVE  ThreadInv'
<1>1. pc \in {"ask", "waiting"} /\ pc' = "finally" /\ raising' = TRUE
        /\ UNCHANGED <<job, client, loaded, wav>>
  BY DEF RubricMissing, CallFails, Mismatch, held
<1> QED  BY <1>1 DEF ThreadInv, OnItsWay, HeldWhereUsed, Asking, Answered, Places

LEMMA GeneratedInv ==
    ASSUME ThreadInv, NEW value \in Values(schema), Generated(value) PROVE ThreadInv'
<1>1. value \in Replies /\ Valid("questions", value)
  BY DEF Generated, Values
<1>2. /\ plan' \in Seq(Kinds) /\ Len(plan') \in 1 .. MaxQuestions
      /\ Range(plan') = kinds' /\ kinds' \subseteq Kinds
  BY <1>1, FirstPlan DEF Generated
<1>3. job.task = "generate" /\ job \in Jobs /\ ~raising /\ pc = "waiting"
  BY DEF Generated, ThreadInv, Asking
<1>4. UNCHANGED <<job, client, loaded, wav, score, probe, raising>>
  BY DEF Generated, held
<1>5. CASE kinds' = Kinds
  <2>1. pc' = "finally" /\ PlanIsGood'
    BY <1>2, <1>5 DEF Generated, PlanIsGood
  <2> QED  BY <1>3, <1>4, <2>1 DEF ThreadInv, OnItsWay, HeldWhereUsed, Asking, Answered, Places
<1>6. CASE kinds' # Kinds
  <2>1. pc' = "ask" /\ schema' = "topup" /\ OneSided(plan)'
    BY <1>2, <1>6 DEF Generated, OneSided
  <2> QED  BY <1>3, <1>4, <2>1 DEF ThreadInv, OnItsWay, HeldWhereUsed, Asking, Answered, Places
<1> QED  BY <1>5, <1>6

LEMMA ToppedUpInv ==
    ASSUME ThreadInv, NEW value \in Values(schema), ToppedUp(value) PROVE ThreadInv'
<1>1. value \in Stated /\ value # "unknown"
  BY DEF ToppedUp, Values, Valid
<1>2. KindOf(value) \in Kinds  BY <1>1, KindsStored
<1>3. pc = "waiting" /\ job.task = "generate" /\ OneSided(plan) /\ ~raising
  BY DEF ToppedUp, ThreadInv, Asking
<1>4. pc' = "finally" /\ UNCHANGED <<job, client, loaded, wav, score, probe>>
  BY DEF ToppedUp, held
<1>5. CASE KindOf(value) \in kinds
  BY <1>3, <1>4, <1>5 DEF ToppedUp, ThreadInv, OnItsWay, HeldWhereUsed, Asking, Answered, Places
<1>6. CASE KindOf(value) \notin kinds
  <2>1. plan' = Topped(plan, KindOf(value)) /\ raising' = raising
    BY <1>6 DEF ToppedUp
  <2>2. PlanIsGood'
    BY <1>2, <1>3, <1>6, <2>1, ToppedPlan DEF PlanIsGood
  <2> QED  BY <1>3, <1>4, <2>1, <2>2 DEF ThreadInv, OnItsWay, HeldWhereUsed, Asking, Answered, Places
<1> QED  BY <1>5, <1>6

LEMMA JudgedInv ==
    ASSUME ThreadInv, NEW value \in Values(schema), Judged(value) PROVE ThreadInv'
<1>1. value \in 0 .. 5 /\ score' = value
  BY DEF Judged, Values, Valid
<1>2. pc = "waiting" /\ job.task = "evaluate" /\ ~raising /\ probe = None
  BY DEF Judged, ThreadInv, Asking
<1>3. UNCHANGED <<job, client, loaded, wav, plan, kinds, probe, raising>>
  BY DEF Judged, held
<1>4. CASE Weak(value, job.followUp)
  <2>1. pc' = "ask" /\ schema' = "probe" /\ Weak(score', job'.followUp)
    BY <1>1, <1>3, <1>4 DEF Judged
  <2> QED  BY <1>1, <1>2, <1>3, <2>1 DEF ThreadInv, OnItsWay, HeldWhereUsed, Asking, Answered, Places
<1>5. CASE ~Weak(value, job.followUp)
  <2>1. pc' = "finally" /\ EvaluationIsGood'
    BY <1>1, <1>2, <1>3, <1>5 DEF Judged, EvaluationIsGood
  <2> QED  BY <1>2, <1>3, <2>1 DEF ThreadInv, OnItsWay, HeldWhereUsed, Asking, Answered, Places
<1> QED  BY <1>4, <1>5

LEMMA ProbedInv ==
    ASSUME ThreadInv, NEW value \in Values(schema), Probed(value) PROVE ThreadInv'
<1>1. probe' \in Kinds
  BY KindsStored DEF Probed, Values, Valid
<1>2. pc = "waiting" /\ job.task = "evaluate" /\ score \in 0 .. 5 /\ Weak(score, job.followUp)
  BY DEF Probed, ThreadInv, Asking
<1>3. pc' = "finally" /\ UNCHANGED <<job, client, loaded, wav, score, raising>>
  BY DEF Probed, held
<1>4. EvaluationIsGood'
  BY <1>1, <1>2, <1>3 DEF EvaluationIsGood, Kinds, None
<1> QED  BY <1>2, <1>3, <1>4 DEF ThreadInv, OnItsWay, HeldWhereUsed, Asking, Answered, Places

LEMMA CloseInv == ASSUME ThreadInv, Close \/ CloseTemp PROVE ThreadInv'
<1>1. pc = "finally" /\ pc' = (IF raising THEN "raised" ELSE "returned")
        /\ UNCHANGED <<job, loaded, schema, plan, kinds, score, probe, raising>>
  BY DEF Close, CloseTemp, llm
<1>2. client' = FALSE /\ wav' = FALSE /\ loaded' = {}
  BY <1>1 DEF Close, CloseTemp, ThreadInv, HeldWhereUsed
<1>3. ~raising => (PlanIsGood => PlanIsGood') /\ (EvaluationIsGood => EvaluationIsGood')
  BY <1>1 DEF PlanIsGood, EvaluationIsGood
<1> QED  BY <1>1, <1>2, <1>3 DEF ThreadInv, OnItsWay, HeldWhereUsed, Asking, Answered, Places

LEMMA SpeechInv ==
    ASSUME ThreadInv, \/ AudioMissing \/ OpenTemp \/ Transcode \/ Load \/ Heard
                      \/ Measured \/ StageFails
    PROVE  ThreadInv'
<1>1. pc \in {"check", "ffmpeg", "whisper", "silero", "praat"} /\ job.task = "transcribe"
  BY DEF ThreadInv, OnItsWay, AudioMissing, OpenTemp, Transcode, Load, Heard, Measured,
         StageFails, HeldWhereUsed
<1>2. UNCHANGED <<job, client>>
  BY DEF AudioMissing, OpenTemp, Transcode, Load, Heard, Measured, StageFails, held
<1>3. CASE AudioMissing \/ OpenTemp \/ Transcode
  <2>1. pc \in {"check", "ffmpeg"} /\ loaded = {} /\ client = FALSE
    BY <1>3 DEF AudioMissing, OpenTemp, Transcode, ThreadInv, HeldWhereUsed
  <2>2. loaded' = {} /\ client' = FALSE /\ wav' \in BOOLEAN /\ raising' \in BOOLEAN
    BY <1>3, <2>1 DEF AudioMissing, OpenTemp, Transcode, ThreadInv, held
  <2>3. pc' \in {"raised", "ffmpeg", "whisper"} /\ (wav' => pc' \in {"ffmpeg", "whisper"})
    BY <1>3 DEF AudioMissing, OpenTemp, Transcode, ThreadInv, HeldWhereUsed, held
  <2> QED
    BY <1>1, <1>2, <2>2, <2>3 DEF ThreadInv, OnItsWay, HeldWhereUsed, Asking, Answered, Places
<1>4. CASE Load \/ Heard
  BY <1>1, <1>2, <1>4 DEF Load, Heard, ThreadInv, OnItsWay, HeldWhereUsed,
         Asking, Answered, Places, held
<1>5. CASE Measured \/ StageFails
  BY <1>1, <1>2, <1>5 DEF Measured, StageFails, ThreadInv, OnItsWay, HeldWhereUsed,
         Asking, Answered, Places, held
<1> QED  BY <1>3, <1>4, <1>5

LEMMA NextInv == ThreadInv /\ [Next]_vars => ThreadInv'
<1> SUFFICES ASSUME ThreadInv, [Next]_vars PROVE ThreadInv'  OBVIOUS
<1>1. CASE UNCHANGED vars
  <2>1. OneSided(plan) => OneSided(plan)'  BY <1>1 DEF vars, llm, OneSided
  <2> QED
    BY <1>1, <2>1 DEF vars, held, llm, ThreadInv, OnItsWay, HeldWhereUsed, Asking, Answered,
                      PlanIsGood, EvaluationIsGood
<1>2. ASSUME NEW j \in Jobs, Begin(j) PROVE ThreadInv'  BY <1>2, BeginInv
<1>3. ASSUME NEW value \in Values(schema),
             Generated(value) \/ ToppedUp(value) \/ Judged(value) \/ Probed(value)
      PROVE  ThreadInv'
  BY <1>3, GeneratedInv, ToppedUpInv, JudgedInv, ProbedInv
<1> QED
  BY <1>1, <1>2, <1>3, BuildInv, BuildFailsInv, AskInv, RaiseInv, CloseInv, SpeechInv DEF Next

\* The invariant, in every reachable state.
THEOREM ThreadInvariance == Spec => []ThreadInv
  BY InitInv, NextInv, PTL DEF Spec

\* generate_questions_sync returns 1..6 questions of both kinds, or the six of
\* one kind that the model replied first.
THEOREM PlansCover == Spec => []PlanCovers
<1>1. ThreadInv => PlanCovers
  BY DEF ThreadInv, Answered, PlanIsGood, PlanCovers
<1> QED  BY <1>1, ThreadInvariance, PTL

\* evaluate_and_maybe_followup_sync returns a score on the scale, with a
\* follow-up exactly when the rule asks for one.
THEOREM EvaluationsHaveProbes == Spec => []EvaluationHasItsProbe
<1>1. ThreadInv => EvaluationHasItsProbe
  BY DEF ThreadInv, Answered, EvaluationIsGood, EvaluationHasItsProbe
<1> QED  BY <1>1, ThreadInvariance, PTL

\* A thread that is over holds nothing, on every path out of it.
THEOREM NothingStaysHeld == Spec => []NothingHeld
<1>1. ThreadInv => NothingHeld
  BY DEF ThreadInv, HeldWhereUsed, NothingHeld, Over
<1> QED  BY <1>1, ThreadInvariance, PTL
=============================================================================
