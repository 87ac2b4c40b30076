--------------------------- MODULE SessionContract ---------------------------
(***************************************************************************)
(* What an interview session promises to its readers (the history list,    *)
(* the rankings, the report): questions are added only behind the existing *)
(* ones, each answer is judged once and for all, a weak answer to an       *)
(* original question earns exactly one follow-up and no other answer does, *)
(* and the stored score is computed once, from the final evaluation of     *)
(* every question.  It says nothing of audio, jobs or transactions.        *)
(***************************************************************************)
EXTENDS Naturals, Sequences

CONSTANTS Texts, Plans, None

Kinds == {"technical", "behavioral"}

Evaluation == [text : Texts, low : BOOLEAN]

VARIABLES
    status,     \* of the session
    questions,  \* [kind, followUp, evaluation], in question order
    result      \* what the score was computed from, or None

vars == <<status, questions, result>>

Open == questions # <<>>

Asked(kind, isFollowUp) == [kind |-> kind, followUp |-> isFollowUp, evaluation |-> None]

Init ==
    /\ status = "absent"
    /\ questions = <<>>
    /\ result = None

Schedule ==
    /\ status = "absent"
    /\ status' = "scheduled"
    /\ UNCHANGED <<questions, result>>

Ask(plan) ==
    /\ ~Open /\ status \in {"scheduled", "abandoned"}
    /\ questions' = [i \in DOMAIN plan |-> Asked(plan[i], FALSE)]
    /\ status' = "in_progress"
    /\ UNCHANGED result

\* A session that could not be queued, or whose questions could not be made.
Abandon ==
    /\ status # "absent"
    /\ status' = "abandoned"
    /\ UNCHANGED <<questions, result>>

WithEvaluation(i, evaluation) == [questions EXCEPT ![i].evaluation = evaluation]

\* A weak answer to an original question: one follow-up, at the end.
Probe(i, evaluation, kind) ==
    /\ i \in DOMAIN questions
    /\ questions[i].evaluation = None
    /\ evaluation.low /\ ~questions[i].followUp
    /\ questions' = Append(WithEvaluation(i, evaluation), Asked(kind, TRUE))
    /\ UNCHANGED <<status, result>>

Judge(i, evaluation) ==
    /\ i \in DOMAIN questions
    /\ questions[i].evaluation = None
    /\ evaluation.low => questions[i].followUp
    /\ questions' = WithEvaluation(i, evaluation)
    /\ UNCHANGED <<status, result>>

\* The judgement that leaves no question open computes the score.
Complete(i, evaluation) ==
    /\ i \in DOMAIN questions
    /\ questions[i].evaluation = None
    /\ evaluation.low => questions[i].followUp
    /\ \A q \in DOMAIN questions \ {i} : questions[q].evaluation # None
    /\ \A k \in Kinds : \E q \in DOMAIN questions : questions[q].kind = k
    /\ questions' = WithEvaluation(i, evaluation)
    /\ status' = "completed"
    /\ result' = [q \in DOMAIN questions |->
                    [kind |-> questions[q].kind,
                     evaluation |-> IF q = i THEN evaluation ELSE questions[q].evaluation]]

Next ==
    \/ Schedule \/ Abandon
    \/ \E plan \in Plans : Ask(plan)
    \/ \E i \in DOMAIN questions, evaluation \in Evaluation :
         \/ Judge(i, evaluation)
         \/ Complete(i, evaluation)
         \/ \E kind \in Kinds : Probe(i, evaluation, kind)

Spec == Init /\ [][Next]_vars

=============================================================================
