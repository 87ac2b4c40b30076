-------------------------------- MODULE Signals --------------------------------
(***************************************************************************)
(* The four numbers behind a composite score, from what is heard and read: *)
(* the resume's lines (ml/resume), the words and voiced islands of each    *)
(* take (ml/speech), the judge's marks, and their weighting (ml/scoring).  *)
(* Interview keeps the rows and their transactions; this module computes   *)
(* what those rows hold, one candidate action at a time.                   *)
(*                                                                         *)
(* Time is counted in ticks of 0.1 s; Scoring gives the other units.       *)
(***************************************************************************)
EXTENDS Scoring, Sequences, FiniteSets, Functions

CONSTANTS
    Takes,          \* recordings: [words, islands, length]
    Marks,          \* judge scores that occur
    Plans,          \* question kinds that generation returns; one kind alone
                    \* stands for the six of one kind that WorkerThread allows
    Skills,         \* numbers of taxonomy skills that may be found
    WordCounts,     \* numbers of words that a resume may have
    MaxLines,       \* bound: lines of a resume
    StartScores,    \* bound: ATS scores of the resumes that sessions start on
    MaxRows,        \* bound: rows of a session
    None

Kinds == {"technical", "behavioral"}

Tokens == {"um", "you", "know", "word", "mark"}     \* "mark": only punctuation

Span == [start : Nat, end : Nat]
\* WordTimestamp: "end >= start".
Word == {w \in [token : Tokens, start : Nat, end : Nat] : w.start <= w.end}
Take == [words : Seq(Word), islands : Seq(Span), length : Nat]

ASSUME SignalsAssumption ==
    /\ Takes \subseteq Take
    /\ Marks \subseteq 0 .. 5
    /\ Plans \subseteq Seq(Kinds) \ {<<>>}
    /\ Skills \subseteq Nat /\ WordCounts \subseteq Nat /\ StartScores \subseteq 0 .. Full
    /\ MaxLines \in Nat /\ MaxRows \in Nat

ASSUME NoneAssumption == None \notin Takes /\ None \notin Nat

VARIABLES
    current,    \* section that the resume's next line belongs to
    bodies,     \* section -> number of its lines that are not blank
    read,       \* lines of text read so far, headers included
    ats,        \* resumes.ats_score, or None until it is parsed
    rows,       \* answers of the session
    missing,    \* signals named by the last IncompleteSignalsError
    composite   \* scores.composite_score, or None

vars == <<current, bodies, read, ats, rows, missing, composite>>

-----------------------------------------------------------------------------
(* ml/resume: sections of the text and points for them. *)

SectionPoints ==
    [experience |-> 200, education |-> 150, skills |-> 150, summary |-> 50, projects |-> 50]

\* _SECTION_HEADERS maps every known header to one of these.
Sections == DOMAIN SectionPoints \cup {"certifications", "awards", "publications", "languages"}

\* A short line that is the header of a section, any other line of text, or a
\* blank one.
Lines == Sections \cup {"text", "blank"}

SectionTotal(found) == SumFunctionOnSet(SectionPoints, found \cap DOMAIN SectionPoints)

ContactPoints(email, phone) == (IF email THEN 50 ELSE 0) + (IF phone THEN 50 ELSE 0)

SkillPoints(skills) == (200 * Lower(skills, 8)) \div 8

LengthPoints(words) ==
    IF words < 80 THEN (100 * words) \div 80
    ELSE 100 - (50 * Lower(Positive(words - 900), 500)) \div 500

\* score_resume, with its last clamp.
Ats(found, skills, email, phone, words) ==
    Lower(Full, SectionTotal(found) + ContactPoints(email, phone)
                  + SkillPoints(skills) + LengthPoints(words))

-----------------------------------------------------------------------------
(* ml/speech: two estimates of the fluency of one take. *)

MinPause == 2
MaxBurst == 3

\* sorted(..., key=start), of the spans with a kept index: stable.
Before(spans, i, j) == \/ spans[i].start < spans[j].start
                       \/ spans[i].start = spans[j].start /\ i < j

Rank(spans, kept, i) == Cardinality({j \in kept : Before(spans, j, i)})

ByStart(spans, kept) ==
    [k \in 1 .. Cardinality(kept) |->
       spans[CHOOSE i \in kept : Rank(spans, kept, i) = k - 1]]

\* Gaps between neighbours of a sorted list that are long enough to be pauses.
GapAfter(spans, i) == spans[i + 1].start - spans[i].end
Pauses(spans) == {i \in 1 .. Len(spans) - 1 : GapAfter(spans, i) >= MinPause}
PauseTicks(spans) ==
    SumFunctionOnSet([i \in 1 .. Len(spans) - 1 |-> GapAfter(spans, i)], Pauses(spans))

\* segment_speech drops empty islands; pauses_between_segments lists the gaps.
Voiced(take) == {i \in DOMAIN take.islands : take.islands[i].end > take.islands[i].start}

\* Mutant of VadPauses: a gap of exactly the floor is not a pause here.
VadPausesAbove(take) ==
    LET ordered == ByStart(take.islands, Voiced(take))
    IN  {[start |-> ordered[i].end, end |-> ordered[i + 1].start] :
           i \in {j \in 1 .. Len(ordered) - 1 : GapAfter(ordered, j) > MinPause}}

VadPauses(take) ==
    LET ordered == ByStart(take.islands, Voiced(take))
    IN  {[start |-> ordered[i].end, end |-> ordered[i + 1].start] :
           i \in {j \in 1 .. Len(ordered) - 1 : GapAfter(ordered, j) >= MinPause}}

\* count_fillers: "you know" is one filler; tokens that are empty once stripped
\* do not stand between the two.
Fillers(words) ==
    LET tokens == {i \in DOMAIN words : words[i].token # "mark"}
        Hedge(i, j) == /\ words[i].token = "you" /\ words[j].token = "know"
                       /\ tokens \cap i .. j = {i, j} /\ i < j
    IN  Cardinality({i \in tokens : words[i].token = "um" \/ \E j \in tokens : Hedge(i, j)})

\* count_acoustic_fillers: short bursts of voice that no word explains.
Bursts(take) ==
    Cardinality({i \in Voiced(take) :
        LET island == take.islands[i]
        IN  /\ island.end - island.start <= MaxBurst
            /\ \A w \in Range(take.words) : ~(w.end > island.start /\ w.start < island.end)})

\* compute_fluency: the three measures that are scored, none of them undefined.
Fluency(words, total, pauses, fillers) ==
    [rate |-> IF total > 0 THEN (600 * words) \div total ELSE 0,
     pause |-> IF total > 0 THEN (1000 * pauses) \div total ELSE 0,
     filler |-> IF words > 0 THEN (1000 * fillers) \div words ELSE 0]

\* fluency_from_word_timestamps, by the clock of the WAV.
TranscriptArm(take) ==
    LET words == ByStart(take.words, DOMAIN take.words)
    IN  Fluency(Len(words), take.length, PauseTicks(words), Fillers(words))

\* fluency_from_vad
AcousticArm(take) ==
    LET islands == ByStart(take.islands, Voiced(take))
    IN  Fluency(Len(take.words), take.length, PauseTicks(islands), Bursts(take))

-----------------------------------------------------------------------------
(* ml/scoring: fluency, marks and ATS on one scale, and their weighting. *)

\* score_speech_metrics: stored metrics always hold both arms.
TakeScore ==
    [take \in Takes |-> (ArmScore(TranscriptArm(take)) + ArmScore(AcousticArm(take))) \div 2]

\* mean_communication and _mean_kind_score: what is not measured is left out,
\* a measured zero is not.
Communication(answers) ==
    LET spoken == {i \in DOMAIN answers : answers[i].take # None}
    IN  IF spoken = {} THEN None
        ELSE SumFunctionOnSet([i \in spoken |-> TakeScore[answers[i].take]], spoken)
               \div Cardinality(spoken)

\* Mutant of KindMean: a mark of zero counts as none.
KindMeanOfMarks(answers, kind) ==
    LET judged == {i \in DOMAIN answers : answers[i].kind = kind /\ answers[i].mark \in 1 .. 5}
    IN  IF judged = {} THEN None
        ELSE (Full * SumFunctionOnSet([i \in judged |-> answers[i].mark], judged))
               \div (5 * Cardinality(judged))

KindMean(answers, kind) ==
    LET judged == {i \in DOMAIN answers : answers[i].kind = kind /\ answers[i].mark # None}
    IN  IF judged = {} THEN None
        ELSE (Full * SumFunctionOnSet([i \in judged |-> answers[i].mark], judged))
               \div (5 * Cardinality(judged))

Measured(answers) ==
    [resume |-> ats,
     technical |-> KindMean(answers, "technical"),
     communication |-> Communication(answers),
     behavioral |-> KindMean(answers, "behavioral")]

Unmeasured(signals) == {n \in Names : signals[n] = None}

-----------------------------------------------------------------------------
NewRow(kind, followUp) == [kind |-> kind, followUp |-> followUp, take |-> None, mark |-> None]

\* answer_text is the transcript, which is blank when no word was heard.
FullyAnswered(row) == row.take # None /\ row.take.words # <<>> /\ row.mark # None

Init ==
    /\ current = "header"
    /\ bodies = [s \in Sections \cup {"header"} |-> 0]
    /\ read = <<>>
    /\ ats = None
    /\ rows = <<>>
    /\ missing = {} /\ composite = None

\* Mutant of ReadLine: a header that comes again empties its section.
ReadLineAfresh(line) ==
    /\ ats = None /\ Len(read) < MaxLines
    /\ read' = Append(read, line)
    /\ \/ line \in Sections /\ current' = line /\ bodies' = [bodies EXCEPT ![line] = 0]
       \/ line = "text" /\ bodies' = [bodies EXCEPT ![current] = @ + 1] /\ UNCHANGED current
       \/ line = "blank" /\ UNCHANGED <<current, bodies>>
    /\ UNCHANGED <<ats, rows, missing, composite>>

\* One turn of the loop in split_into_sections.
ReadLine(line) ==
    /\ ats = None /\ Len(read) < MaxLines
    /\ read' = Append(read, line)
    /\ \/ line \in Sections /\ current' = line /\ UNCHANGED bodies
       \/ line = "text" /\ bodies' = [bodies EXCEPT ![current] = @ + 1] /\ UNCHANGED current
       \/ line = "blank" /\ UNCHANGED <<current, bodies>>
    /\ UNCHANGED <<ats, rows, missing, composite>>

\* The rest of run_resume_pipeline: sections without text are dropped, and a file
\* without any is refused.
ScoreResume ==
    /\ ats = None
    /\ \E skills \in Skills, email, phone \in BOOLEAN, words \in WordCounts :
          LET written == Cardinality({i \in DOMAIN read : read[i] # "blank"})
          IN  /\ written > 0 /\ words >= written
              /\ ats' = Ats({s \in Sections : bodies[s] > 0}, skills, email, phone, words)
    /\ read' = <<>> /\ current' = "header"    \* the job's locals are gone
    /\ bodies' = [s \in DOMAIN bodies |-> 0]
    /\ UNCHANGED <<rows, missing, composite>>

\* A session starts on a parsed resume; its rows are as generated.
Start(plan) ==
    /\ ats \in StartScores /\ rows = <<>>
    /\ rows' = [i \in DOMAIN plan |-> NewRow(plan[i], FALSE)]
    /\ UNCHANGED <<current, bodies, read, ats, missing, composite>>

\* An upload and its transcription; an answer that is judged takes no other.
Speak(i, take) ==
    /\ composite = None /\ rows[i].mark = None
    /\ rows' = [rows EXCEPT ![i].take = take]
    /\ UNCHANGED <<current, bodies, read, ats, missing, composite>>

\* _upsert_completed_score
Aggregate(answers) ==
    LET signals == Measured(answers)
    IN  IF Unmeasured(signals) = {}
        THEN composite' = Composite(signals) /\ missing' = {}
        ELSE missing' = Unmeasured(signals) /\ UNCHANGED composite

\* interview_evaluate: a weak answer is probed, any other may close the session.
Judge(i, mark) ==
    /\ rows[i].take # None /\ rows[i].take.words # <<>> /\ rows[i].mark = None
    /\ LET judged == [rows EXCEPT ![i].mark = mark]
       IN  IF mark <= 2 /\ ~rows[i].followUp
           THEN /\ Len(rows) < MaxRows
                /\ \E kind \in Kinds : rows' = Append(judged, NewRow(kind, TRUE))
                /\ UNCHANGED <<missing, composite>>
           ELSE /\ rows' = judged
                /\ IF \A r \in Range(judged) : FullyAnswered(r)
                   THEN Aggregate(judged)
                   ELSE UNCHANGED <<missing, composite>>
    /\ UNCHANGED <<current, bodies, read, ats>>

Next ==
    \/ \E line \in Lines : ReadLine(line)
    \/ ScoreResume
    \/ \E plan \in Plans : Start(plan)
    \/ \E i \in DOMAIN rows, take \in Takes : Speak(i, take)
    \/ \E i \in DOMAIN rows, mark \in Marks : Judge(i, mark)

Spec == Init /\ [][Next]_vars

-----------------------------------------------------------------------------
\* The section a line belongs to: that of the last header above it.
SectionOf(lines, i) ==
    LET headers == {h \in 1 .. i - 1 : lines[h] \in Sections}
    IN  IF headers = {} THEN "header" ELSE lines[CHOOSE h \in headers : \A g \in headers : g <= h]

Row == [kind : Kinds, followUp : BOOLEAN, take : Takes \cup {None}, mark : Marks \cup {None}]

\* The inductive part of the proofs: the header that is current is the last one
\* read, rows wait for a parsed resume, and a stored composite is what
\* aggregate_session makes of the rows as they stand now, so nothing that is said
\* or judged after it was computed changes what it was computed from.
SignalsInv ==
    /\ read \in Seq(Lines) /\ current = SectionOf(read, Len(read) + 1)
    /\ DOMAIN bodies = Sections \cup {"header"}
    /\ ats \in 0 .. Full \cup {None}
    /\ rows \in Seq(Row) /\ (rows # <<>> => ats # None)
    /\ composite # None =>
         /\ rows # <<>> /\ \A r \in Range(rows) : FullyAnswered(r)
         /\ Unmeasured(Measured(rows)) = {}
         /\ composite = Composite(Measured(rows))

\* The lines of text that belong to a section.
Filed(lines, s) == {i \in DOMAIN lines : lines[i] = "text" /\ SectionOf(lines, i) = s}

\* No line of a resume is lost or filed twice, however often its headers come
\* (ml/resume/parse.py:109).
SectionsHoldTheirLines ==
    \A s \in DOMAIN bodies : bodies[s] = Cardinality(Filed(read, s))

\* The pauses shown from Silero and those its fluency is computed from follow one
\* rule written twice (vad.py:68, fluency.py:150), and neither arm pauses for
\* longer than the span it was heard over, also when words overlap.
PausesOf(take) ==
    LET words == ByStart(take.words, DOMAIN take.words)
        islands == ByStart(take.islands, Voiced(take))
    IN  /\ VadPauses(take) = {[start |-> islands[i].end, end |-> islands[i + 1].start] : i \in Pauses(islands)}
        /\ \A spans \in {words, islands} :
              spans # <<>> => PauseTicks(spans) <= spans[Len(spans)].start - spans[1].start

PausesAgree == \A r \in Range(rows) : r.take # None => PausesOf(r.take)

\* A session whose rows are all answered and judged is refused a score only for a
\* kind that none of its questions has, which is what Interview calls Scorable:
\* zeros are measured, and no fully answered row lacks a measure.
RefusedForKindsOnly ==
    missing = IF composite # None \/ rows = <<>> \/ ~\A r \in Range(rows) : FullyAnswered(r)
              THEN {}
              ELSE Kinds \ {r.kind : r \in Range(rows)}

\* A composite lies between its weakest and its strongest signal, for whatever
\* weights are configured.
CompositeIsBetween ==
    composite # None =>
      LET values == Range(Measured(rows))
      IN  /\ values \subseteq 0 .. Full
          /\ (\E v \in values : v <= composite) /\ (\E v \in values : v >= composite)

\* A better mark on any one answer never lowers the composite.
BetterNeverLower ==
    composite # None =>
      \A i \in DOMAIN rows : rows[i].mark < 5 =>
        Composite(Measured([rows EXCEPT ![i].mark = @ + 1])) >= composite
=============================================================================
