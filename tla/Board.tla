--------------------------------- MODULE Board ---------------------------------
(***************************************************************************)
(* Postings, the sessions started on them and everybody who reads their    *)
(* scores: the candidate's history and score, the recruiter's ranking and  *)
(* report, the administrators' audit lists.  Handlers read first and write *)
(* in a later step; screens and printed reports stay as they were read.    *)
(*                                                                         *)
(* How a session is generated, answered and judged is Interview; here it is*)
(* opened, scored once, or abandoned.  A recruiter is named by the users   *)
(* row, administrators are recruiters (admin.patch_user).                  *)
(***************************************************************************)
EXTENDS Naturals, FiniteSets

CONSTANTS
    Candidates, Recruiters, Admins,
    Postings,
    Owner,          \* jobs.recruiter_id
    Practice,       \* the posting of a session that has none
    Sessions,
    Composites      \* composite scores, in the order of the numbers

ASSUME BoardAssumption ==
    /\ Candidates \cap Recruiters = {} /\ Admins \subseteq Recruiters
    /\ Owner \in [Postings -> Recruiters] /\ Practice \notin Postings \cup Candidates
    /\ IsFiniteSet(Sessions) /\ Composites \subseteq Nat \ {0}

VARIABLES
    posting,    \* jobs row: "none", or is_active
    session,    \* interview_sessions row and its scores row
    starting,   \* what each candidate's POST /interviews has read
    patching,   \* what each recruiter's PATCH has read and answered
    screen,     \* the ranking each recruiter looks at
    printing,   \* the scores rows that reports in the making have read
    printed     \* <storage_root>/reports, one composite for each file

rows == <<posting, session>>

boardVars == <<rows, starting, patching, screen, printing, printed>>

Users == Candidates \cup Recruiters

\* A sessions row; `job` is where its generate job is, `router` whether
\* POST /interviews still waits for Redis.  composite and finished are 0 for
\* NULL.
NoSession == [by |-> Practice, posting |-> Practice, status |-> "none", composite |-> 0,
              finished |-> 0, job |-> "queued", router |-> "answered"]

Exists(s) == session[s].status # "none"

NotStarting == [at |-> "idle", posting |-> Practice]

NotPatching == [at |-> "idle", posting |-> Practice, loaded |-> "none", wanted |-> "none",
                raced |-> FALSE]

Init ==
    /\ posting = [p \in Postings |-> "none"]
    /\ session = [s \in Sessions |-> NoSession]
    /\ starting = [c \in Candidates |-> NotStarting]
    /\ patching = [u \in Recruiters |-> NotPatching]
    /\ screen = [u \in Recruiters |-> {}]
    /\ printing = {}
    /\ printed = [s \in Sessions |-> 0]

-----------------------------------------------------------------------------
(***************************************************************************)
(* Who may read what.                                                      *)
(***************************************************************************)

\* session_visible_to
VisibleTo(s, u) ==
    /\ Exists(s)
    /\ \/ u \in Candidates /\ session[s].by = u
       \/ u \in Recruiters /\ session[s].posting \in Postings /\ Owner[session[s].posting] = u

\* load_score_for_user and load_report_session
Readable(s, u) == VisibleTo(s, u) /\ session[s].composite # 0

\* rank_posting_sessions
Ranked(p) ==
    {s \in Sessions : /\ session[s].posting = p
                      /\ session[s].status = "completed"
                      /\ session[s].composite # 0}

\* Composite first, then completed_at.
Before(s, t) ==
    \/ session[s].composite > session[t].composite
    \/ session[s].composite = session[t].composite /\ session[s].finished < session[t].finished

RankIn(S, s) == 1 + Cardinality({t \in S : Before(t, s)})

RankingOf(p) ==
    {[session |-> s, rank |-> RankIn(Ranked(p), s), composite |-> session[s].composite] :
        s \in Ranked(p)}

\* GET /interviews: the composite next to each of the caller's sessions, or 0.
History(c) ==
    {<<s, session[s].composite>> : s \in {t \in Sessions : Exists(t) /\ session[t].by = c}}

\* GET /admin/sessions and GET /admin/scores
AuditedSessions == {<<s, session[s].composite>> : s \in {t \in Sessions : Exists(t)}}

AuditedScores == {s \in Sessions : Exists(s) /\ session[s].composite # 0}

-----------------------------------------------------------------------------
(***************************************************************************)
(* Postings.                                                               *)
(***************************************************************************)

\* The row is committed before posting_embed is enqueued; an enqueue that
\* fails leaves it.
CreatePosting(p, active) ==
    /\ posting[p] = "none"
    /\ posting' = [posting EXCEPT ![p] = active]
    /\ UNCHANGED <<session, starting, patching, screen, printing, printed>>

\* The owner's PATCH /postings/{id} or an administrator's.
PatchRead(u, p, active) ==
    /\ patching[u].at = "idle"
    /\ posting[p] # "none" /\ (Owner[p] = u \/ u \in Admins)
    /\ patching' = [patching EXCEPT ![u] =
          [at |-> "loaded", posting |-> p, loaded |-> posting[p], wanted |-> active,
           raced |-> FALSE]]
    /\ UNCHANGED <<rows, starting, screen, printing, printed>>

Written(u) == [at |-> "written", posting |-> patching[u].posting, loaded |-> "none",
               wanted |-> patching[u].wanted, raced |-> patching[u].raced]

\* p changes in the middle of the other patches that read it.
Races(p, u) ==
    patching' = [v \in Recruiters |->
        IF v = u THEN Written(u)
        ELSE IF patching[v].at \in {"loaded", "written"} /\ patching[v].posting = p
        THEN [patching[v] EXCEPT !.raced = TRUE]
        ELSE patching[v]]

\* Mutant of PatchCommit: the flag is flipped, whatever the body says.
PatchToggles(u) ==
    LET p == patching[u].posting IN
    /\ patching[u].at = "loaded"
    /\ posting' = [posting EXCEPT ![p] = IF patching[u].loaded = "open" THEN "closed" ELSE "open"]
    /\ Races(p, u)
    /\ UNCHANGED <<session, starting, screen, printing, printed>>

\* The ORM updates only a flag that differs from the one it loaded.
PatchCommit(u) ==
    LET p == patching[u].posting IN
    /\ patching[u].at = "loaded"
    /\ IF patching[u].wanted # patching[u].loaded
       THEN posting' = [posting EXCEPT ![p] = patching[u].wanted] /\ Races(p, u)
       ELSE patching' = [patching EXCEPT ![u] = Written(u)] /\ UNCHANGED posting
    /\ UNCHANGED <<session, starting, screen, printing, printed>>

\* session.refresh: the answer shows the row as it is now.
PatchAnswer(u) ==
    /\ patching[u].at = "written"
    /\ patching' = [patching EXCEPT ![u] = NotPatching]
    /\ UNCHANGED <<rows, starting, screen, printing, printed>>

-----------------------------------------------------------------------------
(***************************************************************************)
(* Sessions.                                                               *)
(***************************************************************************)

\* _resolve_optional_posting
StartRead(c, p) ==
    /\ starting[c].at = "idle"
    /\ p # Practice => posting[p] = "open"
    /\ starting' = [starting EXCEPT ![c] = [at |-> "read", posting |-> p]]
    /\ UNCHANGED <<rows, patching, screen, printing, printed>>

\* The row is inserted and the handler waits for Redis.
StartCommit(c, s) ==
    /\ starting[c].at = "read" /\ ~Exists(s)
    /\ session' = [session EXCEPT ![s] =
          [by |-> c, posting |-> starting[c].posting, status |-> "scheduled", composite |-> 0,
           finished |-> 0, job |-> "queued", router |-> "waiting"]]
    /\ starting' = [starting EXCEPT ![c] = NotStarting]
    /\ UNCHANGED <<posting, patching, screen, printing, printed>>

\* A step of session s and of nothing else.
Turns(s, row) ==
    /\ session' = [session EXCEPT ![s] = row]
    /\ UNCHANGED <<posting, starting, patching, screen, printing, printed>>

Row(s, status, job, router) ==
    [by |-> session[s].by, posting |-> session[s].posting, status |-> status,
     composite |-> session[s].composite, finished |-> session[s].finished,
     job |-> job, router |-> router]

Answered(s) ==
    /\ session[s].router = "waiting"
    /\ Turns(s, Row(s, session[s].status, session[s].job, "answered"))

\* EnqueueFailedError, perhaps after Redis took the job: abandoned, whatever
\* the worker has made of the session in the meantime.
Refused(s) ==
    /\ session[s].router = "waiting"
    /\ Turns(s, Row(s, "abandoned", session[s].job, "answered"))

\* interview_generate opens the session, or abandons it.
Generate(s) ==
    /\ Exists(s) /\ session[s].job = "queued"
    /\ \/ Turns(s, Row(s, "in_progress", "open", session[s].router))
       \/ Turns(s, Row(s, "abandoned", "failed", session[s].router))

\* completed_at is the worker's clock, which need not follow the commits.
Stamps == 1..Cardinality(Sessions) \ {session[s].finished : s \in Sessions}

Scored(s, composite, at) ==
    [by |-> session[s].by, posting |-> session[s].posting, status |-> "completed",
     composite |-> composite, finished |-> at,
     job |-> session[s].job, router |-> session[s].router]

\* Mutant of Complete: a late evaluate aggregates once more.
CompleteAgain(s, composite, at) ==
    /\ session[s].job = "open" /\ at \in Stamps
    /\ Turns(s, Scored(s, composite, at))

\* The last interview_evaluate; Interview shows that there is one.
Complete(s, composite, at) ==
    /\ session[s].job = "open" /\ session[s].composite = 0 /\ at \in Stamps
    /\ Turns(s, Scored(s, composite, at))

-----------------------------------------------------------------------------
(***************************************************************************)
(* Readers.                                                                *)
(***************************************************************************)
ReadRanking(u, p) ==
    /\ posting[p] # "none" /\ Owner[p] = u
    /\ screen' = [screen EXCEPT ![u] = RankingOf(p)]
    /\ UNCHANGED <<rows, starting, patching, printing, printed>>

\* GET /reports/{id}: the row is read, the PDF is rendered in a thread and
\* the file written after it.
PrintRead(u, s) ==
    /\ Readable(s, u)
    /\ printing' = printing \cup {[session |-> s, composite |-> session[s].composite]}
    /\ UNCHANGED <<rows, starting, patching, screen, printed>>

PrintWrite(e) ==
    /\ e \in printing
    /\ printed' = [printed EXCEPT ![e.session] = e.composite]
    /\ printing' = printing \ {e}
    /\ UNCHANGED <<rows, starting, patching, screen>>

\* 503: the renderer is missing or fails.
PrintFails(e) ==
    /\ e \in printing
    /\ printing' = printing \ {e}
    /\ UNCHANGED <<rows, starting, patching, screen, printed>>

Next ==
    \/ \E p \in Postings, active \in {"open", "closed"} : CreatePosting(p, active)
    \/ \E u \in Recruiters, p \in Postings :
          \/ \E active \in {"open", "closed"} : PatchRead(u, p, active)
          \/ ReadRanking(u, p)
    \/ \E u \in Recruiters : PatchCommit(u) \/ PatchAnswer(u)
    \/ \E c \in Candidates :
          \/ \E p \in Postings \cup {Practice} : StartRead(c, p)
          \/ \E s \in Sessions : StartCommit(c, s)
    \/ \E s \in Sessions :
          \/ Answered(s) \/ Refused(s) \/ Generate(s)
          \/ \E composite \in Composites, at \in 1..Cardinality(Sessions) :
                Complete(s, composite, at)
    \/ \E u \in Users, s \in Sessions : PrintRead(u, s)
    \/ \E e \in printing : PrintWrite(e) \/ PrintFails(e)

Spec == Init /\ [][Next]_boardVars

-----------------------------------------------------------------------------
(***************************************************************************)
(* Properties.                                                             *)
(***************************************************************************)
PostingStates == {"open", "closed"}

TypeOK ==
    /\ posting \in [Postings -> PostingStates \cup {"none"}]
    /\ session \in [Sessions ->
          [by : Candidates \cup {Practice}, posting : Postings \cup {Practice},
           status : {"none", "scheduled", "in_progress", "completed", "abandoned"},
           composite : Composites \cup {0}, finished : 0..Cardinality(Sessions),
           job : {"queued", "open", "failed"}, router : {"waiting", "answered"}]]
    /\ starting \in [Candidates ->
          [at : {"idle", "read"}, posting : Postings \cup {Practice}]]
    /\ patching \in [Recruiters ->
          [at : {"idle", "loaded", "written"}, posting : Postings \cup {Practice},
           loaded : PostingStates \cup {"none"}, wanted : PostingStates \cup {"none"},
           raced : BOOLEAN]]
    /\ screen \in [Recruiters -> SUBSET [session : Sessions, rank : Nat, composite : Composites]]
    /\ printing \subseteq [session : Sessions, composite : Composites]
    /\ printed \in [Sessions -> Composites \cup {0}]

\* A PATCH that answers 200 with another flag than it was sent was overlapped by
\* another PATCH of the same posting: the ORM writes nothing when the flag it
\* loaded is the flag it is given, and the answer is read again after the
\* commit.
PatchTakesOrRaces ==
    \A u \in Recruiters :
        patching[u].at = "written" =>
            posting[patching[u].posting] = patching[u].wanted \/ patching[u].raced

\* What a recruiter's ranking shows stays true while it is on the screen, however
\* many sessions finish meanwhile and whichever worker clock stamped them: each
\* session keeps its composite and its order to the others, so a second look
\* never swaps two candidates (a score is stored once, with its completed_at).
RankingStaysTrue ==
    \A u \in Recruiters : \A e \in screen[u] :
        /\ session[e.session].composite = e.composite
        /\ \A f \in screen[u] : e.rank < f.rank <=> Before(e.session, f.session)

\* The report on disk shows the composite that is stored, whoever printed it
\* last and whatever happened to the session since ("attribution is frozen on
\* the Score row", pdf_report.py).
ReportsAreCurrent ==
    /\ \A s \in Sessions : printed[s] # 0 => printed[s] = session[s].composite
    /\ \A e \in printing : e.composite = session[e.session].composite

\* What a score rests on: a completed session has one, one stamp each.
ScoresHold ==
    /\ \A s \in Sessions :
          /\ session[s].job = "open" \/ session[s].router = "waiting" => Exists(s)
          /\ session[s].composite # 0 => session[s].job = "open" /\ session[s].finished # 0
          /\ Exists(s) => session[s].by \in Candidates
    /\ \A s, t \in Sessions :
          session[s].finished = session[t].finished /\ session[s].finished # 0 => s = t

PatchesHold ==
    \A u \in Recruiters :
        /\ patching[u].at # "idle" => /\ patching[u].posting \in Postings
                                     /\ posting[patching[u].posting] \in PostingStates
                                     /\ patching[u].wanted \in PostingStates
        /\ patching[u].at = "loaded" =>
              posting[patching[u].posting] = patching[u].loaded \/ patching[u].raced

BoardInv ==
    /\ TypeOK /\ ScoresHold /\ PatchesHold
    /\ PatchTakesOrRaces /\ RankingStaysTrue /\ ReportsAreCurrent

=============================================================================
