------------------------------ MODULE BoardProofs ------------------------------
(***************************************************************************)
(* The theorems of Board: the composite that is read from the scores row   *)
(* of a session stays true, and a PATCH is only ever misled by another one *)
(* that overlaps it.                                                       *)
(***************************************************************************)
EXTENDS Board, FiniteSetTheorems, TLAPS

LEMMA SessionsCount == BoardAssumption => Cardinality(Sessions) \in Nat
BY FS_CardinalityType DEF BoardAssumption

LEMMA InitEstablishes == BoardAssumption /\ Init => BoardInv
<1> SUFFICES ASSUME BoardAssumption, Init PROVE BoardInv
  OBVIOUS
<1>1. TypeOK
  BY SessionsCount DEF Init, TypeOK, NoSession, NotStarting, NotPatching
<1>2. ScoresHold /\ PatchesHold
  BY DEF Init, ScoresHold, PatchesHold, NoSession, NotPatching, Exists
<1>3. PatchTakesOrRaces /\ RankingStaysTrue /\ ReportsAreCurrent
  BY DEF Init, PatchTakesOrRaces, RankingStaysTrue, ReportsAreCurrent, NotPatching
<1> QED
  BY <1>1, <1>2, <1>3 DEF BoardInv

-----------------------------------------------------------------------------
(***************************************************************************)
(* The sessions.  A step changes at most one of them, in one of five ways. *)
(***************************************************************************)
SessionRow == [by : Candidates \cup {Practice}, posting : Postings \cup {Practice},
               status : {"none", "scheduled", "in_progress", "completed", "abandoned"},
               composite : Composites \cup {0}, finished : 0..Cardinality(Sessions),
               job : {"queued", "open", "failed"}, router : {"waiting", "answered"}]

\* Session s becomes row, by a new request, by its router, by its generate
\* job or by its last evaluate.
Moves(s, row) ==
    /\ s \in Sessions /\ row \in SessionRow
    /\ row.status # "none" /\ row.by \in Candidates
    /\ \/ ~Exists(s) /\ row.composite = 0 /\ row.finished = 0 /\ row.job = "queued"
       \/ /\ Exists(s) /\ row.by = session[s].by /\ row.posting = session[s].posting
          /\ row.composite = session[s].composite /\ row.finished = session[s].finished
          /\ row.job = session[s].job \/ session[s].job = "queued"
       \/ /\ Exists(s) /\ row.by = session[s].by /\ row.posting = session[s].posting
          /\ session[s].composite = 0 /\ row.composite # 0 /\ row.job = "open"
          /\ row.finished # 0
          /\ \A t \in Sessions : session[t].finished # row.finished

LEMMA SessionsMove ==
    ASSUME BoardAssumption, BoardInv, Next
    PROVE  \/ session' = session
           \/ \E s \in Sessions, row \in SessionRow :
                 Moves(s, row) /\ session' = [session EXCEPT ![s] = row]
<1>0. Cardinality(Sessions) \in Nat /\ session \in [Sessions -> SessionRow]
  BY SessionsCount DEF BoardInv, TypeOK, SessionRow
<1>1. ASSUME NEW c \in Candidates, NEW s \in Sessions, StartCommit(c, s)
      PROVE  \E row \in SessionRow : Moves(s, row) /\ session' = [session EXCEPT ![s] = row]
  <2> DEFINE row == [by |-> c, posting |-> starting[c].posting, status |-> "scheduled",
                     composite |-> 0, finished |-> 0, job |-> "queued", router |-> "waiting"]
  <2>1. starting[c].posting \in Postings \cup {Practice}
    BY DEF BoardInv, TypeOK
  <2>2. row \in SessionRow
    BY <1>0, <2>1 DEF SessionRow
  <2>3. Moves(s, row)
    BY <1>1, <2>2 DEF Moves, StartCommit
  <2> QED
    BY <1>1, <2>2, <2>3 DEF StartCommit
<1>2. ASSUME NEW s \in Sessions, Exists(s),
             NEW st \in {"scheduled", "in_progress", "completed", "abandoned"},
             NEW jb \in {"queued", "open", "failed"}, NEW ro \in {"waiting", "answered"},
             jb = session[s].job \/ session[s].job = "queued", Turns(s, Row(s, st, jb, ro))
      PROVE  \E row \in SessionRow : Moves(s, row) /\ session' = [session EXCEPT ![s] = row]
  <2>1. Row(s, st, jb, ro) \in SessionRow
    BY <1>0 DEF Row, SessionRow
  <2>2. session[s].by \in Candidates
    BY <1>2 DEF BoardInv, ScoresHold
  <2>3. Moves(s, Row(s, st, jb, ro))
    BY <1>2, <2>1, <2>2 DEF Moves, Row
  <2> QED
    BY <1>2, <2>1, <2>3 DEF Turns
<1>3. ASSUME NEW s \in Sessions, Answered(s) \/ Refused(s)
      PROVE  \E row \in SessionRow : Moves(s, row) /\ session' = [session EXCEPT ![s] = row]
  <2>1. session[s] \in SessionRow
    BY <1>0
  <2>2. Exists(s)
    BY <1>3 DEF BoardInv, ScoresHold, Exists, Answered, Refused
  <2> QED
    BY <1>2, <1>3, <2>1, <2>2 DEF Answered, Refused, SessionRow, Exists
<1>4. ASSUME NEW s \in Sessions, Generate(s)
      PROVE  \E row \in SessionRow : Moves(s, row) /\ session' = [session EXCEPT ![s] = row]
  <2>1. session[s] \in SessionRow
    BY <1>0
  <2> QED
    BY <1>2, <1>4, <2>1 DEF Generate, SessionRow
<1>5. ASSUME NEW s \in Sessions, NEW n \in Composites, NEW at \in 1..Cardinality(Sessions),
             Complete(s, n, at)
      PROVE  \E row \in SessionRow : Moves(s, row) /\ session' = [session EXCEPT ![s] = row]
  <2>1. session[s] \in SessionRow /\ Exists(s)
    BY <1>0, <1>5 DEF BoardInv, ScoresHold, Complete
  <2>2. n # 0 /\ at \in 0..Cardinality(Sessions) /\ at # 0
    BY <1>0 DEF BoardAssumption
  <2>3. Scored(s, n, at) \in SessionRow
    BY <1>5, <2>1, <2>2 DEF Scored, SessionRow, Complete
  <2>4. session[s].by \in Candidates
    BY <2>1 DEF BoardInv, ScoresHold
  <2>5. \A t \in Sessions : session[t].finished # at
    BY <1>5 DEF Complete, Stamps
  <2>6. Moves(s, Scored(s, n, at))
    BY <1>5, <2>1, <2>2, <2>3, <2>4, <2>5 DEF Moves, Scored, Complete
  <2> QED
    BY <1>5, <2>3, <2>6 DEF Complete, Turns
<1> QED
  BY <1>1, <1>3, <1>4, <1>5
     DEF Next, rows, CreatePosting, PatchRead, ReadRanking, PatchCommit, PatchAnswer, StartRead,
         PrintRead, PrintWrite, PrintFails

\* What a scored session keeps.
Frozen ==
    \A s \in Sessions : session[s].composite # 0 =>
        /\ Exists(s)' /\ session'[s].by = session[s].by
        /\ session'[s].posting = session[s].posting
        /\ session'[s].composite = session[s].composite
        /\ session'[s].finished = session[s].finished

LEMMA ScoresFrozen ==
    ASSUME BoardAssumption, BoardInv, Next
    PROVE  Frozen /\ ScoresHold' /\ session' \in [Sessions -> SessionRow]
<1>0. session \in [Sessions -> SessionRow] /\ ScoresHold
  BY DEF BoardInv, TypeOK, SessionRow
<1>1. CASE session' = session
  BY <1>0, <1>1 DEF Frozen, ScoresHold, Exists
<1>2. ASSUME NEW s \in Sessions, NEW row \in SessionRow, Moves(s, row),
             session' = [session EXCEPT ![s] = row]
      PROVE  Frozen /\ ScoresHold' /\ session' \in [Sessions -> SessionRow]
  <2>1. session' \in [Sessions -> SessionRow]
    BY <1>0, <1>2
  <2>2. session'[s] = row /\ \A t \in Sessions \ {s} : session'[t] = session[t]
    BY <1>0, <1>2
  <2>3. Frozen
    BY <1>0, <1>2, <2>2 DEF Frozen, Moves, ScoresHold, Exists
  <2>4. ASSUME NEW t \in Sessions
        PROVE  /\ session'[t].job = "open" \/ session'[t].router = "waiting" => Exists(t)'
               /\ session'[t].composite # 0 =>
                     session'[t].job = "open" /\ session'[t].finished # 0
               /\ Exists(t)' => session'[t].by \in Candidates
    BY <1>0, <1>2, <2>2 DEF Moves, ScoresHold, Exists
  <2>5. ASSUME NEW t \in Sessions, NEW v \in Sessions,
               session'[t].finished = session'[v].finished, session'[t].finished # 0
        PROVE  t = v
    BY <1>0, <1>2, <2>2, <2>5 DEF Moves, ScoresHold
  <2> QED
    BY <2>1, <2>3, <2>4, <2>5 DEF ScoresHold
<1> QED
  BY <1>1, <1>2, SessionsMove

-----------------------------------------------------------------------------
(***************************************************************************)
(* The postings and the requests that have read them.                      *)
(***************************************************************************)
PatchState == [at : {"idle", "loaded", "written"}, posting : Postings \cup {Practice},
               loaded : PostingStates \cup {"none"}, wanted : PostingStates \cup {"none"},
               raced : BOOLEAN]

StartState == [at : {"idle", "read"}, posting : Postings \cup {Practice}]

PostingsTyped ==
    /\ posting \in [Postings -> PostingStates \cup {"none"}]
    /\ starting \in [Candidates -> StartState]
    /\ patching \in [Recruiters -> PatchState]

PostingsHold == PostingsTyped /\ PatchesHold /\ PatchTakesOrRaces

LEMMA PatchCommitHolds ==
    ASSUME BoardAssumption, PostingsHold, NEW u \in Recruiters, PatchCommit(u)
    PROVE  PostingsHold'
<1> DEFINE p == patching[u].posting
           w == patching[u].wanted
<1>1. patching[u] \in PatchState /\ patching[u].at = "loaded"
  BY DEF PostingsHold, PostingsTyped, PatchCommit
<1>2. p \in Postings /\ w \in PostingStates /\ p # Practice
  BY <1>1 DEF PostingsHold, PatchesHold, BoardAssumption
<1>3. Written(u) \in PatchState /\ Written(u).at = "written" /\ Written(u).posting = p
      /\ Written(u).wanted = w /\ Written(u).raced = patching[u].raced
  BY <1>1 DEF Written, PatchState
<1>4. CASE w # patching[u].loaded
  <2>1. posting' = [posting EXCEPT ![p] = w] /\ Races(p, u)
    BY <1>4 DEF PatchCommit
  <2>2. posting' \in [Postings -> PostingStates \cup {"none"}] /\ posting'[p] = w
        /\ \A q \in Postings \ {p} : posting'[q] = posting[q]
    BY <1>2, <2>1 DEF PostingsHold, PostingsTyped
  <2>3. ASSUME NEW v \in Recruiters
        PROVE  /\ patching'[v] \in PatchState
               /\ v = u => patching'[v] = Written(u)
               /\ v # u => /\ patching'[v].at = patching[v].at
                           /\ patching'[v].posting = patching[v].posting
                           /\ patching'[v].wanted = patching[v].wanted
                           /\ patching'[v].loaded = patching[v].loaded
                           /\ patching[v].raced => patching'[v].raced
                           /\ patching[v].at # "idle" /\ patching[v].posting = p
                                => patching'[v].raced
    <3>1. patching[v] \in PatchState
      BY DEF PostingsHold, PostingsTyped
    <3> QED
      BY <1>3, <2>1, <3>1 DEF Races, PatchState
  <2>5. patching' \in [Recruiters -> PatchState] /\ starting' \in [Candidates -> StartState]
    BY <2>1, <2>3 DEF Races, PatchCommit, PostingsHold, PostingsTyped
  <2>6. ASSUME NEW v \in Recruiters
        PROVE  /\ patching'[v].at # "idle" => /\ patching'[v].posting \in Postings
                                              /\ posting'[patching'[v].posting] \in PostingStates
                                              /\ patching'[v].wanted \in PostingStates
               /\ patching'[v].at = "loaded" =>
                     posting'[patching'[v].posting] = patching'[v].loaded \/ patching'[v].raced
               /\ patching'[v].at = "written" =>
                     posting'[patching'[v].posting] = patching'[v].wanted \/ patching'[v].raced
    BY <1>2, <1>3, <2>2, <2>3 DEF PostingsHold, PatchesHold, PatchTakesOrRaces
  <2> QED
    BY <2>2, <2>5, <2>6 DEF PostingsHold, PostingsTyped, PatchesHold, PatchTakesOrRaces
<1>5. CASE w = patching[u].loaded
  <2>1. UNCHANGED <<posting, starting>> /\ patching' = [patching EXCEPT ![u] = Written(u)]
    BY <1>5 DEF PatchCommit
  <2>2. posting[p] = w \/ patching[u].raced
    BY <1>1, <1>5 DEF PostingsHold, PatchesHold
  <2>3. posting[p] \in PostingStates
    BY <1>1 DEF PostingsHold, PatchesHold
  <2>4. patching'[u] = Written(u) /\ \A v \in Recruiters \ {u} : patching'[v] = patching[v]
    BY <2>1 DEF PostingsHold, PostingsTyped
  <2>5. PostingsTyped'
    BY <1>3, <2>1, <2>4 DEF PostingsHold, PostingsTyped
  <2>6. PatchesHold' /\ PatchTakesOrRaces'
    BY <1>2, <1>3, <2>1, <2>2, <2>3, <2>4 DEF PostingsHold, PatchesHold, PatchTakesOrRaces
  <2> QED
    BY <2>5, <2>6 DEF PostingsHold
<1> QED
  BY <1>4, <1>5

LEMMA PostingsStay ==
    ASSUME BoardAssumption, PostingsHold, Next
    PROVE  PostingsHold'
<1>1. ASSUME NEW p \in Postings, NEW active \in {"open", "closed"}, CreatePosting(p, active)
      PROVE  PostingsHold'
  <2>1. posting' \in [Postings -> PostingStates \cup {"none"}]
        /\ \A q \in Postings \ {p} : posting'[q] = posting[q]
    BY <1>1 DEF PostingsHold, PostingsTyped, PostingStates, CreatePosting
  <2>2. \A v \in Recruiters : patching[v].at # "idle" => patching[v].posting \in Postings \ {p}
    BY <1>1 DEF PostingsHold, PatchesHold, PostingStates, CreatePosting
  <2> QED
    BY <1>1, <2>1, <2>2
       DEF PostingsHold, PostingsTyped, PatchesHold, PatchTakesOrRaces, CreatePosting
<1>2. ASSUME NEW u \in Recruiters, NEW st \in PatchState, patching' = [patching EXCEPT ![u] = st],
             UNCHANGED <<posting, starting>>,
             \/ st.at = "idle"
             \/ /\ st.at = "loaded" /\ st.posting \in Postings /\ st.wanted \in PostingStates
                /\ posting[st.posting] \in PostingStates /\ st.loaded = posting[st.posting]
      PROVE  PostingsHold'
  <2>1. patching'[u] = st /\ \A v \in Recruiters \ {u} : patching'[v] = patching[v]
    BY <1>2 DEF PostingsHold, PostingsTyped
  <2>2. PostingsTyped'
    BY <1>2 DEF PostingsHold, PostingsTyped
  <2>3. PatchesHold' /\ PatchTakesOrRaces'
    BY <1>2, <2>1 DEF PostingsHold, PatchesHold, PatchTakesOrRaces
  <2> QED
    BY <2>2, <2>3 DEF PostingsHold
<1>3. ASSUME NEW u \in Recruiters, NEW p \in Postings, NEW active \in {"open", "closed"},
             PatchRead(u, p, active)
      PROVE  PostingsHold'
  <2> DEFINE st == [at |-> "loaded", posting |-> p, loaded |-> posting[p], wanted |-> active,
                    raced |-> FALSE]
  <2>1. posting[p] \in PostingStates
    BY <1>3 DEF PatchRead, PostingsHold, PostingsTyped
  <2>2. st \in PatchState
    BY <2>1 DEF PatchState, PostingStates
  <2>3. patching' = [patching EXCEPT ![u] = st] /\ UNCHANGED <<posting, starting>>
    BY <1>3 DEF PatchRead, rows
  <2> QED
    BY <1>2, <2>1, <2>2, <2>3 DEF PostingStates
<1>4. ASSUME NEW u \in Recruiters, PatchAnswer(u)
      PROVE  PostingsHold'
  <2>1. NotPatching \in PatchState /\ NotPatching.at = "idle"
    BY DEF NotPatching, PatchState
  <2> QED
    BY <1>2, <1>4, <2>1 DEF PatchAnswer, rows
<1>5. ASSUME NEW c \in Candidates, NEW st \in StartState, UNCHANGED <<posting, patching>>,
             starting' = [starting EXCEPT ![c] = st]
      PROVE  PostingsHold'
  BY <1>5 DEF PostingsHold, PostingsTyped, PatchesHold, PatchTakesOrRaces
<1>6. ASSUME NEW c \in Candidates, NEW p \in Postings \cup {Practice}, StartRead(c, p)
      PROVE  PostingsHold'
  <2> DEFINE st == [at |-> "read", posting |-> p]
  <2>1. st \in StartState
    BY DEF StartState
  <2> QED
    BY <1>5, <1>6, <2>1 DEF StartRead, rows
<1>7. ASSUME NEW c \in Candidates, NEW s \in Sessions, StartCommit(c, s)
      PROVE  PostingsHold'
  <2>1. NotStarting \in StartState /\ NotStarting.at = "idle"
    BY DEF NotStarting, StartState
  <2> QED
    BY <1>5, <1>7, <2>1 DEF StartCommit
<1>8. ASSUME UNCHANGED <<posting, starting, patching>>
      PROVE  PostingsHold'
  BY <1>8 DEF PostingsHold, PostingsTyped, PatchesHold, PatchTakesOrRaces
<1> QED
  BY <1>1, <1>3, <1>4, <1>6, <1>7, <1>8, PatchCommitHolds
     DEF Next, rows, ReadRanking, Turns, Answered, Refused, Generate, Complete,
         PrintRead, PrintWrite, PrintFails

-----------------------------------------------------------------------------
(***************************************************************************)
(* The screens and the reports.                                            *)
(***************************************************************************)

\* Ranks are counted, the order is compared: they are the same order.
LEMMA RanksOrder ==
    ASSUME BoardAssumption, BoardInv, NEW p \in Postings
    PROVE  \A s, t \in Ranked(p) :
              /\ RankIn(Ranked(p), s) \in Nat
              /\ RankIn(Ranked(p), s) < RankIn(Ranked(p), t) <=> Before(s, t)
<1> DEFINE S == Ranked(p)
           Ahead(s) == {x \in S : Before(x, s)}
<1>1. S \subseteq Sessions /\ IsFiniteSet(S)
  BY FS_Subset DEF Ranked, BoardAssumption
<1>2. ASSUME NEW s \in S
      PROVE  /\ IsFiniteSet(Ahead(s)) /\ Cardinality(Ahead(s)) \in Nat
             /\ RankIn(S, s) = 1 + Cardinality(Ahead(s))
  BY <1>1, FS_Subset, FS_CardinalityType DEF RankIn
<1>3. ASSUME NEW s \in S
      PROVE  session[s].composite \in Nat /\ session[s].finished \in Nat
             /\ session[s].finished # 0
  <2>1. session[s] \in SessionRow /\ session[s].composite # 0
    BY <1>1 DEF BoardInv, TypeOK, SessionRow, Ranked
  <2>2. session[s].finished # 0
    BY <1>1, <2>1 DEF BoardInv, ScoresHold
  <2>3. session[s].composite \in Composites /\ session[s].finished \in 0..Cardinality(Sessions)
    BY <2>1 DEF SessionRow
  <2>4. Composites \subseteq Nat /\ Cardinality(Sessions) \in Nat
    BY SessionsCount DEF BoardAssumption
  <2>5. session[s].composite \in Nat
    BY <2>3, <2>4
  <2>6. session[s].finished \in Nat
    BY <2>3, <2>4
  <2> QED
    BY <2>2, <2>5, <2>6
<1>4. ASSUME NEW s \in S, NEW t \in S, Before(s, t)
      PROVE  Cardinality(Ahead(s)) < Cardinality(Ahead(t))
  <2>1. \A x \in Ahead(s) : x \in Ahead(t)
    BY <1>3, <1>4 DEF Before
  <2>2. s \in Ahead(t) /\ s \notin Ahead(s)
    BY <1>3, <1>4 DEF Before
  <2>3. Ahead(s) \in SUBSET Ahead(t) /\ Ahead(s) # Ahead(t)
    BY <2>1, <2>2
  <2>4. /\ Cardinality(Ahead(s)) <= Cardinality(Ahead(t))
        /\ Cardinality(Ahead(t)) = Cardinality(Ahead(s)) => Ahead(t) = Ahead(s)
    BY <1>2, <2>3, FS_Subset
  <2> HIDE DEF Ahead
  <2> QED
    BY <1>2, <2>3, <2>4
<1>5. ASSUME NEW s \in S, NEW t \in S, ~Before(s, t), s # t
      PROVE  Before(t, s)
  <2>1. session[s].finished # session[t].finished
    BY <1>1, <1>3, <1>5 DEF BoardInv, ScoresHold
  <2> QED
    BY <1>3, <1>5, <2>1 DEF Before
<1> HIDE DEF S, Ahead
<1> SUFFICES ASSUME NEW s \in S, NEW t \in S
             PROVE  /\ RankIn(S, s) \in Nat
                    /\ RankIn(S, s) < RankIn(S, t) <=> Before(s, t)
  BY DEF S
<1>6. CASE Before(s, t)
  BY <1>2, <1>4, <1>6
<1>7. CASE ~Before(s, t) /\ s = t
  BY <1>2, <1>7
<1>8. CASE ~Before(s, t) /\ s # t
  BY <1>2, <1>4, <1>5, <1>8
<1> QED
  BY <1>6, <1>7, <1>8

ScreenTyped(u) ==
    screen[u] \in SUBSET [session : Sessions, rank : Nat, composite : Composites]

ScreenTrue(u) ==
    \A e \in screen[u] :
        /\ session[e.session].composite = e.composite
        /\ \A f \in screen[u] : e.rank < f.rank <=> Before(e.session, f.session)

LEMMA FreshRanking ==
    ASSUME BoardAssumption, BoardInv, NEW u \in Recruiters, NEW p \in Postings,
           ReadRanking(u, p)
    PROVE  ScreenTyped(u)' /\ ScreenTrue(u)'
<1>1. screen'[u] = RankingOf(p) \/ u \notin DOMAIN screen
  BY DEF ReadRanking
<1>2. session' = session
  BY DEF ReadRanking, rows
<1>3. ASSUME NEW s \in Ranked(p)
      PROVE  s \in Sessions /\ session[s].composite \in Composites
  BY DEF BoardInv, TypeOK, Ranked
<1>4. ASSUME NEW e \in RankingOf(p)
      PROVE  /\ e.session \in Ranked(p) /\ e.rank = RankIn(Ranked(p), e.session)
             /\ e.composite = session[e.session].composite
  BY DEF RankingOf
<1>5. DOMAIN screen = Recruiters
  BY DEF BoardInv, TypeOK
<1>6. screen'[u] = RankingOf(p)
  BY <1>1, <1>5
<1>7. ScreenTyped(u)'
  <2>1. \A s \in Ranked(p) : RankIn(Ranked(p), s) \in Nat
    BY RanksOrder
  <2>2. RankingOf(p) \subseteq [session : Sessions, rank : Nat, composite : Composites]
    BY <1>3, <2>1 DEF RankingOf
  <2> QED
    BY <1>6, <2>2 DEF ScreenTyped
<1>8. ASSUME NEW e \in RankingOf(p)
      PROVE  /\ session'[e.session].composite = e.composite
             /\ \A f \in RankingOf(p) : e.rank < f.rank <=> Before(e.session, f.session)'
  <2>1. \A f \in RankingOf(p) : e.rank < f.rank <=> Before(e.session, f.session)
    BY <1>4, RanksOrder
  <2>2. \A f \in RankingOf(p) : Before(e.session, f.session)' <=> Before(e.session, f.session)
    BY <1>2 DEF Before
  <2> QED
    BY <1>2, <1>4, <2>1, <2>2
<1>9. ScreenTrue(u)'
  BY <1>2, <1>6, <1>8 DEF ScreenTrue
<1> QED
  BY <1>7, <1>9

LEMMA ScreensStay ==
    ASSUME BoardAssumption, BoardInv, Next
    PROVE  /\ screen' = [u \in Recruiters |-> screen'[u]]
           /\ \A u \in Recruiters : ScreenTyped(u)' /\ ScreenTrue(u)'
<1>0. screen = [w \in Recruiters |-> screen[w]] /\ \A u \in Recruiters : ScreenTyped(u) /\ ScreenTrue(u)
  BY DEF BoardInv, TypeOK, RankingStaysTrue, ScreenTyped, ScreenTrue
<1>1. ASSUME NEW u \in Recruiters, screen'[u] = screen[u]
      PROVE  ScreenTyped(u)' /\ ScreenTrue(u)'
  <2>1. ScreenTyped(u)'
    BY <1>0, <1>1 DEF ScreenTyped
  <2>2. ASSUME NEW e \in screen[u]
        PROVE  /\ e.session \in Sessions /\ session[e.session].composite # 0
               /\ session'[e.session].composite = session[e.session].composite
               /\ session'[e.session].finished = session[e.session].finished
    <3>1. e.session \in Sessions /\ session[e.session].composite # 0
      BY <1>0 DEF ScreenTyped, ScreenTrue, BoardAssumption
    <3> QED
      BY <3>1, ScoresFrozen DEF Frozen
  <2>3. \A e \in screen[u] : session'[e.session].composite = e.composite
    BY <1>0, <2>2 DEF ScreenTrue
  <2>4. ASSUME NEW e \in screen[u], NEW f \in screen[u]
        PROVE  e.rank < f.rank <=> Before(e.session, f.session)'
    <3>1. e.rank < f.rank <=> Before(e.session, f.session)
      BY <1>0 DEF ScreenTrue
    <3> QED
      BY <2>2, <3>1 DEF Before
  <2> QED
    BY <1>1, <2>1, <2>3, <2>4 DEF ScreenTrue
<1>2. ASSUME NEW u \in Recruiters, NEW p \in Postings, ReadRanking(u, p)
      PROVE  /\ screen' = [w \in Recruiters |-> screen'[w]]
             /\ \A v \in Recruiters : ScreenTyped(v)' /\ ScreenTrue(v)'
  <2>1. screen' = [w \in Recruiters |-> screen'[w]] /\ \A v \in Recruiters \ {u} : screen'[v] = screen[v]
    BY <1>0, <1>2 DEF ReadRanking
  <2> QED
    BY <1>1, <1>2, <2>1, FreshRanking
<1>3. CASE screen' = screen
  BY <1>0, <1>1, <1>3
<1> QED
  BY <1>2, <1>3
     DEF Next, CreatePosting, PatchRead, PatchCommit, PatchAnswer, StartRead, StartCommit, Turns,
         Answered, Refused, Generate, Complete, PrintRead, PrintWrite, PrintFails

ReportsTyped ==
    /\ printing \subseteq [session : Sessions, composite : Composites]
    /\ printed \in [Sessions -> Composites \cup {0}]

LEMMA ReportsStay ==
    ASSUME BoardAssumption, BoardInv, Next
    PROVE  ReportsTyped' /\ ReportsAreCurrent'
<1>0. ReportsTyped /\ ReportsAreCurrent /\ 0 \notin Composites
  BY DEF BoardInv, TypeOK, ReportsTyped, BoardAssumption
<1>1. Frozen
  BY ScoresFrozen
<1>2. CASE UNCHANGED <<printing, printed>>
  BY <1>0, <1>1, <1>2 DEF ReportsTyped, ReportsAreCurrent, Frozen
<1>3. ASSUME NEW u \in Users, NEW s \in Sessions, PrintRead(u, s)
      PROVE  ReportsTyped' /\ ReportsAreCurrent'
  <2> DEFINE e == [session |-> s, composite |-> session[s].composite]
  <2>1. session[s].composite \in Composites
    BY <1>3 DEF BoardInv, TypeOK, PrintRead, Readable
  <2>2. session' = session /\ printed' = printed /\ printing' = printing \cup {e}
    BY <1>3 DEF PrintRead, rows
  <2> QED
    BY <1>0, <2>1, <2>2 DEF ReportsTyped, ReportsAreCurrent
<1>4. ASSUME NEW e \in printing, PrintWrite(e) \/ PrintFails(e)
      PROVE  ReportsTyped' /\ ReportsAreCurrent'
  <2>1. session' = session /\ printing' = printing \ {e}
    BY <1>4 DEF PrintWrite, PrintFails, rows
  <2>2. e.session \in Sessions /\ e.composite \in Composites
        /\ e.composite = session[e.session].composite
    BY <1>0 DEF ReportsTyped, ReportsAreCurrent
  <2>3. printed' = printed \/ printed' = [printed EXCEPT ![e.session] = e.composite]
    BY <1>4 DEF PrintWrite, PrintFails
  <2>4. ReportsTyped'
    BY <1>0, <2>1, <2>2, <2>3 DEF ReportsTyped
  <2>5. \A s \in Sessions : printed'[s] # 0 => printed'[s] = session[s].composite
    BY <1>0, <2>2, <2>3 DEF ReportsTyped, ReportsAreCurrent
  <2> QED
    BY <1>0, <2>1, <2>4, <2>5 DEF ReportsAreCurrent
<1> QED
  BY <1>2, <1>3, <1>4
     DEF Next, CreatePosting, PatchRead, PatchCommit, PatchAnswer, StartRead, StartCommit, Turns,
         Answered, Refused, Generate, Complete, ReadRanking

LEMMA NextPreserves ==
    ASSUME BoardAssumption, BoardInv, Next
    PROVE  BoardInv'
<1>1. PostingsHold'
  BY PostingsStay DEF BoardInv, TypeOK, PostingsHold, PostingsTyped, PatchState, StartState
<1>2. ScoresHold' /\ session' \in [Sessions -> SessionRow]
  BY ScoresFrozen
<1>3. screen' = [u \in Recruiters |-> screen'[u]] /\ \A u \in Recruiters : ScreenTyped(u)' /\ ScreenTrue(u)'
  BY ScreensStay
<1>4. ReportsTyped' /\ ReportsAreCurrent'
  BY ReportsStay
<1>5. TypeOK'
  BY <1>1, <1>2, <1>3, <1>4
     DEF TypeOK, PostingsHold, PostingsTyped, PatchState, StartState, SessionRow, ScreenTyped,
         ReportsTyped
<1>6. RankingStaysTrue'
  BY <1>3 DEF RankingStaysTrue, ScreenTrue
<1> QED
  BY <1>1, <1>2, <1>4, <1>5, <1>6 DEF BoardInv, PostingsHold

LEMMA StutterPreserves == BoardInv /\ UNCHANGED boardVars => BoardInv'
BY DEF BoardInv, boardVars, rows, TypeOK, ScoresHold, PatchesHold,
       PatchTakesOrRaces, RankingStaysTrue, ReportsAreCurrent, Exists, Before

-----------------------------------------------------------------------------
\* The inductive invariant of Board, for any number of users, postings and
\* sessions.
THEOREM BoardInvariance == Spec => []BoardInv
<1>0. BoardAssumption
  BY BoardAssumption
<1>1. Init => BoardInv
  BY <1>0, InitEstablishes
<1>2. BoardInv /\ [Next]_boardVars => BoardInv'
  BY <1>0, NextPreserves, StutterPreserves
<1> QED
  BY <1>1, <1>2, PTL DEF Spec

\* What a recruiter's ranking shows stays true while it is on the screen: no
\* composite and no place in the order changes (rank_posting_sessions).
THEOREM ScreensAreTrue == Spec => []RankingStaysTrue
<1>1. BoardInv => RankingStaysTrue
  BY DEF BoardInv
<1> QED
  BY <1>1, BoardInvariance, PTL

\* A report on disk shows the composite that is stored (download_report).
THEOREM ReportsStayCurrent == Spec => []ReportsAreCurrent
<1>1. BoardInv => ReportsAreCurrent
  BY DEF BoardInv
<1> QED
  BY <1>1, BoardInvariance, PTL

\* A PATCH sets the flag it was sent, or was overlapped by another one
\* (update_posting, admin.patch_posting).
THEOREM PatchesTake == Spec => []PatchTakesOrRaces
<1>1. BoardInv => PatchTakesOrRaces
  BY DEF BoardInv
<1> QED
  BY <1>1, BoardInvariance, PTL

=============================================================================
