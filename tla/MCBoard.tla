-------------------------------- MODULE MCBoard --------------------------------
(* Values for the constants of Board: bob administers, ann owns the posting.    *)
EXTENDS Board, TLC

CONSTANTS ann, bob, cat, p1, s1, s2

OnePosting == p1 :> ann

AnyOrder == Permutations(Sessions)

\* "Missing Score rows (in_progress / abandoned / ...) are also 404"
\* (services/score_access.py:4) and "in_progress / abandoned have no composite"
\* (routers/admin.py:254): nobody is shown a score of an abandoned session.
AbandonedIsHidden ==
    \A s \in Sessions : session[s].status = "abandoned" =>
        /\ \A u \in Users : ~Readable(s, u)
        /\ s \notin AuditedScores
        /\ \A n \in Composites :
              <<s, n>> \notin AuditedSessions \cup UNION {History(c) : c \in Candidates}
=============================================================================
