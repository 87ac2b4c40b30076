---------------------------- MODULE MCClientSession ----------------------------
(* Values for the constants of ClientSession.                                 *)
EXTENDS ClientSession, TLC

CONSTANTS ann, k1, k2

MCRequests == Pages \X {"refresh", "form"}

MCRefreshOf == [k \in Pages |-> <<k, "refresh">>]

MCFormOf == [k \in Pages |-> <<k, "form">>]

\* "Sign out calls `POST /auth/logout` then always clears local state"
\* (README.md:114): a page that holds no pair gets one from a login, a
\* registration or from being loaded, and from nothing else.
SignedOutStays ==
    [][\A k \in Pages : memory[k] = 0 /\ memory'[k] # 0 => SubmitAnswered(k) \/ LoadPage(k)]_vars
=============================================================================
