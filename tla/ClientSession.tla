----------------------------- MODULE ClientSession -----------------------------
(***************************************************************************)
(* The pages (tabs) of one browser over the tables of Accounts: each page  *)
(* has its own copy of the token pair, hydrated once from localStorage,    *)
(* one refresh in flight at most, and one form (login or logout) under way.*)
(*                                                                         *)
(* A pair is named by its refresh token.  The access token is left out: a  *)
(* fetch that meets an expired one is what starts a refresh.  Every step   *)
(* is a step of Accounts or leaves the tables and requests alone.          *)
(***************************************************************************)
EXTENDS Accounts

CONSTANTS
    Pages,          \* tabs of the browser
    RefreshOf,      \* the request slot of a page's refreshes
    FormOf,         \* the request slot of its login, register and logout calls
    MaxLoads,       \* bound: pages loaded or reloaded after the first
    MaxLosses       \* bound: calls the page sees fail

ASSUME PagesAssumption ==
    /\ RefreshOf \in [Pages -> Requests] /\ FormOf \in [Pages -> Requests]
    /\ \A k, l \in Pages : /\ RefreshOf[k] # FormOf[l]
                           /\ k # l => RefreshOf[k] # RefreshOf[l] /\ FormOf[k] # FormOf[l]
    /\ MaxLoads \in Nat /\ MaxLosses \in Nat

VARIABLES
    memory,         \* currentTokens of a page, 0 for null
    storage,        \* localStorage
    refreshing,     \* refreshInFlight is not null
    form,           \* the form the page has under way
    shown,          \* tokens a page has posted to /auth/refresh since it was loaded
    loads,
    losses

pageVars == <<memory, storage, refreshing, form, shown, loads, losses>>

vars == <<accountVars, pageVars>>

ClientInit ==
    /\ Init
    /\ memory = [k \in Pages |-> 0]
    /\ storage = 0
    /\ refreshing = [k \in Pages |-> FALSE]
    /\ form = [k \in Pages |-> "none"]
    /\ shown = [k \in Pages |-> {}]
    /\ loads = 0
    /\ losses = 0

\* setTokens: this page's copy and the storage; no other page hears of it.
SetTokens(k, t) ==
    /\ memory' = [memory EXCEPT ![k] = t]
    /\ storage' = t

\* The module is loaded: calls of the page before it lose their reader.
LoadPage(k) ==
    /\ loads < MaxLoads
    /\ memory' = [memory EXCEPT ![k] = storage]
    /\ refreshing' = [refreshing EXCEPT ![k] = FALSE]
    /\ form' = [form EXCEPT ![k] = "none"]
    /\ shown' = [shown EXCEPT ![k] = {}]
    /\ loads' = loads + 1
    /\ UNCHANGED <<accountVars, storage, losses>>

-----------------------------------------------------------------------------
(***************************************************************************)
(* refreshSession.                                                         *)
(***************************************************************************)
StartRefresh(k) ==
    /\ memory[k] # 0 /\ ~refreshing[k]
    /\ Refresh(RefreshOf[k], memory[k])
    /\ refreshing' = [refreshing EXCEPT ![k] = TRUE]
    /\ shown' = [shown EXCEPT ![k] = @ \cup {memory[k]}]
    /\ UNCHANGED <<memory, storage, form, loads, losses>>

\* Mutant of RefreshAnswered: a 401 is left to the caller.
RefreshAnsweredKeeps(k) ==
    LET t == request[RefreshOf[k]].token IN
    /\ refreshing[k] /\ request[RefreshOf[k]].at = "answered"
    /\ IF t = 0 THEN UNCHANGED <<memory, storage>> ELSE SetTokens(k, t)
    /\ Receive(RefreshOf[k])
    /\ refreshing' = [refreshing EXCEPT ![k] = FALSE]
    /\ UNCHANGED <<form, shown, loads, losses>>

\* A new pair, or (401) none: whatever became of the page's pair meanwhile.
RefreshAnswered(k) ==
    /\ refreshing[k] /\ request[RefreshOf[k]].at = "answered"
    /\ SetTokens(k, request[RefreshOf[k]].token)
    /\ Receive(RefreshOf[k])
    /\ refreshing' = [refreshing EXCEPT ![k] = FALSE]
    /\ UNCHANGED <<form, shown, loads, losses>>

\* Mutant of RefreshFails: keep the pair, the next 401 tries again.
RefreshFailsKeeps(k) ==
    /\ refreshing[k] /\ losses < MaxLosses
    /\ refreshing' = [refreshing EXCEPT ![k] = FALSE]
    /\ losses' = losses + 1
    /\ UNCHANGED <<accountVars, memory, storage, form, shown, loads>>

\* The network fails, before or after the server rotated the token.
RefreshFails(k) ==
    /\ refreshing[k] /\ losses < MaxLosses
    /\ SetTokens(k, 0)
    /\ refreshing' = [refreshing EXCEPT ![k] = FALSE]
    /\ losses' = losses + 1
    /\ UNCHANGED <<accountVars, form, shown, loads>>

-----------------------------------------------------------------------------
(***************************************************************************)
(* AuthProvider: login, register and logout.                               *)
(***************************************************************************)
Submit(k) ==
    /\ memory[k] = 0 /\ form[k] = "none"
    /\ \E u \in Users : RegisterCheck(FormOf[k], u) \/ LoginCheck(FormOf[k], u)
    /\ form' = [form EXCEPT ![k] = "login"]
    /\ UNCHANGED <<memory, storage, refreshing, shown, loads, losses>>

SubmitAnswered(k) ==
    LET t == request[FormOf[k]].token IN
    /\ form[k] = "login" /\ request[FormOf[k]].at = "answered"
    /\ IF t = 0 THEN UNCHANGED <<memory, storage>> ELSE SetTokens(k, t)
    /\ Receive(FormOf[k])
    /\ form' = [form EXCEPT ![k] = IF t = 0 THEN "none" ELSE "me"]
    /\ UNCHANGED <<refreshing, shown, loads, losses>>

\* GET /auth/me with the new pair: the user is shown, or the pair dropped.
MeAnswered(k) ==
    /\ form[k] = "me"
    /\ form' = [form EXCEPT ![k] = "none"]
    /\ UNCHANGED <<accountVars, memory, storage, refreshing, shown, loads, losses>>

MeFails(k) ==
    /\ form[k] = "me" /\ losses < MaxLosses
    /\ SetTokens(k, 0)
    /\ form' = [form EXCEPT ![k] = "none"]
    /\ losses' = losses + 1
    /\ UNCHANGED <<accountVars, refreshing, shown, loads>>

LogOut(k) ==
    /\ memory[k] # 0 /\ form[k] = "none"
    /\ LogoutRead(FormOf[k], memory[k])
    /\ form' = [form EXCEPT ![k] = "logout"]
    /\ UNCHANGED <<memory, storage, refreshing, shown, loads, losses>>

\* The finally clause: clearTokens, answered or not.
LogoutAnswered(k) ==
    /\ form[k] = "logout" /\ request[FormOf[k]].at = "answered"
    /\ SetTokens(k, 0)
    /\ Receive(FormOf[k])
    /\ form' = [form EXCEPT ![k] = "none"]
    /\ UNCHANGED <<refreshing, shown, loads, losses>>

LogoutFails(k) ==
    /\ form[k] = "logout" /\ losses < MaxLosses
    /\ SetTokens(k, 0)
    /\ form' = [form EXCEPT ![k] = "none"]
    /\ losses' = losses + 1
    /\ UNCHANGED <<accountVars, refreshing, shown, loads>>

-----------------------------------------------------------------------------
\* An answer nobody waits for any more.
Unread(k) ==
    \/ ~refreshing[k] /\ Receive(RefreshOf[k]) /\ UNCHANGED pageVars
    \/ form[k] \notin {"login", "logout"} /\ Receive(FormOf[k]) /\ UNCHANGED pageVars

Serve(r) == Finishes(r) /\ UNCHANGED pageVars

Answered(k) ==
    \/ RefreshAnswered(k) \/ SubmitAnswered(k) \/ MeAnswered(k) \/ LogoutAnswered(k)
    \/ Unread(k)

ClientNext ==
    \/ \E k \in Pages : \/ LoadPage(k) \/ StartRefresh(k) \/ RefreshFails(k) \/ Submit(k)
                        \/ MeFails(k) \/ LogOut(k) \/ LogoutFails(k) \/ Answered(k)
    \/ \E r \in Requests : Serve(r)

ClientSpec == ClientInit /\ [][ClientNext]_vars

\* The API serves what it began and its answers arrive or fail.  Nothing obliges
\* a page to fetch: one that is left alone keeps its pair, dead or alive.
ClientFairness ==
    /\ \A r \in Requests : WF_vars(Serve(r))
    /\ \A k \in Pages : WF_vars(Answered(k))

FairClientSpec == ClientSpec /\ ClientFairness

-----------------------------------------------------------------------------
ClientTypeOK ==
    /\ memory \in [Pages -> 0..MaxTokens]
    /\ storage \in 0..MaxTokens
    /\ refreshing \in [Pages -> BOOLEAN]
    /\ form \in [Pages -> {"none", "login", "me", "logout"}]
    /\ shown \in [Pages -> SUBSET Tokens]
    /\ loads \in Nat /\ losses \in Nat

\* A page never posts a refresh token it has posted before, whatever calls fail:
\* rotation is single-use, and a page that lost an answer signs out instead of
\* trying again (refreshSession).
NeverShownTwice ==
    [][\A k \in Pages : ~refreshing[k] /\ refreshing'[k] => memory[k] \notin shown[k]]_vars

\* "single-flight so concurrent 401s cannot trigger reuse-detection" (README): no
\* token is found reused as long as no page was opened on the pair of another
\* one, or of itself before a reload.
ReuseNeedsReload == \A r \in Requests : request[r].at = "reused" => loads > 0

\* A pair on its way to a page is nobody's yet: no page, no storage and no other
\* answer has its token.
AnswersAreFresh ==
    \A r \in Requests : request[r].at = "answered" /\ request[r].token # 0 =>
      /\ request[r].token \in Issued /\ storage # request[r].token
      /\ \A k \in Pages : memory[k] # request[r].token /\ request[r].token \notin shown[k]
      /\ \A q \in Requests \ {r} :
           request[q].at = "answered" => request[q].token # request[r].token

\* As long as no page was loaded on a stored pair, a token is one page's only.
OnePageEach ==
    /\ \A k, l \in Pages : k # l /\ memory[k] # 0 =>
         memory[k] # memory[l] /\ memory[k] \notin shown[l]
    /\ \A t \in Issued : replaced[t] # 0 => \E k \in Pages : t \in shown[k]
    /\ \A r \in Requests :
         /\ request[r].at # "reused"
         /\ request[r].at = "rotating" => \E k \in Pages : request[r].token \in shown[k]

\* A page still has a token it posted only while the answer is outstanding.
PagesInStep ==
    /\ storage \in 0..issued
    /\ \A k \in Pages : /\ memory[k] \in 0..issued /\ shown[k] \subseteq Issued
                        /\ memory[k] \in shown[k] => refreshing[k]

\* The inductive invariant, on top of the tables'.
ClientInv ==
    /\ AccountsInv /\ ClientTypeOK /\ AnswersAreFresh /\ PagesInStep
    /\ loads = 0 => OnePageEach

\* A page that posted its pair is rid of that pair in the end, whoever else used
\* it, revoked it or signed out meanwhile: the answer, be it a new pair or a 401,
\* replaces it, and a lost answer clears it.  Only a reload forgets the call, and
\* with every token of the model issued the server cannot answer.
PostedPairGoes ==
    \A k \in Pages, t \in Tokens :
        refreshing[k] /\ memory[k] = t ~>
            \/ memory[k] # t
            \/ t \notin shown[k]
            \/ issued = MaxTokens /\ request[RefreshOf[k]].at = "rotating"
=============================================================================
