-------------------------- MODULE ClientSessionProofs --------------------------
(***************************************************************************)
(* The theorems of ClientSession: a page never posts a refresh token twice,*)
(* and reuse needs a page that was loaded on a stored pair, for any number *)
(* of pages, losses and requests.                                          *)
(***************************************************************************)
EXTENDS ClientSession, AccountsProofs

LEMMA ClientInitEstablishes == AccountsAssumption /\ PagesAssumption /\ ClientInit => ClientInv
<1> SUFFICES ASSUME AccountsAssumption, PagesAssumption, ClientInit PROVE ClientInv
  OBVIOUS
<1>1. AccountsInv
  BY InitEstablishes DEF ClientInit
<1>2. ClientTypeOK /\ PagesInStep
  BY DEF ClientInit, Init, ClientTypeOK, PagesInStep, PagesAssumption, AccountsAssumption, Issued
<1>3. AnswersAreFresh /\ OnePageEach
  BY DEF ClientInit, Init, AnswersAreFresh, OnePageEach, Idle, Reads, Issued
<1> QED
  BY <1>1, <1>2, <1>3 DEF ClientInv

\* A request that asks or is forgotten, seen from the pages: it carries no answer.
LEMMA SilentKeepsFresh ==
    ASSUME ClientInv, NEW r \in Requests, NEW s \in Locals, Goes(r, s),
           s.at = "answered" => s.token = 0,
           UNCHANGED <<issued, memory, storage>>,
           \A k \in Pages : \A t \in shown'[k] : t \in shown[k] \/ t = memory[k]
    PROVE  AnswersAreFresh'
<1>1. request'[r] = s /\ \A q \in Requests \ {r} : request'[q] = request[q]
  BY GoesOn DEF ClientInv, AccountsInv
<1> SUFFICES ASSUME NEW q \in Requests, request'[q].at = "answered", request'[q].token # 0
             PROVE  /\ request'[q].token \in Issued' /\ storage' # request'[q].token
                    /\ \A k \in Pages : memory'[k] # request'[q].token /\ request'[q].token \notin shown'[k]
                    /\ \A p \in Requests \ {q} :
                         request'[p].at = "answered" => request'[p].token # request'[q].token
  BY DEF AnswersAreFresh
<1>2. q # r /\ request'[q] = request[q]
  BY <1>1
<1>3. /\ request[q].token \in Issued /\ storage # request[q].token
      /\ \A k \in Pages : memory[k] # request[q].token /\ request[q].token \notin shown[k]
      /\ \A p \in Requests \ {q} : request[p].at = "answered" => request[p].token # request[q].token
  BY <1>2 DEF ClientInv, AnswersAreFresh
<1> QED
  BY <1>1, <1>2, <1>3 DEF Issued

\* A form is sent, or an answer is dropped: nothing the pages hold changes.
LEMMA QuietKeepsInv ==
    ASSUME ClientInv, AccountsInv', NEW r \in Requests, NEW s \in Locals, Goes(r, s),
           s.at \notin {"answered", "reused", "rotating"}, UNCHANGED tables,
           UNCHANGED <<memory, storage, shown, refreshing, loads, losses>>,
           form' \in [Pages -> {"none", "login", "me", "logout"}]
    PROVE  ClientInv'
<1>1. AnswersAreFresh'
  BY SilentKeepsFresh DEF tables
<1>2. ClientTypeOK' /\ PagesInStep'
  BY DEF ClientInv, ClientTypeOK, PagesInStep, tables, Issued
<1>3. request'[r] = s /\ \A q \in Requests \ {r} : request'[q] = request[q]
  BY GoesOn DEF ClientInv, AccountsInv
<1>4. loads' = 0 => OnePageEach'
  BY <1>3 DEF ClientInv, OnePageEach, tables, Issued
<1> QED
  BY <1>1, <1>2, <1>4 DEF ClientInv

\* The page's copy and the storage take t, which nobody else holds; the request
\* slot that brought it, if any, is idle again.
LEMMA TakesKeepInv ==
    ASSUME ClientInv, AccountsAssumption, AccountsInv', NEW k \in Pages, NEW t \in 0..issued,
           SetTokens(k, t), UNCHANGED tables, UNCHANGED <<shown, loads>>, ClientTypeOK',
           refreshing' \in {refreshing, [refreshing EXCEPT ![k] = FALSE]},
           t # 0 => /\ t \notin shown[k]
                    /\ \A l \in Pages : memory[l] # t /\ t \notin shown[l],
           \A q \in Requests : \/ request'[q] = request[q] /\ (t # 0 => request[q].token # t \/ request[q].at # "answered")
                               \/ request'[q] = Idle
    PROVE  ClientInv'
<1>1. /\ memory' = [memory EXCEPT ![k] = t] /\ storage' = t
      /\ memory \in [Pages -> 0..MaxTokens] /\ issued \in Nat /\ issued' = issued /\ Issued' = Issued
  BY DEF SetTokens, ClientInv, ClientTypeOK, tables, AccountsInv, TypeOK, Issued, AccountsAssumption
<1>2. memory'[k] = t /\ \A l \in Pages \ {k} : memory'[l] = memory[l]
  BY <1>1
<1>3. PagesInStep'
  <2>1. 0 \notin shown[k]
    BY DEF ClientInv, PagesInStep, Issued
  <2>2. refreshing'[k] = FALSE \/ refreshing'[k] = refreshing[k]
    BY DEF ClientInv, ClientTypeOK
  <2>3. \A l \in Pages \ {k} : refreshing'[l] = refreshing[l]
    BY DEF ClientInv, ClientTypeOK
  <2>4. \A l \in Pages : memory'[l] \in 0..issued /\ shown[l] \subseteq Issued
    BY <1>1, <1>2 DEF ClientInv, PagesInStep
  <2>5. \A l \in Pages : memory'[l] \in shown[l] => refreshing'[l]
    BY <1>2, <2>1, <2>3 DEF ClientInv, PagesInStep
  <2> QED
    BY <1>1, <2>4, <2>5 DEF PagesInStep
<1>4. AnswersAreFresh'
  <2> SUFFICES ASSUME NEW q \in Requests, request'[q].at = "answered", request'[q].token # 0
               PROVE  /\ request'[q].token \in Issued' /\ storage' # request'[q].token
                      /\ \A l \in Pages : memory'[l] # request'[q].token /\ request'[q].token \notin shown'[l]
                      /\ \A p \in Requests \ {q} :
                           request'[p].at = "answered" => request'[p].token # request'[q].token
    BY DEF AnswersAreFresh
  <2>1. Idle.at # "answered"
    BY DEF Idle, Reads
  <2>2. request'[q] = request[q] /\ t # request[q].token
    BY <2>1
  <2>3. /\ request[q].token \in Issued /\ storage # request[q].token
        /\ \A l \in Pages : memory[l] # request[q].token /\ request[q].token \notin shown[l]
        /\ \A p \in Requests \ {q} : request[p].at = "answered" => request[p].token # request[q].token
    BY <2>2 DEF ClientInv, AnswersAreFresh
  <2>4. \A p \in Requests \ {q} : request'[p].at = "answered" => request'[p].token # request[q].token
    BY <2>1, <2>3
  <2> QED
    BY <1>1, <1>2, <2>2, <2>3, <2>4
<1>5. loads' = 0 => OnePageEach'
  <2> SUFFICES ASSUME loads = 0 PROVE OnePageEach'
    OBVIOUS
  <2>1. OnePageEach /\ 0 \notin shown[k]
    BY DEF ClientInv, PagesInStep, Issued
  <2>2. ASSUME NEW j \in Pages, NEW l \in Pages, j # l, memory'[j] # 0
        PROVE  memory'[j] # memory'[l] /\ memory'[j] \notin shown[l]
    BY <1>2, <2>1, <2>2 DEF OnePageEach
  <2>3. \A q \in Requests : request'[q] = request[q] \/ request'[q].at = "idle"
    BY DEF Idle, Reads
  <2>4. \A n \in Issued : replaced'[n] # 0 => \E l \in Pages : n \in shown[l]
    BY <2>1 DEF OnePageEach, tables
  <2>5. ASSUME NEW q \in Requests
        PROVE  /\ request'[q].at # "reused"
               /\ request'[q].at = "rotating" => \E l \in Pages : request'[q].token \in shown[l]
    <3>1. CASE request'[q] = request[q]
      BY <2>1, <3>1 DEF OnePageEach
    <3>2. CASE request'[q].at = "idle"
      BY <3>2
    <3> QED
      BY <2>3, <3>1, <3>2
  <2> QED
    BY <1>1, <2>2, <2>4, <2>5 DEF OnePageEach
<1> QED
  BY <1>3, <1>4, <1>5 DEF ClientInv

\* What a refresh request becomes when the token's row is read.
LEMMA RefreshReads ==
    ASSUME ClientInv, AccountsAssumption, NEW r \in Requests, NEW t \in Tokens, Refresh(r, t)
    PROVE  /\ UNCHANGED tables /\ request[r].at = "idle"
           /\ t \in Issued
           /\ \E s \in Locals :
                /\ Goes(r, s) /\ s.at \in {"reused", "answered", "rotating"}
                /\ s.at = "reused" => replaced[t] # 0
                /\ s.at = "answered" => s.token = 0
                /\ s.at = "rotating" => s.token = t
<1>1. CASE RefreshReused(r, t)
  <2> DEFINE s0 == [at |-> "reused", user |-> holder[t], token |-> t,
                    seen |-> TokensOf(holder[t]), upto |-> issued,
                    by |-> Nobody, active |-> "keep", admin |-> "keep"]
  <2>1. Goes(r, s0) /\ UNCHANGED tables /\ request[r].at = "idle" /\ t \in Issued /\ replaced[t] # 0
    BY <1>1 DEF RefreshReused
  <2>2. s0 \in Locals
    <3>1. Issued \subseteq Tokens /\ issued \in 0..MaxTokens /\ Live \subseteq Issued
      BY DEF ClientInv, AccountsInv, TypeOK, Issued, Tokens, AccountsAssumption, Live
    <3>2. TokensOf(holder[t]) \subseteq Tokens
      BY <3>1 DEF TokensOf
    <3>3. holder[t] \in Users \cup {Nobody}
      BY DEF ClientInv, AccountsInv, TypeOK
    <3>4. t \in 0..MaxTokens
      BY DEF Tokens, AccountsAssumption
    <3> QED
      BY <3>1, <3>2, <3>3, <3>4 DEF Locals, States
  <2>3. s0.at = "reused"
    OBVIOUS
  <2> HIDE DEF s0
  <2> QED
    BY <2>1, <2>2, <2>3
<1>2. CASE RefreshRefused(r, t)
  <2> DEFINE s0 == Reads("answered", Nobody, 0)
  <2>1. Goes(r, s0) /\ UNCHANGED tables /\ request[r].at = "idle" /\ t \in Issued
    BY <1>2 DEF RefreshRefused, Answers
  <2>2. s0 \in Locals /\ s0.at = "answered" /\ s0.token = 0
    BY ReadsTyped DEF States, AccountsAssumption, Reads
  <2> HIDE DEF s0
  <2> QED
    BY <2>1, <2>2
<1>3. CASE RefreshValid(r, t)
  <2> DEFINE s0 == Reads("rotating", Nobody, t)
  <2>1. Goes(r, s0) /\ UNCHANGED tables /\ request[r].at = "idle" /\ t \in Issued
    BY <1>3 DEF RefreshValid
  <2>2. s0 \in Locals /\ s0.at = "rotating" /\ s0.token = t
    BY ReadsTyped DEF States, AccountsAssumption, Reads, Tokens
  <2> HIDE DEF s0
  <2> QED
    BY <2>1, <2>2
<1> QED
  BY <1>1, <1>2, <1>3 DEF Refresh

LEMMA StartRefreshKeepsInv ==
    ASSUME ClientInv, AccountsAssumption, PagesAssumption, AccountsInv', NEW k \in Pages,
           StartRefresh(k)
    PROVE  ClientInv'
<1> DEFINE t == memory[k]
<1> DEFINE r == RefreshOf[k]
<1>0. r \in Requests /\ t \in Tokens /\ t # 0
  BY DEF PagesAssumption, StartRefresh, ClientInv, ClientTypeOK, Tokens, AccountsAssumption
<1>1. /\ Refresh(r, t) /\ ~refreshing[k] /\ UNCHANGED <<memory, storage, form, loads, losses>>
      /\ refreshing' = [refreshing EXCEPT ![k] = TRUE]
      /\ shown' = [shown EXCEPT ![k] = shown[k] \cup {t}]
  BY DEF StartRefresh
<1> PICK m : m = t
  OBVIOUS
<1> HIDE DEF t, r
<1>2. /\ UNCHANGED tables /\ m \in Issued
      /\ \E s \in Locals :
           /\ Goes(r, s) /\ s.at \in {"reused", "answered", "rotating"}
           /\ s.at = "reused" => replaced[m] # 0
           /\ s.at = "answered" => s.token = 0
           /\ s.at = "rotating" => s.token = m
  BY <1>0, <1>1, RefreshReads
<1>3. PICK s \in Locals :
           /\ Goes(r, s) /\ s.at \in {"reused", "answered", "rotating"}
           /\ s.at = "reused" => replaced[m] # 0
           /\ s.at = "answered" => s.token = 0
           /\ s.at = "rotating" => s.token = m
  BY <1>2
<1>4. /\ shown \in [Pages -> SUBSET Tokens] /\ shown' \in [Pages -> SUBSET Tokens]
      /\ shown'[k] = shown[k] \cup {m} /\ \A l \in Pages \ {k} : shown'[l] = shown[l]
      /\ refreshing' \in [Pages -> BOOLEAN]
      /\ refreshing'[k] = TRUE /\ \A l \in Pages \ {k} : refreshing'[l] = refreshing[l]
  BY <1>0, <1>1 DEF ClientInv, ClientTypeOK
<1>5. /\ request' \in [Requests -> Locals] /\ request'[r] = s
      /\ \A q \in Requests \ {r} : request'[q] = request[q]
  BY <1>0, <1>3, GoesOn DEF ClientInv, AccountsInv
<1>6. issued' = issued /\ Issued' = Issued /\ replaced' = replaced
  BY <1>2 DEF tables, Issued
<1>7. ClientTypeOK'
  BY <1>1, <1>4 DEF ClientInv, ClientTypeOK
<1>8. PagesInStep'
  BY <1>1, <1>2, <1>4, <1>6 DEF ClientInv, PagesInStep
<1>9. AnswersAreFresh'
  <2>1. \A l \in Pages : \A n \in shown'[l] : n \in shown[l] \/ n = memory[l]
    BY <1>4 DEF t
  <2> QED
    BY <1>0, <1>1, <1>3, <1>6, <2>1, SilentKeepsFresh
<1>10. ASSUME loads = 0 PROVE OnePageEach'
  <2>1. OnePageEach
    BY <1>10 DEF ClientInv
  <2>2. m \notin shown[k] /\ \A l \in Pages : m \notin shown[l]
    BY <1>0, <1>1, <2>1 DEF ClientInv, PagesInStep, OnePageEach, t
  <2>3. replaced[m] = 0
    BY <1>2, <2>1, <2>2 DEF OnePageEach
  <2>4. ASSUME NEW j \in Pages, NEW l \in Pages, j # l, memory[j] # 0
        PROVE  memory[j] # memory[l] /\ memory[j] \notin shown'[l]
    BY <1>4, <2>1, <2>4 DEF OnePageEach, t
  <2>5. \A n \in Issued : replaced[n] # 0 => \E l \in Pages : n \in shown'[l]
    BY <1>4, <2>1 DEF OnePageEach
  <2>6. ASSUME NEW q \in Requests
        PROVE  /\ request'[q].at # "reused"
               /\ request'[q].at = "rotating" => \E l \in Pages : request'[q].token \in shown'[l]
    <3>1. CASE q = r
      BY <1>3, <1>4, <1>5, <2>3, <3>1
    <3>2. CASE q # r
      BY <1>4, <1>5, <2>1, <3>2 DEF OnePageEach
    <3> QED
      BY <3>1, <3>2
  <2> QED
    BY <1>1, <1>6, <2>4, <2>5, <2>6 DEF OnePageEach
<1> QED
  BY <1>1, <1>7, <1>8, <1>9, <1>10 DEF ClientInv

LEMMA LoadKeepsInv ==
    ASSUME ClientInv, AccountsInv', NEW k \in Pages, LoadPage(k)
    PROVE  ClientInv'
<1>1. /\ UNCHANGED tables /\ request' = request /\ storage' = storage /\ losses' = losses
      /\ loads' = loads + 1 /\ loads \in Nat /\ Issued' = Issued /\ issued' = issued
      /\ memory' = [memory EXCEPT ![k] = storage] /\ shown' = [shown EXCEPT ![k] = {}]
      /\ form' = [form EXCEPT ![k] = "none"] /\ refreshing' = [refreshing EXCEPT ![k] = FALSE]
  BY DEF LoadPage, accountVars, tables, ClientInv, ClientTypeOK, Issued
<1>2. ClientTypeOK'
  BY <1>1 DEF ClientInv, ClientTypeOK
<1>3. /\ memory'[k] = storage /\ \A l \in Pages \ {k} : memory'[l] = memory[l]
      /\ shown'[k] = {} /\ \A l \in Pages \ {k} : shown'[l] = shown[l] /\ refreshing'[l] = refreshing[l]
  BY <1>1 DEF ClientInv, ClientTypeOK
<1>4. PagesInStep'
  BY <1>1, <1>3 DEF ClientInv, PagesInStep
<1>5. AnswersAreFresh'
  BY <1>1, <1>3 DEF ClientInv, AnswersAreFresh
<1> QED
  BY <1>1, <1>2, <1>4, <1>5 DEF ClientInv

\* What a commit shows the pages: an answer, with a pair that is new or none.
LEMMA FinishesAnswers ==
    ASSUME ClientInv, AccountsAssumption, NEW r \in Requests, Finishes(r)
    PROVE  \E t \in 0..MaxTokens :
             /\ Goes(r, Reads("answered", Nobody, t))
             /\ issued \in Nat
             /\ (t = 0 /\ issued' = issued) \/ (t = issued + 1 /\ issued' = issued + 1)
             /\ \/ replaced' = replaced
                \/ /\ request[r].at = "rotating" /\ request[r].token \in Issued
                   /\ replaced' = [replaced EXCEPT ![request[r].token] = t]
<1>0. issued \in Nat /\ MaxTokens \in Nat /\ 0 \in 0..MaxTokens
  BY DEF ClientInv, AccountsInv, TypeOK, AccountsAssumption
<1>1. CASE RegisterCollides(r) \/ RevokeAllCommit(r) \/ LogoutCommit(r) \/ PatchCommit(r)
  BY <1>0, <1>1 DEF RegisterCollides, RevokeAllCommit, LogoutCommit, PatchCommit, Answers, tables
<1>2. ASSUME issued < MaxTokens PROVE issued + 1 \in 0..MaxTokens
  BY <1>0, <1>2 DEF ClientInv, AccountsInv, TypeOK
<1>3. CASE RegisterCommit(r) \/ LoginCommit(r)
  BY <1>0, <1>2, <1>3 DEF RegisterCommit, LoginCommit, Answers, Issue
<1>4. CASE RotateCommit(r)
  <2>1. request[r].token \in Issued
    BY <1>4 DEF ClientInv, AccountsInv, InStep, RotateCommit
  <2> QED
    BY <1>0, <1>2, <1>4, <2>1 DEF RotateCommit, Answers, Issue
<1> QED
  BY <1>1, <1>3, <1>4 DEF Finishes

LEMMA ServeKeepsInv ==
    ASSUME ClientInv, AccountsAssumption, AccountsInv', NEW r \in Requests, Serve(r)
    PROVE  ClientInv'
<1>1. UNCHANGED <<memory, storage, refreshing, form, shown, loads, losses>>
  BY DEF Serve, pageVars
<1>2. PICK t \in 0..MaxTokens :
             /\ Goes(r, Reads("answered", Nobody, t))
             /\ issued \in Nat
             /\ (t = 0 /\ issued' = issued) \/ (t = issued + 1 /\ issued' = issued + 1)
             /\ \/ replaced' = replaced
                \/ /\ request[r].at = "rotating" /\ request[r].token \in Issued
                   /\ replaced' = [replaced EXCEPT ![request[r].token] = t]
  BY FinishesAnswers DEF Serve
<1>3. Reads("answered", Nobody, t) \in Locals
  BY ReadsTyped DEF States, AccountsAssumption
<1>4. /\ request'[r].at = "answered" /\ request'[r].token = t
      /\ \A q \in Requests \ {r} : request'[q] = request[q]
  BY <1>2, <1>3, GoesOn DEF ClientInv, AccountsInv, Reads
<1>5. issued \in Nat /\ issued' \in Nat /\ Issued \subseteq Issued' /\ issued <= issued'
      /\ (t # 0 => t \in Issued' /\ t > issued)
  BY <1>2 DEF Issued, ClientInv, AccountsInv, TypeOK, AccountsAssumption
<1>6. PagesInStep' /\ ClientTypeOK'
  BY <1>1, <1>5 DEF ClientInv, PagesInStep, ClientTypeOK
<1>7. AnswersAreFresh'
  <2> SUFFICES ASSUME NEW q \in Requests, request'[q].at = "answered", request'[q].token # 0
               PROVE  /\ request'[q].token \in Issued' /\ storage # request'[q].token
                      /\ \A k \in Pages : memory[k] # request'[q].token /\ request'[q].token \notin shown[k]
                      /\ \A p \in Requests \ {q} :
                           request'[p].at = "answered" => request'[p].token # request'[q].token
    BY <1>1 DEF AnswersAreFresh
  <2>1. \A p \in Requests \ {r} : request[p].at = "answered" => request[p].token = 0 \/ request[p].token \in Issued
    BY DEF ClientInv, AnswersAreFresh
  <2>2. CASE q = r
    <3>1. storage # t /\ \A k \in Pages : memory[k] # t /\ t \notin shown[k]
      BY <1>4, <1>5, <2>2 DEF ClientInv, PagesInStep, Issued
    <3>2. \A p \in Requests \ {r} : request'[p].at = "answered" => request'[p].token # t
      BY <1>4, <1>5, <2>1, <2>2 DEF Issued
    <3> QED
      BY <1>4, <1>5, <2>2, <3>1, <3>2
  <2>3. CASE q # r
    <3>1. request'[q] = request[q] /\ request[q].token \in Issued
      BY <1>4, <2>1, <2>3
    <3>2. request[q].token # t
      BY <1>5, <2>3, <3>1 DEF Issued
    <3> QED
      BY <1>4, <1>5, <2>3, <3>1, <3>2 DEF ClientInv, AnswersAreFresh
  <2> QED
    BY <2>2, <2>3
<1>8. ASSUME loads = 0 PROVE OnePageEach'
  <2>1. OnePageEach
    BY <1>8 DEF ClientInv
  <2>2. ASSUME NEW n \in Issued', replaced'[n] # 0 PROVE \E k \in Pages : n \in shown[k]
    <3>1. CASE replaced' = replaced
      <4>1. n \in Tokens /\ replaced[n] # 0
        BY <2>2, <3>1 DEF AccountsInv, TypeOK, Issued, Tokens, AccountsAssumption
      <4>2. n \in Issued
        BY <4>1 DEF ClientInv, AccountsInv, ChainsHold, TypeOK, Issued, Tokens, AccountsAssumption
      <4> QED
        BY <2>1, <4>1, <4>2 DEF OnePageEach
    <3>2. CASE /\ request[r].at = "rotating" /\ request[r].token \in Issued
               /\ replaced' = [replaced EXCEPT ![request[r].token] = t]
      <4>1. CASE n = request[r].token
        BY <2>1, <3>2, <4>1 DEF OnePageEach
      <4>2. CASE n # request[r].token
        <5>1. n \in Tokens /\ replaced[n] # 0
          BY <2>2, <3>2, <4>2 DEF ClientInv, AccountsInv, TypeOK, Issued, Tokens, AccountsAssumption
        <5>2. n \in Issued
          BY <5>1 DEF ClientInv, AccountsInv, ChainsHold, TypeOK, Issued, Tokens, AccountsAssumption
        <5> QED
          BY <2>1, <5>1, <5>2 DEF OnePageEach
      <4> QED
        BY <4>1, <4>2
    <3> QED
      BY <1>2, <3>1, <3>2
  <2>3. ASSUME NEW q \in Requests
        PROVE  /\ request'[q].at # "reused"
               /\ request'[q].at = "rotating" => \E l \in Pages : request'[q].token \in shown[l]
    BY <1>4, <2>1 DEF OnePageEach
  <2> QED
    BY <1>1, <2>1, <2>2, <2>3 DEF OnePageEach
<1> QED
  BY <1>1, <1>6, <1>7, <1>8 DEF ClientInv

-----------------------------------------------------------------------------
\* Each step of the client is one of the tables', or leaves them alone.
LEMMA TablesStayRight ==
    ASSUME AccountsInv, AccountsAssumption, PagesAssumption, ClientTypeOK, [ClientNext]_vars
    PROVE  AccountsInv'
<1>1. CASE UNCHANGED accountVars
  BY <1>1, StutterKeepsInv
<1>2. CASE \E k \in Pages : StartRefresh(k)
  <2>1. PICK k \in Pages : StartRefresh(k)
    BY <1>2
  <2>2. RefreshOf[k] \in Requests /\ memory[k] \in Tokens
    BY <2>1 DEF PagesAssumption, StartRefresh, ClientTypeOK, Tokens, AccountsAssumption
  <2> QED
    BY <2>1, <2>2, RequestKeepsInv DEF StartRefresh
<1>3. CASE \E k \in Pages : LogOut(k)
  <2>1. PICK k \in Pages : LogOut(k)
    BY <1>3
  <2>2. FormOf[k] \in Requests /\ memory[k] \in Tokens
    BY <2>1 DEF PagesAssumption, LogOut, ClientTypeOK, Tokens, AccountsAssumption
  <2> QED
    BY <2>1, <2>2, RequestKeepsInv DEF LogOut
<1>4. CASE \E k \in Pages : Submit(k)
  <2>1. PICK k \in Pages : Submit(k)
    BY <1>4
  <2>2. FormOf[k] \in Requests
    BY DEF PagesAssumption
  <2> QED
    BY <2>1, <2>2, RequestKeepsInv DEF Submit
<1>5. CASE \E r \in Requests : Receive(r) \/ Finishes(r)
  BY <1>5, RequestKeepsInv
<1>6. ASSUME NEW k \in Pages, Answered(k) PROVE AccountsInv'
  <2>1. RefreshOf[k] \in Requests /\ FormOf[k] \in Requests
    BY DEF PagesAssumption
  <2> QED
    BY <1>1, <1>5, <1>6, <2>1
       DEF Answered, RefreshAnswered, SubmitAnswered, MeAnswered, LogoutAnswered, Unread
<1> QED
  BY <1>1, <1>2, <1>3, <1>4, <1>5, <1>6
     DEF ClientNext, LoadPage, RefreshFails, MeFails, LogoutFails, Serve, vars

\* A pair that arrives: from the request slot r, which goes idle.
LEMMA ArrivalKeepsInv ==
    ASSUME ClientInv, AccountsAssumption, AccountsInv', NEW k \in Pages, NEW r \in Requests,
           request[r].at = "answered", SetTokens(k, request[r].token), Receive(r),
           UNCHANGED <<shown, loads, losses>>,
           refreshing' \in {refreshing, [refreshing EXCEPT ![k] = FALSE]},
           form' \in [Pages -> {"none", "login", "me", "logout"}]
    PROVE  ClientInv'
<1> PICK t : t = request[r].token
  OBVIOUS
<1>1. /\ request'[r] = Idle /\ \A q \in Requests \ {r} : request'[q] = request[q]
      /\ UNCHANGED tables
  BY IdleTyped, GoesOn DEF Receive, ClientInv, AccountsInv
<1>2. t \in 0..issued
  BY DEF ClientInv, AnswersAreFresh, Issued, AccountsInv, TypeOK, AccountsAssumption
<1>3. t # 0 => \A l \in Pages : memory[l] # t /\ t \notin shown[l]
  BY DEF ClientInv, AnswersAreFresh
<1>4. t # 0 => \A q \in Requests \ {r} : request[q].at = "answered" => request[q].token # t
  BY DEF ClientInv, AnswersAreFresh
<1>5. SetTokens(k, t) /\ t \in 0..MaxTokens
  BY <1>2 DEF SetTokens, ClientInv, AccountsInv, TypeOK, AccountsAssumption
<1>6. ClientTypeOK'
  BY <1>5 DEF ClientInv, ClientTypeOK, SetTokens
<1>7. \A q \in Requests :
         \/ request'[q] = request[q] /\ (t # 0 => request[q].token # t \/ request[q].at # "answered")
         \/ request'[q] = Idle
  BY <1>1, <1>4
<1> QED
  BY <1>1, <1>2, <1>3, <1>5, <1>6, <1>7, TakesKeepInv

\* A pair that is dropped, without an answer.
LEMMA DropKeepsInv ==
    ASSUME ClientInv, AccountsAssumption, AccountsInv', NEW k \in Pages, SetTokens(k, 0),
           UNCHANGED accountVars, UNCHANGED <<shown, loads>>, losses' \in Nat,
           refreshing' \in {refreshing, [refreshing EXCEPT ![k] = FALSE]},
           form' \in [Pages -> {"none", "login", "me", "logout"}]
    PROVE  ClientInv'
<1>1. UNCHANGED tables /\ request' = request /\ 0 \in 0..issued /\ 0 \in 0..MaxTokens
  BY DEF accountVars, ClientInv, AccountsInv, TypeOK, AccountsAssumption
<1>2. ClientTypeOK'
  BY <1>1 DEF ClientInv, ClientTypeOK, SetTokens
<1> QED
  BY <1>1, <1>2, TakesKeepInv

LEMMA FormTyped ==
    ASSUME ClientInv, NEW k \in Pages, NEW f \in {"none", "login", "me", "logout"},
           form' = [form EXCEPT ![k] = f]
    PROVE  form' \in [Pages -> {"none", "login", "me", "logout"}]
BY DEF ClientInv, ClientTypeOK

\* Logging in or registering, and logging out, begin with a read.
LEMMA FormsKeepInv ==
    ASSUME ClientInv, AccountsAssumption, PagesAssumption, AccountsInv', NEW k \in Pages,
           Submit(k) \/ LogOut(k)
    PROVE  ClientInv'
<1>1. FormOf[k] \in Requests
  BY DEF PagesAssumption
<1>2. CASE Submit(k)
  <2>1. PICK u \in Users : RegisterCheck(FormOf[k], u) \/ LoginCheck(FormOf[k], u)
    BY <1>2 DEF Submit
  <2>2. PICK a \in {"registering", "loggingIn"} : Goes(FormOf[k], Reads(a, u, 0))
    BY <2>1 DEF RegisterCheck, LoginCheck
  <2>3. UNCHANGED tables
    BY <2>1 DEF RegisterCheck, LoginCheck
  <2>4. Reads(a, u, 0) \in Locals /\ Reads(a, u, 0).at \notin {"answered", "reused", "rotating"}
    BY <2>2, ReadsTyped DEF States, AccountsAssumption, Reads
  <2>5. form' \in [Pages -> {"none", "login", "me", "logout"}]
    BY <1>2, FormTyped DEF Submit
  <2> QED
    BY <1>1, <1>2, <2>2, <2>3, <2>4, <2>5, QuietKeepsInv DEF Submit
<1>3. CASE LogOut(k)
  <2>1. Goes(FormOf[k], Reads("leaving", Nobody, memory[k])) /\ UNCHANGED tables
    BY <1>3 DEF LogOut, LogoutRead
  <2>2. memory[k] \in 0..MaxTokens
    BY DEF ClientInv, ClientTypeOK
  <2>3. /\ Reads("leaving", Nobody, memory[k]) \in Locals
        /\ Reads("leaving", Nobody, memory[k]).at \notin {"answered", "reused", "rotating"}
    BY <2>2, ReadsTyped DEF States, AccountsAssumption, Reads
  <2>4. form' \in [Pages -> {"none", "login", "me", "logout"}]
    BY <1>3, FormTyped DEF LogOut
  <2> QED
    BY <1>1, <1>3, <2>1, <2>3, <2>4, QuietKeepsInv DEF LogOut
<1> QED
  BY <1>2, <1>3

\* An answer that brings no pair, or that nobody waits for.
LEMMA ForgetKeepsInv ==
    ASSUME ClientInv, AccountsAssumption, AccountsInv', NEW r \in Requests, Receive(r),
           UNCHANGED <<memory, storage, shown, refreshing, loads, losses>>,
           form' \in [Pages -> {"none", "login", "me", "logout"}]
    PROVE  ClientInv'
<1>1. Goes(r, Idle) /\ UNCHANGED tables
  BY DEF Receive
<1>2. Idle \in Locals /\ Idle.at \notin {"answered", "reused", "rotating"}
  BY IdleTyped DEF Idle, Reads
<1> QED
  BY <1>1, <1>2, QuietKeepsInv

LEMMA AnsweredKeepsInv ==
    ASSUME ClientInv, AccountsAssumption, PagesAssumption, AccountsInv', NEW k \in Pages,
           Answered(k)
    PROVE  ClientInv'
<1>1. RefreshOf[k] \in Requests /\ FormOf[k] \in Requests
  BY DEF PagesAssumption
<1>2. CASE RefreshAnswered(k)
  <2>1. form' \in [Pages -> {"none", "login", "me", "logout"}]
    BY <1>2 DEF RefreshAnswered, ClientInv, ClientTypeOK
  <2> QED
    BY <1>1, <1>2, <2>1, ArrivalKeepsInv DEF RefreshAnswered
<1>3. CASE SubmitAnswered(k)
  <2>1. form' \in [Pages -> {"none", "login", "me", "logout"}]
    BY <1>3, FormTyped DEF SubmitAnswered
  <2>2. CASE request[FormOf[k]].token = 0
    BY <1>1, <1>3, <2>1, <2>2, ForgetKeepsInv DEF SubmitAnswered
  <2>3. CASE request[FormOf[k]].token # 0
    BY <1>1, <1>3, <2>1, <2>3, ArrivalKeepsInv DEF SubmitAnswered
  <2> QED
    BY <2>2, <2>3
<1>4. CASE MeAnswered(k)
  <2>1. form' \in [Pages -> {"none", "login", "me", "logout"}]
    BY <1>4, FormTyped DEF MeAnswered
  <2>2. /\ UNCHANGED <<issued, replaced>> /\ request' = request
        /\ UNCHANGED <<memory, storage, refreshing, shown, loads, losses>>
    BY <1>4 DEF MeAnswered, accountVars, tables
  <2> QED
    BY <2>1, <2>2
       DEF ClientInv, ClientTypeOK, AnswersAreFresh, PagesInStep, OnePageEach, Issued
<1>5. CASE LogoutAnswered(k)
  <2>1. form' \in [Pages -> {"none", "login", "me", "logout"}]
    BY <1>5, FormTyped DEF LogoutAnswered
  <2>2. /\ request'[FormOf[k]] = Idle /\ UNCHANGED tables
        /\ \A q \in Requests \ {FormOf[k]} : request'[q] = request[q]
    BY <1>1, <1>5, IdleTyped, GoesOn DEF LogoutAnswered, Receive, ClientInv, AccountsInv
  <2>3. 0 \in 0..issued /\ 0 \in 0..MaxTokens
    BY DEF ClientInv, AccountsInv, TypeOK, AccountsAssumption
  <2>4. SetTokens(k, 0) /\ UNCHANGED <<refreshing, shown, loads, losses>>
    BY <1>5 DEF LogoutAnswered
  <2>5. ClientTypeOK'
    BY <2>1, <2>3, <2>4 DEF ClientInv, ClientTypeOK, SetTokens
  <2> QED
    BY <1>1, <2>2, <2>3, <2>4, <2>5, TakesKeepInv
<1>6. CASE Unread(k)
  <2>1. form' \in [Pages -> {"none", "login", "me", "logout"}]
    BY <1>6 DEF Unread, pageVars, ClientInv, ClientTypeOK
  <2> QED
    BY <1>1, <1>6, <2>1, ForgetKeepsInv DEF Unread, pageVars
<1> QED
  BY <1>2, <1>3, <1>4, <1>5, <1>6, <1>1 DEF Answered

LEMMA FailuresKeepInv ==
    ASSUME ClientInv, AccountsAssumption, AccountsInv', NEW k \in Pages,
           RefreshFails(k) \/ MeFails(k) \/ LogoutFails(k)
    PROVE  ClientInv'
<1>1. losses' \in Nat
  BY DEF RefreshFails, MeFails, LogoutFails, ClientInv, ClientTypeOK
<1>2. form' \in [Pages -> {"none", "login", "me", "logout"}]
  BY FormTyped DEF RefreshFails, MeFails, LogoutFails, ClientInv, ClientTypeOK
<1> QED
  BY <1>1, <1>2, DropKeepsInv DEF RefreshFails, MeFails, LogoutFails

LEMMA StepKeepsClientInv ==
    ASSUME ClientInv, AccountsAssumption, PagesAssumption, [ClientNext]_vars
    PROVE  ClientInv'
<1>1. AccountsInv'
  BY TablesStayRight DEF ClientInv
<1>2. CASE UNCHANGED vars
  <2>1. UNCHANGED <<tables, request, pageVars>>
    BY <1>2 DEF vars, accountVars
  <2> QED
    BY <1>1, <2>1 DEF tables, pageVars, ClientInv, ClientTypeOK, AnswersAreFresh,
                      PagesInStep, OnePageEach, Issued
<1>3. ASSUME NEW k \in Pages,
             \/ LoadPage(k) \/ StartRefresh(k) \/ RefreshFails(k) \/ Submit(k)
             \/ MeFails(k) \/ LogOut(k) \/ LogoutFails(k) \/ Answered(k)
      PROVE  ClientInv'
  BY <1>1, <1>3, LoadKeepsInv, StartRefreshKeepsInv, FailuresKeepInv, FormsKeepInv, AnsweredKeepsInv
<1>4. ASSUME NEW r \in Requests, Serve(r) PROVE ClientInv'
  BY <1>1, <1>4, ServeKeepsInv
<1> QED
  BY <1>2, <1>3, <1>4 DEF ClientNext

-----------------------------------------------------------------------------
\* The inductive invariant holds of every behaviour: an answer on its way is
\* nobody's yet, and a page keeps a token it posted only while it waits.
THEOREM ClientInvariance == ClientSpec => []ClientInv
<1>1. ClientInit => ClientInv
  BY ClientInitEstablishes, AccountsAssumption, PagesAssumption
<1>2. ClientInv /\ [ClientNext]_vars => ClientInv'
  BY StepKeepsClientInv, AccountsAssumption, PagesAssumption
<1> QED
  BY <1>1, <1>2, PTL DEF ClientSpec

\* Reuse is found only after some page was loaded on a stored pair: the pages'
\* own refreshes, logins and lost calls never trigger it (refreshSession).
THEOREM ReuseTakesAReload == ClientSpec => []ReuseNeedsReload
<1>1. ClientInv => ReuseNeedsReload
  BY DEF ClientInv, ClientTypeOK, OnePageEach, ReuseNeedsReload
<1> QED
  BY <1>1, ClientInvariance, PTL

\* A page never posts a refresh token it has posted since it was loaded.
THEOREM PostsOnce == ClientSpec => NeverShownTwice
<1>1. ASSUME ClientInv, [ClientNext]_vars, NEW k \in Pages, ~refreshing[k], refreshing'[k]
      PROVE  memory[k] \notin shown[k]
  BY <1>1 DEF ClientInv, PagesInStep
<1>2. ClientInv /\ [ClientNext]_vars
      => [\A k \in Pages : ~refreshing[k] /\ refreshing'[k] => memory[k] \notin shown[k]]_vars
  BY <1>1
<1> QED
  BY <1>2, ClientInvariance, PTL DEF ClientSpec, NeverShownTwice

\* Whatever its pages do, a browser asks of the tables what Accounts allows: its
\* requests are requests of the API, and the pages keep the rest to themselves.
THEOREM ClientIsAccounts == ClientSpec => Spec
<1>1. ClientInit => Init
  BY DEF ClientInit
<1>2. ClientInv /\ [ClientNext]_vars => [Next]_accountVars
  <2> SUFFICES ASSUME ClientInv, [ClientNext]_vars PROVE [Next]_accountVars
    OBVIOUS
  <2>1. CASE UNCHANGED vars
    BY <2>1 DEF vars
  <2>2. ASSUME NEW r \in Requests, Serve(r) PROVE Next
    BY <2>2 DEF Serve, Next
  <2>3. ASSUME NEW k \in Pages,
               \/ LoadPage(k) \/ StartRefresh(k) \/ RefreshFails(k) \/ Submit(k)
               \/ MeFails(k) \/ LogOut(k) \/ LogoutFails(k) \/ Answered(k)
        PROVE  [Next]_accountVars
    <3>1. RefreshOf[k] \in Requests /\ FormOf[k] \in Requests
      BY PagesAssumption
    <3>2. memory[k] # 0 => memory[k] \in Tokens
      BY DEF ClientInv, ClientTypeOK, Tokens, AccountsInv, TypeOK
    <3>3. CASE StartRefresh(k) \/ LogOut(k)
      BY <3>1, <3>2, <3>3 DEF StartRefresh, LogOut, Next
    <3>4. CASE Submit(k)
      BY <3>1, <3>4 DEF Submit, Next
    <3>5. CASE Answered(k)
      BY <3>1, <3>5 DEF Answered, RefreshAnswered, SubmitAnswered, MeAnswered, LogoutAnswered,
         Unread, Next
    <3>6. CASE LoadPage(k) \/ RefreshFails(k) \/ MeFails(k) \/ LogoutFails(k)
      BY <3>6 DEF LoadPage, RefreshFails, MeFails, LogoutFails
    <3> QED
      BY <2>3, <3>3, <3>4, <3>5, <3>6
  <2> QED
    BY <2>1, <2>2, <2>3 DEF ClientNext
<1> QED
  BY <1>1, <1>2, ClientInvariance, PTL DEF ClientSpec, Spec

\* So what the tables promise holds with the pages of a browser before them:
\* tabs that race or lose answers do not multiply sessions, and a reuse ends them.
THEOREM SessionsStayCounted == ClientSpec => []LiveIsCounted /\ ReuseEndsSessions
BY ClientIsAccounts, LiveStaysCounted, ReuseEnds
=============================================================================
