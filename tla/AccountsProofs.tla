---------------------------- MODULE AccountsProofs ----------------------------
(***************************************************************************)
(* The theorems of Accounts: AccountsInv is inductive, and what the tables *)
(* promise follows from it step by step, for any number of users, tokens   *)
(* and concurrent requests.                                                *)
(***************************************************************************)
EXTENDS Accounts, FiniteSetTheorems, TLAPS

\* A request that moves on leaves the others where they are.
LEMMA GoesOn ==
    ASSUME TypeOK, NEW r \in Requests, NEW s \in Locals, Goes(r, s)
    PROVE  /\ request' \in [Requests -> Locals]
           /\ request'[r] = s
           /\ \A q \in Requests \ {r} : request'[q] = request[q]
BY DEF TypeOK, Goes

LEMMA ReadsTyped ==
    ASSUME AccountsAssumption, NEW a \in States, NEW u \in Users \cup {Nobody}, NEW t \in 0..MaxTokens
    PROVE  Reads(a, u, t) \in Locals
BY DEF Reads, Locals, AccountsAssumption

LEMMA IdleTyped == AccountsAssumption => Idle \in Locals
BY ReadsTyped DEF AccountsAssumption, Idle, States

LEMMA InitEstablishes == AccountsAssumption /\ Init => AccountsInv
<1> SUFFICES ASSUME AccountsAssumption, Init PROVE AccountsInv
  OBVIOUS
<1>1. TypeOK
  BY IdleTyped DEF Init, TypeOK, AccountsAssumption, Tokens, Issued
<1>2. ChainsHold
  BY DEF Init, ChainsHold, AccountsAssumption, Tokens, Issued
<1>3. ASSUME NEW r \in Requests PROVE InStep(request[r])
  BY DEF Init, InStep, Idle, Reads
<1> QED
  BY <1>1, <1>2, <1>3 DEF AccountsInv

\* What no step takes back.
Grows ==
    /\ issued <= issued'
    /\ \A t \in Issued : holder'[t] = holder[t]
    /\ revoked \subseteq revoked'
    /\ \A u \in Users : account[u] # "none" => account'[u] # "none"

\* So what a request has read stays true while others commit.
LEMMA ReadsStayTrue ==
    ASSUME TypeOK, AccountsAssumption, NEW q \in Locals, InStep(q), Grows, issued' \in Nat
    PROVE  InStep(q)'
<1>1. issued \in Nat /\ Issued \subseteq Issued'
  BY DEF TypeOK, Grows, Issued, AccountsAssumption
<1>2. ASSUME q.at = "reused", NEW t \in 1..q.upto, holder'[t] = q.user
      PROVE  t \in q.seen \cup revoked'
  <2>1. q.upto \in 0..issued /\ t \in Issued
    BY <1>1, <1>2 DEF InStep, Issued
  <2>2. holder[t] = q.user
    BY <2>1, <1>2 DEF Grows
  <2> QED
    BY <2>2, <1>2 DEF InStep, Grows
<1>3. q.at = "reused" => q.seen \subseteq Issued' /\ q.upto \in 0..issued'
  BY <1>1 DEF InStep, Grows
<1> QED
  BY <1>1, <1>2, <1>3 DEF InStep, Grows

\* The other half of a step: the request that makes it.
LEMMA RequestsStayInStep ==
    ASSUME AccountsInv, AccountsAssumption, NEW r \in Requests, NEW s \in Locals, Goes(r, s),
           Grows, issued' \in Nat, InStep(s)'
    PROVE  \A q \in Requests : InStep(request[q])'
<1> USE DEF AccountsInv
<1>1. /\ request'[r] = s
      /\ \A q \in Requests \ {r} : request'[q] = request[q]
  BY GoesOn
<1> SUFFICES ASSUME NEW q \in Requests PROVE InStep(request[q])'
  OBVIOUS
<1>2. CASE q = r
  BY <1>1, <1>2 DEF InStep
<1>3. CASE q # r
  <2>1. request[q] \in Locals /\ InStep(request[q])
    BY DEF TypeOK
  <2> DEFINE s0 == request[q]
  <2>2. PICK s1 \in Locals : s1 = request[q] /\ InStep(s1)
    BY <2>1
  <2>3. InStep(s1)'
    BY <2>2, ReadsStayTrue
  <2>4. request'[q] = s1
    BY <1>1, <1>3, <2>2
  <2> QED
    BY <2>3, <2>4 DEF InStep
<1> QED
  BY <1>2, <1>3

-----------------------------------------------------------------------------
\* A step that only reads.
LEMMA OnlyReads ==
    ASSUME AccountsInv, AccountsAssumption, NEW r \in Requests, NEW s \in Locals, Goes(r, s),
           UNCHANGED tables, InStep(s)
    PROVE  AccountsInv'
<1>1. InStep(s)' /\ Grows /\ issued' \in Nat
  BY DEF InStep, tables, Grows, AccountsInv, TypeOK, AccountsAssumption, Issued
<1>2. \A q \in Requests : InStep(request[q])'
  BY <1>1, RequestsStayInStep
<1>3. TypeOK'
  BY GoesOn DEF AccountsInv, TypeOK, tables, Issued
<1>4. ChainsHold'
  BY DEF AccountsInv, ChainsHold, tables, Issued
<1> QED
  BY <1>2, <1>3, <1>4 DEF AccountsInv

LEMMA ChecksKeepInv ==
    ASSUME AccountsInv, AccountsAssumption, NEW r \in Requests, NEW u \in Users,
           RegisterCheck(r, u) \/ LoginCheck(r, u)
    PROVE  AccountsInv'
<1>1. PICK a \in {"registering", "loggingIn"} : Goes(r, Reads(a, u, 0)) /\ UNCHANGED tables
  BY DEF RegisterCheck, LoginCheck
<1>2. Reads(a, u, 0) \in Locals
  BY ReadsTyped DEF States, AccountsAssumption
<1>3. InStep(Reads(a, u, 0))
  BY DEF InStep, Reads
<1> QED
  BY <1>1, <1>2, <1>3, OnlyReads

LEMMA LeavingOrValid ==
    ASSUME AccountsInv, AccountsAssumption, NEW r \in Requests, NEW t \in Tokens,
           LogoutRead(r, t) \/ RefreshValid(r, t)
    PROVE  AccountsInv'
<1>1. PICK a \in {"leaving", "rotating"} : Goes(r, Reads(a, Nobody, t)) /\ UNCHANGED tables
  BY DEF LogoutRead, RefreshValid
<1>2. Reads(a, Nobody, t) \in Locals /\ t \in Issued
  BY ReadsTyped DEF States, AccountsAssumption, Tokens, LogoutRead, RefreshValid
<1>3. InStep(Reads(a, Nobody, t))
  BY <1>2 DEF InStep, Reads
<1> QED
  BY <1>1, <1>2, <1>3, OnlyReads

LEMMA RefusalsKeepInv ==
    ASSUME AccountsInv, AccountsAssumption, NEW r \in Requests,
           RegisterCollides(r) \/ (\E t \in Tokens : RefreshRefused(r, t))
    PROVE  AccountsInv'
<1>1. Goes(r, Reads("answered", Nobody, 0)) /\ UNCHANGED tables
  BY DEF RegisterCollides, RefreshRefused, Answers
<1>2. Reads("answered", Nobody, 0) \in Locals
  BY ReadsTyped DEF States, AccountsAssumption
<1>3. InStep(Reads("answered", Nobody, 0))
  BY DEF InStep, Reads
<1> QED
  BY <1>1, <1>2, <1>3, OnlyReads

LEMMA ReceiveKeepsInv ==
    ASSUME AccountsInv, AccountsAssumption, NEW r \in Requests, Receive(r)
    PROVE  AccountsInv'
<1>1. InStep(Idle) /\ Idle \in Locals
  BY IdleTyped DEF InStep, Idle, Reads
<1> QED
  BY <1>1, OnlyReads DEF Receive

LEMMA ReusedKeepsInv ==
    ASSUME AccountsInv, AccountsAssumption, NEW r \in Requests, NEW t \in Tokens,
           RefreshReused(r, t)
    PROVE  AccountsInv'
<1> PICK s : s = [at |-> "reused", user |-> holder[t], token |-> t,
                  seen |-> TokensOf(holder[t]), upto |-> issued,
                  by |-> Nobody, active |-> "keep", admin |-> "keep"]
  OBVIOUS
<1>1. Goes(r, s) /\ UNCHANGED tables /\ t \in Issued
  BY DEF RefreshReused
<1>2. Issued \subseteq Tokens /\ issued \in 0..MaxTokens /\ Live \subseteq Issued
  BY DEF AccountsInv, TypeOK, Issued, Tokens, AccountsAssumption, Live
<1>3. s \in Locals
  <2>1. TokensOf(holder[t]) \subseteq Tokens
    BY <1>2 DEF TokensOf
  <2>2. holder[t] \in Users \cup {Nobody}
    BY DEF AccountsInv, TypeOK
  <2>3. t \in 0..MaxTokens
    BY DEF Tokens, AccountsAssumption
  <2> QED
    BY <2>1, <2>2, <2>3, <1>2 DEF Locals, States
<1>4. InStep(s)
  BY <1>1, <1>2 DEF InStep, TokensOf, Live, Issued
<1> QED
  BY <1>1, <1>3, <1>4, OnlyReads

LEMMA PatchCheckKeepsInv ==
    ASSUME AccountsInv, AccountsAssumption, NEW r \in Requests, NEW a \in Users, NEW u \in Users,
           NEW active \in {"keep", "active", "inactive"}, NEW admin \in {"keep", "yes", "no"},
           PatchCheck(r, a, u, active, admin)
    PROVE  AccountsInv'
<1> PICK s : s = PatchOf(a, u, active, admin)
  OBVIOUS
<1>1. Goes(r, s) /\ UNCHANGED tables
  BY DEF PatchCheck
<1>2. s \in Locals
  BY DEF Locals, States, PatchOf, AccountsAssumption
<1>3. /\ s.at = "patching" /\ s.by = a /\ s.user = u
      /\ s.active \in {"keep", active} /\ s.admin \in {"keep", admin}
  BY DEF PatchOf
<1>4. InStep(s)
  BY <1>3 DEF InStep, PatchCheck
<1> QED
  BY <1>1, <1>2, <1>4, OnlyReads

-----------------------------------------------------------------------------
\* A new row at the end of the table, for u, made from a token of hers or none.
LEMMA IssueTyped ==
    ASSUME TypeOK, AccountsAssumption, NEW u \in Users, NEW t \in 0..MaxTokens, Issue(u, t)
    PROVE  /\ issued' = issued + 1 /\ issued' \in 0..MaxTokens /\ issued \in Nat
           /\ issued' \in Tokens /\ issued' \notin Issued /\ Issued' = Issued \cup {issued'}
           /\ holder' \in [Tokens -> Users \cup {Nobody}] /\ from' \in [Tokens -> 0..MaxTokens]
           /\ holder'[issued'] = u /\ from'[issued'] = t
           /\ \A n \in Tokens \ {issued'} : holder'[n] = holder[n] /\ from'[n] = from[n]
<1>1. issued \in Nat /\ MaxTokens \in Nat /\ issued' = issued + 1 /\ issued' \in 1..MaxTokens
  BY DEF TypeOK, Issue, AccountsAssumption
<1>2. Issued' = Issued \cup {issued'} /\ issued' \notin Issued
  BY <1>1 DEF Issued
<1> QED
  BY <1>1, <1>2 DEF TypeOK, Issue, Tokens

\* A login or registration starts a chain of its own.
LEMMA NewChain ==
    ASSUME AccountsInv, AccountsAssumption, NEW u \in Users, Issue(u, 0),
           UNCHANGED <<replaced, revoked>>
    PROVE  ChainsHold'
<1> USE DEF AccountsInv
<1>0. 0 \in 0..MaxTokens
  BY DEF AccountsAssumption
<1>1. /\ issued' \in Tokens /\ issued' \notin Issued /\ Issued' = Issued \cup {issued'}
      /\ holder'[issued'] = u /\ from'[issued'] = 0
      /\ \A n \in Tokens \ {issued'} : holder'[n] = holder[n] /\ from'[n] = from[n]
  BY <1>0, IssueTyped
<1> SUFFICES ASSUME NEW t \in Tokens
             PROVE  /\ replaced[t] # 0 => /\ replaced[t] \in Issued' /\ replaced[t] > t
                                          /\ from'[replaced[t]] = t /\ t \in revoked
                    /\ from'[t] # 0 => /\ t \in Issued' /\ from'[t] < t
                                       /\ replaced[from'[t]] >= t
                                       /\ holder'[from'[t]] = holder'[t]
                    /\ t \in Issued' => holder'[t] \in Users
                    /\ t \notin Issued' => holder'[t] = Nobody
  BY DEF ChainsHold
<1>2. replaced[t] # 0 => replaced[t] \in Issued /\ replaced[t] > t /\ from[replaced[t]] = t /\ t \in revoked
  BY DEF ChainsHold
<1>3. Issued \subseteq Tokens
  BY DEF TypeOK, Issued, Tokens, AccountsAssumption
<1>4. replaced[t] # 0 => from'[replaced[t]] = t /\ replaced[t] \in Issued'
  BY <1>1, <1>2, <1>3
<1>5. CASE t = issued'
  BY <1>1, <1>2, <1>4, <1>5
<1>6. CASE t # issued'
  <2>1. from'[t] = from[t] /\ holder'[t] = holder[t]
    BY <1>1, <1>6
  <2>2. ASSUME from[t] # 0
        PROVE  t \in Issued /\ from[t] < t /\ replaced[from[t]] >= t /\ holder[from[t]] = holder[t]
               /\ from[t] \in Issued
    <3>1. t \in Issued /\ from[t] < t /\ replaced[from[t]] >= t /\ holder[from[t]] = holder[t]
      BY <2>2 DEF ChainsHold
    <3> QED
      BY <3>1, <2>2 DEF TypeOK, Issued
  <2>3. from[t] # 0 => holder'[from[t]] = holder[from[t]]
    BY <2>2, <1>1, <1>3
  <2> QED
    BY <1>1, <1>2, <1>4, <1>6, <2>1, <2>2, <2>3 DEF ChainsHold
<1> QED
  BY <1>5, <1>6

\* The answer of a request that committed.
LEMMA AnswerInStep ==
    ASSUME AccountsAssumption, NEW t \in 0..MaxTokens
    PROVE  Reads("answered", Nobody, t) \in Locals /\ InStep(Reads("answered", Nobody, t))'
BY ReadsTyped DEF States, InStep, Reads

LEMMA LoginsKeepInv ==
    ASSUME AccountsInv, AccountsAssumption, NEW r \in Requests,
           RegisterCommit(r) \/ LoginCommit(r)
    PROVE  AccountsInv'
<1> PICK u : u = request[r].user
  OBVIOUS
<1> PICK n : n = issued + 1
  OBVIOUS
<1>1. /\ Issue(u, 0) /\ Goes(r, Reads("answered", Nobody, n)) /\ UNCHANGED <<admins, replaced, revoked>>
      /\ account' = account \/ account' = [account EXCEPT ![u] = "active"]
      /\ request[r].at \in {"registering", "loggingIn"}
  BY DEF RegisterCommit, LoginCommit, Answers
<1>2. u \in Users
  BY <1>1 DEF AccountsInv, InStep
<1>3. 0 \in 0..MaxTokens
  BY DEF AccountsAssumption
<1>4. /\ issued' = n /\ issued' \in 0..MaxTokens /\ issued \in Nat /\ Issued' = Issued \cup {n}
      /\ n \notin Issued
      /\ holder' \in [Tokens -> Users \cup {Nobody}] /\ from' \in [Tokens -> 0..MaxTokens]
      /\ \A t \in Tokens \ {n} : holder'[t] = holder[t]
  BY <1>1, <1>2, <1>3, IssueTyped DEF AccountsInv
<1>5. Grows /\ issued' \in Nat
  <2>1. Issued \subseteq Tokens \ {n}
    BY <1>4 DEF AccountsInv, TypeOK, Issued, Tokens, AccountsAssumption
  <2>2. \A v \in Users : account[v] # "none" => account'[v] # "none"
    BY <1>1, <1>2 DEF AccountsInv, TypeOK
  <2> QED
    BY <1>1, <1>4, <2>1, <2>2 DEF Grows, AccountsAssumption
<1>6. Reads("answered", Nobody, n) \in Locals /\ InStep(Reads("answered", Nobody, n))'
  BY <1>4, AnswerInStep
<1>7. \A q \in Requests : InStep(request[q])'
  BY <1>1, <1>5, <1>6, RequestsStayInStep
<1>8. TypeOK'
  <2>1. request' \in [Requests -> Locals]
    BY <1>1, <1>6, GoesOn DEF AccountsInv
  <2>2. account' \in [Users -> {"none", "active", "inactive"}]
    BY <1>1 DEF AccountsInv, TypeOK
  <2> QED
    BY <1>1, <1>4, <2>1, <2>2 DEF AccountsInv, TypeOK
<1>9. ChainsHold'
  BY <1>1, <1>2, NewChain
<1> QED
  BY <1>7, <1>8, <1>9 DEF AccountsInv

\* A rotation adds a token below the one it was shown, and links it.
LEMMA LongerChain ==
    ASSUME AccountsInv, AccountsAssumption, NEW m \in Issued, NEW n, n = issued + 1,
           Issue(holder[m], m), revoked' = revoked \cup {m},
           replaced' = [replaced EXCEPT ![m] = n]
    PROVE  ChainsHold' /\ replaced' \in [Tokens -> 0..MaxTokens]
<1> USE DEF AccountsInv
<1>0. m \in Tokens /\ m \in 0..MaxTokens /\ holder[m] \in Users /\ Issued \subseteq Tokens /\ m < n
      /\ issued \in Nat /\ m \in Nat
  BY DEF ChainsHold, TypeOK, Issued, Tokens, AccountsAssumption
<1>1. /\ n = issued' /\ n \in Tokens /\ n \notin Issued /\ Issued' = Issued \cup {n}
      /\ holder'[n] = holder[m] /\ from'[n] = m
      /\ \A t \in Tokens \ {n} : holder'[t] = holder[t] /\ from'[t] = from[t]
  <2> PICK u \in Users : u = holder[m]
    BY <1>0
  <2> QED
    BY <1>0, IssueTyped
<1>2. /\ replaced' \in [Tokens -> 0..MaxTokens] /\ replaced'[m] = n
      /\ \A t \in Tokens \ {m} : replaced'[t] = replaced[t]
  BY <1>0, <1>1 DEF TypeOK, Tokens, AccountsAssumption
<1>3. ASSUME NEW t \in Tokens, replaced'[t] # 0
      PROVE  replaced'[t] \in Issued' /\ replaced'[t] > t /\ from'[replaced'[t]] = t /\ t \in revoked'
  <2>1. CASE t = m
    BY <1>0, <1>1, <1>2, <2>1
  <2>2. CASE t # m
    <3>1. replaced[t] \in Issued /\ replaced[t] > t /\ from[replaced[t]] = t /\ t \in revoked
      BY <1>2, <1>3, <2>2 DEF ChainsHold
    <3> QED
      BY <1>0, <1>1, <1>2, <2>2, <3>1
  <2> QED
    BY <2>1, <2>2
<1>4. ASSUME NEW t \in Tokens, from'[t] # 0
      PROVE  t \in Issued' /\ from'[t] < t /\ replaced'[from'[t]] >= t /\ holder'[from'[t]] = holder'[t]
  <2>1. CASE t = n
    BY <1>0, <1>1, <1>2, <2>1
  <2>2. CASE t # n
    <3>1. from'[t] = from[t] /\ holder'[t] = holder[t]
      BY <1>1, <2>2
    <3>2. t \in Issued /\ from[t] < t /\ replaced[from[t]] >= t /\ holder[from[t]] = holder[t]
      BY <1>4, <3>1 DEF ChainsHold
    <3>3. from[t] \in Issued /\ from[t] # n /\ from[t] \in Tokens
      BY <1>0, <1>1, <1>4, <3>1, <3>2 DEF TypeOK, Issued
    <3>4. replaced'[from[t]] >= t
      <4>1. t <= n
        BY <1>1, <3>2, <1>0 DEF Issued
      <4> QED
        BY <4>1, <1>2, <3>2, <3>3
    <3> QED
      BY <1>1, <3>1, <3>2, <3>3, <3>4
  <2> QED
    BY <2>1, <2>2
<1>5. ASSUME NEW t \in Tokens
      PROVE  (t \in Issued' => holder'[t] \in Users) /\ (t \notin Issued' => holder'[t] = Nobody)
  BY <1>0, <1>1 DEF ChainsHold
<1> QED
  BY <1>2, <1>3, <1>4, <1>5 DEF ChainsHold

LEMMA RotateKeepsInv ==
    ASSUME AccountsInv, AccountsAssumption, NEW r \in Requests, RotateCommit(r)
    PROVE  AccountsInv'
<1> PICK m : m = request[r].token
  OBVIOUS
<1> PICK n : n = issued + 1
  OBVIOUS
<1>1. /\ Issue(holder[m], m) /\ Goes(r, Reads("answered", Nobody, n))
      /\ revoked' = revoked \cup {m} /\ replaced' = [replaced EXCEPT ![m] = n]
      /\ UNCHANGED <<account, admins>> /\ request[r].at = "rotating"
  BY DEF RotateCommit, Answers
<1>2. m \in Issued
  BY <1>1 DEF AccountsInv, InStep
<1>3. m \in Tokens /\ m \in 0..MaxTokens /\ holder[m] \in Users
  BY <1>2 DEF AccountsInv, ChainsHold, TypeOK, Issued, Tokens, AccountsAssumption
<1> PICK u \in Users : u = holder[m]
  BY <1>3
<1>4. /\ issued' = n /\ issued' \in 0..MaxTokens /\ issued \in Nat /\ Issued' = Issued \cup {n}
      /\ n \notin Issued
      /\ holder' \in [Tokens -> Users \cup {Nobody}] /\ from' \in [Tokens -> 0..MaxTokens]
      /\ \A t \in Tokens \ {n} : holder'[t] = holder[t]
  BY <1>1, <1>3, IssueTyped DEF AccountsInv
<1>5. Grows /\ issued' \in Nat
  <2>1. Issued \subseteq Tokens \ {n}
    BY <1>4 DEF AccountsInv, TypeOK, Issued, Tokens, AccountsAssumption
  <2> QED
    BY <1>1, <1>4, <2>1 DEF Grows, AccountsAssumption
<1>6. Reads("answered", Nobody, n) \in Locals /\ InStep(Reads("answered", Nobody, n))'
  BY <1>4, AnswerInStep
<1>7. \A q \in Requests : InStep(request[q])'
  BY <1>1, <1>5, <1>6, RequestsStayInStep
<1>8. ChainsHold' /\ replaced' \in [Tokens -> 0..MaxTokens]
  BY <1>1, <1>2, LongerChain
<1>9. TypeOK'
  <2>1. request' \in [Requests -> Locals]
    BY <1>1, <1>6, GoesOn DEF AccountsInv
  <2>2. revoked' \subseteq Issued'
    BY <1>1, <1>2, <1>4 DEF AccountsInv, TypeOK
  <2> QED
    BY <1>1, <1>4, <1>8, <2>1, <2>2 DEF AccountsInv, TypeOK
<1> QED
  BY <1>7, <1>8, <1>9 DEF AccountsInv

LEMMA RevocationsKeepInv ==
    ASSUME AccountsInv, AccountsAssumption, NEW r \in Requests,
           RevokeAllCommit(r) \/ LogoutCommit(r)
    PROVE  AccountsInv'
<1>1. /\ Goes(r, Reads("answered", Nobody, 0))
      /\ UNCHANGED <<account, admins, issued, holder, replaced, from>>
      /\ revoked \subseteq revoked' /\ revoked' \subseteq Issued
  BY DEF RevokeAllCommit, LogoutCommit, Answers, AccountsInv, InStep, TypeOK
<1>2. Grows /\ issued' \in Nat /\ Issued' = Issued /\ 0 \in 0..MaxTokens
  BY <1>1 DEF Grows, AccountsInv, TypeOK, AccountsAssumption, Issued
<1>3. Reads("answered", Nobody, 0) \in Locals /\ InStep(Reads("answered", Nobody, 0))'
  BY <1>2, AnswerInStep
<1>4. \A q \in Requests : InStep(request[q])'
  BY <1>1, <1>2, <1>3, RequestsStayInStep
<1>5. request' \in [Requests -> Locals]
  BY <1>1, <1>3, GoesOn DEF AccountsInv
<1>6. TypeOK'
  BY <1>1, <1>2, <1>5 DEF AccountsInv, TypeOK
<1>7. ChainsHold'
  BY <1>1, <1>2 DEF AccountsInv, ChainsHold
<1> QED
  BY <1>4, <1>6, <1>7 DEF AccountsInv

LEMMA PatchKeepsInv ==
    ASSUME AccountsInv, AccountsAssumption, NEW r \in Requests, PatchCommit(r)
    PROVE  AccountsInv'
<1> PICK q \in Locals : q = request[r] /\ InStep(q)
  BY DEF AccountsInv, TypeOK
<1>1. /\ Goes(r, Reads("answered", Nobody, 0)) /\ q.at = "patching"
      /\ account' = IF q.active = "keep" THEN account ELSE [account EXCEPT ![q.user] = q.active]
      /\ admins' = CASE q.admin = "yes" -> admins \cup {q.user}
                     [] q.admin = "no" -> admins \ {q.user}
                     [] OTHER -> admins
      /\ UNCHANGED <<issued, holder, replaced, from, revoked>>
  BY DEF PatchCommit, Answers
<1>2. /\ q.user \in Users /\ account[q.user] # "none" /\ q.active \in {"keep", "active", "inactive"}
      /\ q.admin # "keep" => q.user \in Recruiters
  BY <1>1 DEF InStep, Locals
<1>3. /\ account' \in [Users -> {"none", "active", "inactive"}]
      /\ \A u \in Users : account[u] # "none" => account'[u] # "none"
  BY <1>1, <1>2 DEF AccountsInv, TypeOK
<1>4. admins' \subseteq Recruiters
  BY <1>1, <1>2 DEF AccountsInv, TypeOK
<1>5. Grows /\ issued' \in Nat /\ Issued' = Issued /\ 0 \in 0..MaxTokens
  BY <1>1, <1>3 DEF Grows, AccountsInv, TypeOK, AccountsAssumption, Issued
<1>6. Reads("answered", Nobody, 0) \in Locals /\ InStep(Reads("answered", Nobody, 0))'
  BY <1>5, AnswerInStep
<1>7. \A p \in Requests : InStep(request[p])'
  BY <1>1, <1>5, <1>6, RequestsStayInStep
<1>8. request' \in [Requests -> Locals]
  BY <1>1, <1>6, GoesOn DEF AccountsInv
<1>9. TypeOK'
  BY <1>1, <1>3, <1>4, <1>5, <1>8 DEF AccountsInv, TypeOK
<1>10. ChainsHold'
  BY <1>1, <1>5 DEF AccountsInv, ChainsHold
<1> QED
  BY <1>7, <1>9, <1>10 DEF AccountsInv

-----------------------------------------------------------------------------
\* Every step of a request, by what it does.
LEMMA RequestKeepsInv ==
    ASSUME AccountsInv, AccountsAssumption, NEW r \in Requests,
           \/ \E u \in Users : RegisterCheck(r, u) \/ LoginCheck(r, u)
           \/ \E t \in Tokens : Refresh(r, t) \/ LogoutRead(r, t)
           \/ Patches(r) \/ Finishes(r) \/ Receive(r)
    PROVE  AccountsInv'
<1>1. CASE \E u \in Users : RegisterCheck(r, u) \/ LoginCheck(r, u)
  BY <1>1, ChecksKeepInv
<1>2. CASE \E t \in Tokens : Refresh(r, t) \/ LogoutRead(r, t)
  BY <1>2, LeavingOrValid, RefusalsKeepInv, ReusedKeepsInv DEF Refresh
<1>3. CASE Patches(r)
  BY <1>3, PatchCheckKeepsInv DEF Patches
<1>4. CASE Finishes(r)
  BY <1>4, LoginsKeepInv, RefusalsKeepInv, RotateKeepsInv, RevocationsKeepInv, PatchKeepsInv
     DEF Finishes
<1>5. CASE Receive(r)
  BY <1>5, ReceiveKeepsInv
<1> QED
  BY <1>1, <1>2, <1>3, <1>4, <1>5

LEMMA StutterKeepsInv == AccountsInv /\ UNCHANGED accountVars => AccountsInv'
<1> SUFFICES ASSUME AccountsInv, UNCHANGED accountVars PROVE AccountsInv'
  OBVIOUS
<1>1. TypeOK' /\ ChainsHold'
  BY DEF AccountsInv, TypeOK, ChainsHold, accountVars, tables, Issued
<1>2. \A r \in Requests : InStep(request[r])'
  BY DEF AccountsInv, InStep, accountVars, tables, Issued
<1> QED
  BY <1>1, <1>2 DEF AccountsInv

\* The tables and the requests that read them stay in step: chains are linked in
\* order of issue, every ancestor of a token is found reused, and what a request
\* read is still true when it commits.
THEOREM AccountsInvariance == Spec => []AccountsInv
<1>1. AccountsInv /\ [Next]_accountVars => AccountsInv'
  BY AccountsAssumption, RequestKeepsInv, StutterKeepsInv DEF Next
<1> QED
  BY <1>1, AccountsAssumption, InitEstablishes, PTL DEF Spec

\* The chain of rotations never loses a link (rotate_refresh_token).
THEOREM ChainsStay == Spec => []ChainsHold
BY AccountsInvariance, PTL DEF AccountsInv

\* A reuse ends every session its user had when it was found out
\* (_revoke_all_tokens_for_user).
THEOREM ReuseEnds == Spec => ReuseEndsSessions
<1> DEFINE A == \A r \in Requests :
                  request[r].at = "reused" /\ request'[r].at = "answered" =>
                    \A t \in 1..request[r].upto : holder[t] = request[r].user => t \in revoked'
<1>1. AccountsInv /\ [Next]_accountVars => [A]_accountVars
  <2> SUFFICES ASSUME AccountsInv, Next, NEW r \in Requests,
                      request[r].at = "reused", request'[r].at = "answered",
                      NEW t \in 1..request[r].upto, holder[t] = request[r].user
               PROVE  t \in revoked'
    BY DEF A
  <2>1. t \in request[r].seen \cup revoked
    BY DEF AccountsInv, InStep
  <2>2. PICK q \in Requests :
          \/ \E u \in Users : RegisterCheck(q, u) \/ LoginCheck(q, u)
          \/ \E n \in Tokens : Refresh(q, n) \/ LogoutRead(q, n)
          \/ Patches(q) \/ Finishes(q) \/ Receive(q)
    BY DEF Next
  <2>3. PICK s : Goes(q, s)
    BY <2>2 DEF RegisterCheck, LoginCheck, Refresh, RefreshReused, RefreshRefused, RefreshValid,
       LogoutRead, Patches, PatchCheck, Finishes, RegisterCommit, RegisterCollides, LoginCommit,
       RotateCommit, RevokeAllCommit, LogoutCommit, PatchCommit, Receive, Answers
  <2>4. q = r
    BY <2>3 DEF Goes, AccountsInv, TypeOK
  <2>5. RevokeAllCommit(r)
    BY <2>2, <2>4 DEF RegisterCheck, LoginCheck, Refresh, RefreshReused, RefreshRefused,
       RefreshValid, LogoutRead, Patches, PatchCheck, Finishes, RegisterCommit, RegisterCollides,
       LoginCommit, RotateCommit, LogoutCommit, PatchCommit, Receive
  <2> QED
    BY <2>1, <2>5 DEF RevokeAllCommit
<1> QED
  BY <1>1, AccountsInvariance, PTL DEF Spec, ReuseEndsSessions

\* Nobody but an administrator changes an account that exists (register_user).
THEOREM AccountsAreKept == Spec => AccountsStay
<1> DEFINE A == \A u \in Users : account[u] # "none" /\ account'[u] # account[u] =>
                  \E r \in Requests : request[r].at = "patching" /\ request[r].user = u
<1>1. AccountsInv /\ [Next]_accountVars => [A]_accountVars
  <2> SUFFICES ASSUME AccountsInv, Next, NEW u \in Users, account[u] # "none",
                      account'[u] # account[u]
               PROVE  \E r \in Requests : request[r].at = "patching" /\ request[r].user = u
    BY DEF A
  <2>1. PICK r \in Requests :
          \/ \E v \in Users : RegisterCheck(r, v) \/ LoginCheck(r, v)
          \/ \E n \in Tokens : Refresh(r, n) \/ LogoutRead(r, n)
          \/ Patches(r) \/ Finishes(r) \/ Receive(r)
    BY DEF Next
  <2>2. RegisterCommit(r) \/ PatchCommit(r)
    BY <2>1 DEF RegisterCheck, LoginCheck, Refresh, RefreshReused, RefreshRefused, RefreshValid,
       LogoutRead, Patches, PatchCheck, Finishes, RegisterCollides, LoginCommit, RotateCommit,
       RevokeAllCommit, LogoutCommit, Receive, tables
  <2>3. account[request[r].user] = "none" => account'[u] = account[u] \/ u = request[r].user
    BY <2>2 DEF RegisterCommit, PatchCommit, AccountsInv, TypeOK
  <2>4. ~RegisterCommit(r)
    BY <2>3 DEF RegisterCommit
  <2>5. u = request[r].user
    BY <2>2, <2>4 DEF PatchCommit, AccountsInv, TypeOK
  <2> QED
    BY <2>2, <2>4, <2>5 DEF PatchCommit
<1> QED
  BY <1>1, AccountsInvariance, PTL DEF Spec, AccountsStay

\* The last administrator is never the one who took the rights away (patch_user).
THEOREM LastAdminFallsToAnother == Spec => LastAdminFalls
<1> DEFINE A == (\E a \in Users : IsAdmin(a)) /\ (\A a \in Users : ~IsAdmin(a)') =>
                  \E r \in Requests : /\ request[r].at = "patching" /\ request'[r].at = "answered"
                                      /\ ~IsAdmin(request[r].by)
<1>1. AccountsInv /\ [Next]_accountVars => [A]_accountVars
  <2> SUFFICES ASSUME AccountsInv, Next, NEW a \in Users, IsAdmin(a),
                      \A b \in Users : ~(b \in admins' /\ account'[b] = "active")
               PROVE  \E r \in Requests : /\ request[r].at = "patching"
                                          /\ request'[r].at = "answered"
                                          /\ ~IsAdmin(request[r].by)
    BY DEF A, IsAdmin
  <2>1. PICK r \in Requests :
          \/ \E v \in Users : RegisterCheck(r, v) \/ LoginCheck(r, v)
          \/ \E n \in Tokens : Refresh(r, n) \/ LogoutRead(r, n)
          \/ Patches(r) \/ Finishes(r) \/ Receive(r)
    BY DEF Next
  <2>2. RegisterCommit(r) \/ PatchCommit(r)
    BY <2>1 DEF RegisterCheck, LoginCheck, Refresh, RefreshReused, RefreshRefused, RefreshValid,
       LogoutRead, Patches, PatchCheck, Finishes, RegisterCollides, LoginCommit, RotateCommit,
       RevokeAllCommit, LogoutCommit, Receive, tables, IsAdmin
  <2>3. ~RegisterCommit(r)
    BY DEF RegisterCommit, IsAdmin, AccountsInv, TypeOK
  <2> PICK q \in Locals : q = request[r] /\ InStep(q)
    BY DEF AccountsInv, TypeOK
  <2>4. q.at = "patching" /\ Goes(r, Reads("answered", Nobody, 0)) /\ q.by \in Users
    BY <2>2, <2>3 DEF PatchCommit, Answers, InStep
  <2>5. request'[r].at = "answered"
    BY <2>4 DEF Goes, Reads, AccountsInv, TypeOK
  <2>6. ASSUME IsAdmin(q.by) PROVE FALSE
    <3>1. /\ account' = IF q.active = "keep" THEN account ELSE [account EXCEPT ![q.user] = q.active]
          /\ admins' = CASE q.admin = "yes" -> admins \cup {q.user}
                         [] q.admin = "no" -> admins \ {q.user}
                         [] OTHER -> admins
      BY <2>2, <2>3 DEF PatchCommit
    <3>2. q.user = q.by => q.active # "inactive" /\ q.admin # "no"
      BY <2>4 DEF InStep
    <3>3. q.active \in {"keep", "active", "inactive"} /\ q.admin \in {"keep", "yes", "no"}
      BY DEF Locals
    <3>4. q.by \in admins'
      BY <2>6, <3>1, <3>2, <3>3 DEF IsAdmin
    <3>5. account'[q.by] = "active"
      BY <2>4, <2>6, <3>1, <3>2, <3>3 DEF IsAdmin, AccountsInv, TypeOK
    <3> QED
      BY <2>4, <3>4, <3>5
  <2> QED
    BY <2>4, <2>5, <2>6
<1> QED
  BY <1>1, AccountsInvariance, PTL DEF Spec, LastAdminFalls

-----------------------------------------------------------------------------
\* Induction over the naturals, for a set in place of a predicate.
LEMMA NaturalsByStep ==
    ASSUME NEW S, 0 \in S, \A n \in Nat : n \in S => n + 1 \in S
    PROVE  Nat \subseteq S
<1> DEFINE T == Nat \ S
<1> SUFFICES ASSUME T # {} PROVE FALSE
  OBVIOUS
<1>1. IsWellFoundedOn(OpToRel(<, Nat), Nat)
  BY NatLessThanWellFounded
<1>2. \A R : IsWellFoundedOn(R, Nat) => \E x \in T : \A y \in T : ~ (<<y, x>> \in R)
  BY WFMin
<1>3. PICK x \in T : \A y \in T : ~ (<<y, x>> \in OpToRel(<, Nat))
  BY <1>1, <1>2
<1>4. x \in Nat /\ x # 0 /\ x - 1 \in Nat /\ x - 1 + 1 = x
  OBVIOUS
<1>5. \A y \in T : ~ (y < x)
  BY <1>3, <1>4 DEF OpToRel
<1> QED
  BY <1>4, <1>5

-----------------------------------------------------------------------------
(***************************************************************************)
(* LoginOf is a recursive function, defined because from[t] < t.           *)
(***************************************************************************)
Backward(fr) == fr \in [Tokens -> 0..MaxTokens] /\ \A t \in Tokens : fr[t] < t

HeadsOf(fr) == CHOOSE g : g = [t \in Tokens |-> IF fr[t] = 0 THEN t ELSE g[fr[t]]]

LEMMA HeadsDefined ==
    ASSUME AccountsAssumption, NEW fr, Backward(fr)
    PROVE  HeadsOf(fr) = [t \in Tokens |-> IF fr[t] = 0 THEN t ELSE HeadsOf(fr)[fr[t]]]
<1> DEFINE Upto(n, g) == \A t \in 1..n : t <= MaxTokens =>
                           g[t] = IF fr[t] = 0 THEN t ELSE g[fr[t]]
           S == {n \in Nat : \E g \in [1..n -> Nat] : Upto(n, g)}
<1>1. 0 \in S
  <2>1. [t \in 1..0 |-> t] \in [1..0 -> Nat] /\ Upto(0, [t \in 1..0 |-> t])
    OBVIOUS
  <2> QED
    BY <2>1
<1>2. ASSUME NEW n \in Nat, n \in S PROVE n + 1 \in S
  <2>1. PICK g \in [1..n -> Nat] : Upto(n, g)
    BY <1>2
  <2> DEFINE last == IF n + 1 > MaxTokens \/ fr[n + 1] = 0 THEN n + 1 ELSE g[fr[n + 1]]
             h == [t \in 1..(n + 1) |-> IF t = n + 1 THEN last ELSE g[t]]
  <2>2. n + 1 <= MaxTokens => fr[n + 1] \in 0..n
    BY DEF Backward, Tokens, AccountsAssumption
  <2>3. h \in [1..(n + 1) -> Nat]
    BY <2>2
  <2>4. ASSUME NEW t \in 1..(n + 1), t <= MaxTokens
        PROVE  h[t] = IF fr[t] = 0 THEN t ELSE h[fr[t]]
    <3>1. fr[t] \in 0..n /\ fr[t] < t
      BY <2>4, <2>2 DEF Backward, Tokens, AccountsAssumption
    <3>2. CASE t = n + 1
      BY <2>4, <3>1, <3>2
    <3>3. CASE t # n + 1
      BY <2>1, <2>4, <3>1, <3>3
    <3> QED
      BY <3>2, <3>3
  <2> HIDE DEF h
  <2> QED
    BY <2>3, <2>4
<1> HIDE DEF S
<1>3. MaxTokens \in S
  BY <1>1, <1>2, NaturalsByStep DEF AccountsAssumption
<1>4. PICK g \in [1..MaxTokens -> Nat] : Upto(MaxTokens, g)
  BY <1>3 DEF S
<1>5. g = [t \in Tokens |-> IF fr[t] = 0 THEN t ELSE g[fr[t]]]
  BY <1>4 DEF Tokens, AccountsAssumption
<1> QED
  BY <1>5, Zenon DEF HeadsOf

SameBut(n, fr, gr) == \A t \in Tokens \ {n} : gr[t] = fr[t] /\ fr[t] # n

\* Where two such functions agree, so do the logins.
LEMMA HeadsAgree ==
    ASSUME AccountsAssumption, NEW fr, NEW gr, Backward(fr), Backward(gr), NEW n,
           SameBut(n, fr, gr)
    PROVE  \A t \in Tokens \ {n} : HeadsOf(gr)[t] = HeadsOf(fr)[t]
<1> DEFINE F == HeadsOf(fr)
           G == HeadsOf(gr)
           S == {k \in Nat : \A t \in (1..k) \cap (Tokens \ {n}) : G[t] = F[t]}
<1>1. F = [t \in Tokens |-> IF fr[t] = 0 THEN t ELSE F[fr[t]]]
  BY HeadsDefined
<1>2. G = [t \in Tokens |-> IF gr[t] = 0 THEN t ELSE G[gr[t]]]
  BY HeadsDefined
<1> HIDE DEF F, G
<1>3. 0 \in S
  OBVIOUS
<1>4. ASSUME NEW k \in Nat, k \in S PROVE k + 1 \in S
  <2> SUFFICES ASSUME NEW t \in (1..(k + 1)) \cap (Tokens \ {n}) PROVE G[t] = F[t]
    OBVIOUS
  <2>1. gr[t] = fr[t] /\ fr[t] # n /\ fr[t] \in 0..MaxTokens /\ fr[t] < t /\ t \in Nat
    BY DEF SameBut, Backward, Tokens, AccountsAssumption
  <2>2. CASE fr[t] = 0
    BY <1>1, <1>2, <2>1, <2>2
  <2>3. CASE fr[t] # 0
    <3>1. fr[t] \in (1..k) \cap (Tokens \ {n})
      BY <2>1, <2>3 DEF Tokens, AccountsAssumption
    <3>2. G[fr[t]] = F[fr[t]]
      BY <3>1, <1>4
    <3>3. F[t] = F[fr[t]] /\ G[t] = G[gr[t]]
      BY <1>1, <1>2, <2>1, <2>3
    <3> QED
      BY <2>1, <3>2, <3>3
  <2> QED
    BY <2>2, <2>3
<1> HIDE DEF S
<1>5. MaxTokens \in S
  BY <1>3, <1>4, NaturalsByStep DEF AccountsAssumption
<1> QED
  BY <1>5 DEF S, F, G, Tokens

\* A chain of issued tokens starts with an issued login.
LEMMA HeadsAreLogins ==
    ASSUME AccountsAssumption, NEW fr, Backward(fr), NEW T \in SUBSET Tokens,
           \A t \in T : fr[t] # 0 => fr[t] \in T
    PROVE  \A t \in T : HeadsOf(fr)[t] \in {u \in T : fr[u] = 0}
<1> DEFINE F == HeadsOf(fr)
           S == {k \in Nat : \A t \in (1..k) \cap T : F[t] \in {u \in T : fr[u] = 0}}
<1>1. F = [t \in Tokens |-> IF fr[t] = 0 THEN t ELSE F[fr[t]]]
  BY HeadsDefined
<1> HIDE DEF F
<1>3. 0 \in S
  OBVIOUS
<1>4. ASSUME NEW k \in Nat, k \in S PROVE k + 1 \in S
  <2> SUFFICES ASSUME NEW t \in (1..(k + 1)) \cap T PROVE F[t] \in {u \in T : fr[u] = 0}
    OBVIOUS
  <2>1. fr[t] \in 0..MaxTokens /\ fr[t] < t /\ t \in Nat /\ t \in Tokens
    BY DEF Backward, Tokens, AccountsAssumption
  <2>2. CASE fr[t] = 0
    BY <1>1, <2>1, <2>2
  <2>3. CASE fr[t] # 0
    <3>1. fr[t] \in (1..k) \cap T
      BY <2>1, <2>3
    <3>2. F[fr[t]] \in {u \in T : fr[u] = 0}
      BY <3>1, <1>4
    <3>3. F[t] = F[fr[t]]
      BY <1>1, <2>1, <2>3
    <3> QED
      BY <3>2, <3>3
  <2> QED
    BY <2>2, <2>3
<1> HIDE DEF S
<1>5. MaxTokens \in S
  BY <1>3, <1>4, NaturalsByStep DEF AccountsAssumption
<1> QED
  BY <1>5 DEF S, F, Tokens

LEMMA FromIsBackward == AccountsInv /\ AccountsAssumption => Backward(from)
<1> SUFFICES ASSUME AccountsInv, AccountsAssumption, NEW t \in Tokens PROVE from[t] < t
  BY DEF Backward, AccountsInv, TypeOK
<1>1. from[t] # 0 => from[t] < t
  BY DEF AccountsInv, ChainsHold
<1> QED
  BY <1>1 DEF Tokens

LEMMA LoginIsHead == LoginOf = HeadsOf(from)
BY DEF LoginOf, HeadsOf

-----------------------------------------------------------------------------
(***************************************************************************)
(* Counting.  Of all steps, a login adds a token of its own and a rotation *)
(* adds one to a family; nothing else touches the chains.                  *)
(***************************************************************************)
LEMMA StepsOfChains ==
    ASSUME AccountsInv, AccountsAssumption, [Next]_accountVars
    PROVE  \/ UNCHANGED <<issued, from, replaced>>
           \/ \E u \in Users : Issue(u, 0) /\ UNCHANGED replaced
           \/ \E r \in Requests : RotateCommit(r)
<1>1. CASE UNCHANGED accountVars
  BY <1>1 DEF accountVars, tables
<1>2. CASE Next
  <2>1. PICK r \in Requests :
          \/ \E v \in Users : RegisterCheck(r, v) \/ LoginCheck(r, v)
          \/ \E n \in Tokens : Refresh(r, n) \/ LogoutRead(r, n)
          \/ Patches(r) \/ Finishes(r) \/ Receive(r)
    BY <1>2 DEF Next
  <2>2. \/ UNCHANGED <<issued, from, replaced>>
        \/ (RegisterCommit(r) \/ LoginCommit(r)) /\ Issue(request[r].user, 0) /\ UNCHANGED replaced
        \/ RotateCommit(r)
    BY <2>1 DEF RegisterCheck, LoginCheck, Refresh, RefreshReused, RefreshRefused, RefreshValid,
       LogoutRead, Patches, PatchCheck, Finishes, RegisterCollides, LoginCommit, RegisterCommit,
       RevokeAllCommit, LogoutCommit, PatchCommit, Receive, tables
  <2>3. RegisterCommit(r) \/ LoginCommit(r) => request[r].user \in Users
    BY DEF RegisterCommit, LoginCommit, AccountsInv, InStep
  <2> QED
    BY <2>2, <2>3
<1> QED
  BY <1>1, <1>2

\* A token that is yet to be issued has no place in the chains.
LEMMA NextToken ==
    ASSUME AccountsInv, AccountsAssumption, NEW n \in Tokens, n = issued + 1
    PROVE  /\ n \notin Issued /\ from[n] = 0 /\ replaced[n] = 0
           /\ \A t \in Tokens : from[t] # n /\ (from[t] # 0 => from[t] \in Issued /\ t \in Issued)
<1>1. n \notin Issued /\ Issued \subseteq Tokens /\ issued \in Nat
  BY DEF Issued, Tokens, AccountsInv, TypeOK, AccountsAssumption
<1>2. from[n] = 0 /\ replaced[n] = 0
  BY <1>1 DEF AccountsInv, ChainsHold, TypeOK
<1>3. ASSUME NEW t \in Tokens, from[t] # 0 PROVE from[t] \in Issued /\ t \in Issued
  <2>1. t \in Issued /\ from[t] < t /\ from[t] \in 0..MaxTokens
    BY <1>3 DEF AccountsInv, ChainsHold, TypeOK
  <2> QED
    BY <1>1, <1>3, <2>1 DEF Issued, Tokens, AccountsAssumption
<1> QED
  BY <1>1, <1>2, <1>3 DEF Tokens

LEMMA RotateIssues ==
    ASSUME AccountsInv, AccountsAssumption, NEW r \in Requests, RotateCommit(r), NEW m, NEW n,
           m = request[r].token, n = issued + 1
    PROVE  /\ m \in Issued /\ m \in Tokens /\ n \in Tokens /\ m # n
           /\ Issued' = Issued \cup {n} /\ from' = [from EXCEPT ![n] = m]
           /\ replaced' = [replaced EXCEPT ![m] = n]
           /\ Goes(r, Reads("answered", Nobody, n))
<1>1. m \in Issued
  BY DEF RotateCommit, AccountsInv, InStep
<1>2. m \in Tokens /\ m \in 0..MaxTokens /\ holder[m] \in Users
  BY <1>1 DEF AccountsInv, ChainsHold, TypeOK, Issued, Tokens, AccountsAssumption
<1>3. Issue(holder[m], m)
  BY DEF RotateCommit
<1>4. n \in Tokens /\ n \notin Issued /\ Issued' = Issued \cup {n}
  BY <1>2, <1>3, IssueTyped DEF AccountsInv, Issue
<1> QED
  BY <1>1, <1>2, <1>3, <1>4 DEF RotateCommit, Issue, Answers

\* The sets counted below are finite.
LEMMA FiniteCounts ==
    ASSUME AccountsAssumption, NEW S, S \subseteq Tokens \/ S \subseteq Requests
    PROVE  IsFiniteSet(S) /\ Cardinality(S) \in Nat
<1>1. IsFiniteSet(Tokens) /\ IsFiniteSet(Requests)
  BY FS_Interval DEF Tokens, AccountsAssumption
<1> QED
  BY <1>1, FS_Subset, FS_CardinalityType

\* Which requests are rotating t after a step.
LEMMA RotationsStep ==
    ASSUME AccountsInv, AccountsAssumption, [Next]_accountVars, NEW t \in Tokens
    PROVE  \/ Rotations(t)' \subseteq Rotations(t)
           \/ replaced[t] = 0 /\ UNCHANGED replaced
<1>1. CASE UNCHANGED accountVars
  BY <1>1 DEF accountVars, Rotations
<1>2. CASE Next
  <2>1. PICK r \in Requests :
          \/ \E v \in Users : RegisterCheck(r, v) \/ LoginCheck(r, v)
          \/ \E n \in Tokens : Refresh(r, n) \/ LogoutRead(r, n)
          \/ Patches(r) \/ Finishes(r) \/ Receive(r)
    BY <1>2 DEF Next
  <2>2. CASE \E n \in Tokens : RefreshValid(r, n)
    <3>1. PICK n \in Tokens : RefreshValid(r, n)
      BY <2>2
    <3>2. CASE n = t
      BY <3>1, <3>2 DEF RefreshValid, tables
    <3>3. CASE n # t
      BY <3>1, <3>3 DEF RefreshValid, Goes, Reads, Rotations, AccountsInv, TypeOK
    <3> QED
      BY <3>2, <3>3
  <2>3. CASE ~ \E n \in Tokens : RefreshValid(r, n)
    <3> SUFFICES \E s : Goes(r, s) /\ s.at # "rotating"
      BY DEF Goes, Rotations, AccountsInv, TypeOK
    <3>2. CASE \E v \in Users : RegisterCheck(r, v) \/ LoginCheck(r, v)
      <4>1. PICK v \in Users, a \in {"registering", "loggingIn"} : Goes(r, Reads(a, v, 0))
        BY <3>2 DEF RegisterCheck, LoginCheck
      <4>2. Reads(a, v, 0).at # "rotating"
        BY DEF Reads
      <4> QED
        BY <4>1, <4>2
    <3>3. CASE \E n \in Tokens : LogoutRead(r, n)
      <4>1. PICK n \in Tokens : Goes(r, Reads("leaving", Nobody, n))
        BY <3>3 DEF LogoutRead
      <4>2. Reads("leaving", Nobody, n).at # "rotating"
        BY DEF Reads
      <4> QED
        BY <4>1, <4>2
    <3>4. CASE \E n \in Tokens : RefreshReused(r, n)
      BY <3>4 DEF RefreshReused
    <3>5. CASE Patches(r)
      <4>1. PICK a \in Users, u \in Users, x \in {"keep", "active", "inactive"},
                 y \in {"keep", "yes", "no"} : Goes(r, PatchOf(a, u, x, y))
        BY <3>5 DEF Patches, PatchCheck
      <4>2. PatchOf(a, u, x, y).at # "rotating"
        BY DEF PatchOf
      <4> QED
        BY <4>1, <4>2
    <3>6. CASE Finishes(r) \/ \E n \in Tokens : RefreshRefused(r, n)
      <4>1. PICK n : Goes(r, Reads("answered", Nobody, n))
        BY <3>6 DEF Finishes, RefreshRefused, RegisterCommit, RegisterCollides, LoginCommit,
           RotateCommit, RevokeAllCommit, LogoutCommit, PatchCommit, Answers
      <4>2. Reads("answered", Nobody, n).at # "rotating"
        BY DEF Reads
      <4> QED
        BY <4>1, <4>2
    <3>7. CASE Receive(r)
      BY <3>7 DEF Receive, Idle, Reads
    <3> QED
      BY <2>1, <2>3, <3>2, <3>3, <3>4, <3>5, <3>6, <3>7 DEF Refresh
  <2> QED
    BY <2>2, <2>3
<1> QED
  BY <1>1, <1>2

LEMMA ForksKeepFitting ==
    ASSUME AccountsInv, AccountsAssumption, ForksFit, [Next]_accountVars
    PROVE  ForksFit'
<1> SUFFICES ASSUME NEW t \in Tokens
             PROVE  Cardinality(Children(t)') + Cardinality(Rotations(t)') <= Cardinality(Requests)
  BY DEF ForksFit
<1>1. /\ Children(t) \subseteq Tokens /\ Children(t)' \subseteq Tokens
      /\ Rotations(t) \subseteq Requests /\ Rotations(t)' \subseteq Requests
  BY DEF Children, Rotations
<1>2. /\ IsFiniteSet(Children(t)) /\ IsFiniteSet(Rotations(t)) /\ IsFiniteSet(Rotations(t)')
      /\ Cardinality(Children(t)) \in Nat /\ Cardinality(Rotations(t)) \in Nat
      /\ Cardinality(Children(t)') \in Nat /\ Cardinality(Rotations(t)') \in Nat
      /\ IsFiniteSet(Requests) /\ Cardinality(Requests) \in Nat
  BY <1>1, FiniteCounts
<1>3. Cardinality(Children(t)) + Cardinality(Rotations(t)) <= Cardinality(Requests)
  BY DEF ForksFit
<1>4. CASE \E r \in Requests : RotateCommit(r) /\ request[r].token = t
  <2>1. PICK r \in Requests : RotateCommit(r) /\ request[r].token = t
    BY <1>4
  <2> PICK n : n = issued + 1
    OBVIOUS
  <2>2. n \in Tokens /\ from' = [from EXCEPT ![n] = t] /\ Goes(r, Reads("answered", Nobody, n))
        /\ t # n
    BY <2>1, RotateIssues
  <2>3. from[n] = 0
    BY <2>2, NextToken
  <2>4. Children(t)' = Children(t) \cup {n} /\ n \notin Children(t)
    BY <2>2, <2>3 DEF Children, AccountsInv, TypeOK, Tokens
  <2>5. Rotations(t)' = Rotations(t) \ {r} /\ r \in Rotations(t)
    BY <2>1, <2>2 DEF Rotations, Goes, Reads, AccountsInv, TypeOK, RotateCommit
  <2>6. Cardinality(Children(t)') = Cardinality(Children(t)) + 1
    BY <1>2, <2>4, FS_AddElement
  <2>7. Cardinality(Rotations(t)') = Cardinality(Rotations(t)) - 1
    BY <1>2, <2>5, FS_RemoveElement
  <2> QED
    BY <1>2, <1>3, <2>6, <2>7
<1>5. CASE ~ \E r \in Requests : RotateCommit(r) /\ request[r].token = t
  <2>1. Children(t)' = Children(t) /\ replaced'[t] = replaced[t]
    <3>1. CASE UNCHANGED <<issued, from, replaced>>
      BY <3>1 DEF Children
    <3>2. CASE \E u \in Users : Issue(u, 0) /\ UNCHANGED replaced
      <4> PICK n : n = issued + 1
        OBVIOUS
      <4>1. PICK u \in Users : Issue(u, 0) /\ UNCHANGED replaced
        BY <3>2
      <4>2. n \in Tokens /\ from' = [from EXCEPT ![n] = 0]
        BY <4>1 DEF Issue, Tokens, AccountsInv, TypeOK, AccountsAssumption
      <4>3. from[n] = 0
        BY <4>2, NextToken
      <4> QED
        BY <4>1, <4>2, <4>3 DEF Children, Tokens, AccountsInv, TypeOK
    <3>3. CASE \E r \in Requests : RotateCommit(r)
      <4>1. PICK r \in Requests : RotateCommit(r)
        BY <3>3
      <4> PICK m : m = request[r].token
        OBVIOUS
      <4> PICK n : n = issued + 1
        OBVIOUS
      <4>2. /\ n \in Tokens /\ m \in Tokens /\ m # t /\ from' = [from EXCEPT ![n] = m]
            /\ replaced' = [replaced EXCEPT ![m] = n]
        BY <1>5, <4>1, RotateIssues
      <4>3. from[n] = 0
        BY <4>2, NextToken
      <4> QED
        BY <4>2, <4>3 DEF Children, Tokens, AccountsInv, TypeOK
    <3> QED
      BY <3>1, <3>2, <3>3, StepsOfChains
  <2>2. CASE Rotations(t)' \subseteq Rotations(t)
    <3>1. Cardinality(Rotations(t)') <= Cardinality(Rotations(t))
      BY <1>2, <2>2, FS_Subset
    <3> QED
      BY <1>2, <1>3, <2>1, <3>1
  <2>3. CASE replaced[t] = 0
    <3>1. Children(t) = {}
      BY <2>3 DEF Children, AccountsInv, ChainsHold, Tokens
    <3>2. Cardinality(Children(t)') = 0
      BY <2>1, <3>1, FS_EmptySet
    <3>3. Cardinality(Rotations(t)') <= Cardinality(Requests)
      BY <1>1, <1>2, FS_Subset
    <3> QED
      BY <1>2, <3>2, <3>3
  <2> QED
    BY <2>2, <2>3, RotationsStep
<1> QED
  BY <1>4, <1>5

-----------------------------------------------------------------------------
\* A family is its login and what descends from it.
LEMMA FamilyFacts ==
    ASSUME AccountsInv, AccountsAssumption
    PROVE  /\ \A t \in Tokens : LoginOf[t] = IF from[t] = 0 THEN t ELSE LoginOf[from[t]]
           /\ \A t \in Issued : LoginOf[t] \in Logins
           /\ Issued \subseteq Tokens
<1>1. Backward(from) /\ LoginOf = HeadsOf(from)
  BY FromIsBackward, LoginIsHead
<1>2. Issued \subseteq Tokens
  BY DEF Issued, Tokens, AccountsInv, TypeOK, AccountsAssumption
<1>3. \A t \in Issued : from[t] # 0 => from[t] \in Issued
  <2> SUFFICES ASSUME NEW t \in Issued, from[t] # 0 PROVE from[t] \in Issued
    OBVIOUS
  <2>1. from[t] < t /\ from[t] \in 0..MaxTokens
    BY <1>2 DEF AccountsInv, ChainsHold, TypeOK
  <2> QED
    BY <2>1 DEF Issued, AccountsInv, TypeOK, AccountsAssumption
<1>4. \A t \in Issued : LoginOf[t] \in Logins
  BY <1>1, <1>2, <1>3, HeadsAreLogins DEF Logins
<1>5. LoginOf = [t \in Tokens |-> IF from[t] = 0 THEN t ELSE LoginOf[from[t]]]
  BY <1>1, HeadsDefined
<1> QED
  BY <1>2, <1>4, <1>5

LEMMA LoginsNext ==
    ASSUME AccountsInv', AccountsAssumption
    PROVE  /\ Backward(from') /\ LoginOf' = HeadsOf(from')
           /\ \A t \in Tokens : LoginOf'[t] = IF from'[t] = 0 THEN t ELSE LoginOf'[from'[t]]
<1>1. Backward(from)'
  BY FromIsBackward, PTL
<1>2. Backward(from')
  BY <1>1 DEF Backward, Tokens
<1>3. LoginOf' = HeadsOf(from')
  BY DEF LoginOf, HeadsOf, Tokens
<1>4. HeadsOf(from') = [t \in Tokens |-> IF from'[t] = 0 THEN t ELSE HeadsOf(from')[from'[t]]]
  BY <1>2, HeadsDefined
<1> QED
  BY <1>2, <1>3, <1>4

\* A new token does not move the others to another family.
LEMMA FamiliesStay ==
    ASSUME AccountsInv, AccountsInv', AccountsAssumption, NEW n \in Tokens, n = issued + 1,
           NEW m \in 0..MaxTokens, from' = [from EXCEPT ![n] = m]
    PROVE  \A t \in Tokens \ {n} : LoginOf'[t] = LoginOf[t]
<1>1. Backward(from) /\ LoginOf = HeadsOf(from)
  BY FromIsBackward, LoginIsHead
<1>2. Backward(from') /\ LoginOf' = HeadsOf(from')
  BY LoginsNext
<1>3. SameBut(n, from, from')
  BY NextToken DEF SameBut, AccountsInv, TypeOK
<1> QED
  BY <1>1, <1>2, <1>3, HeadsAgree

Ends(login) == {t \in Family(login) : replaced[t] = 0}

LEMMA EndsIsCount ==
    EndsAreCounted <=>
      \A login \in Logins : Cardinality(Ends(login)) = 1 + Cardinality(Unlinked(login))
BY DEF EndsAreCounted, Ends

\* A login is a family of one.
LEMMA LoginsKeepCount ==
    ASSUME AccountsInv, AccountsInv', AccountsAssumption, EndsAreCounted,
           NEW u \in Users, Issue(u, 0), UNCHANGED replaced
    PROVE  EndsAreCounted'
<1> PICK n : n = issued + 1
  OBVIOUS
<1>1. /\ n \in Tokens /\ 0 \in 0..MaxTokens /\ from' = [from EXCEPT ![n] = 0]
      /\ Issued' = Issued \cup {n} /\ n \notin Issued
  BY DEF Issue, Tokens, Issued, AccountsInv, TypeOK, AccountsAssumption
<1>2. /\ from[n] = 0 /\ replaced[n] = 0
      /\ \A t \in Tokens : from[t] # n
  BY <1>1, NextToken
<1>3. \A t \in Tokens \ {n} : LoginOf'[t] = LoginOf[t]
  BY <1>1, FamiliesStay
<1>4. from'[n] = 0 /\ \A t \in Tokens \ {n} : from'[t] = from[t]
  BY <1>1 DEF AccountsInv, TypeOK
<1>5. LoginOf'[n] = n
  <2>1. \A t \in Tokens : LoginOf'[t] = IF from'[t] = 0 THEN t ELSE LoginOf'[from'[t]]
    BY LoginsNext
  <2> QED
    BY <1>1, <1>4, <2>1 DEF Tokens
<1>6. \A t \in Issued : LoginOf[t] \in Logins /\ LoginOf[t] # n /\ t \in Tokens /\ t # n
  BY <1>1, FamilyFacts DEF Logins
<1>7. Logins' = Logins \cup {n}
  BY <1>1, <1>4, <1>6 DEF Logins
<1> SUFFICES ASSUME NEW login \in Logins'
             PROVE  Cardinality(Ends(login)') = 1 + Cardinality(Unlinked(login)')
  BY DEF EndsAreCounted, Ends
<1>8. CASE login # n
  <2>1. login \in Logins
    BY <1>7, <1>8
  <2>2. Family(login)' = Family(login)
    BY <1>1, <1>3, <1>5, <1>6, <1>8 DEF Family
  <2>3. Ends(login)' = Ends(login)
    BY <2>2 DEF Ends
  <2>4. Unlinked(login)' = Unlinked(login)
    BY <1>4, <1>6, <2>2 DEF Unlinked, Family
  <2> QED
    BY <2>1, <2>3, <2>4, EndsIsCount
<1>9. CASE login = n
  <2>1. Family(login)' = {n}
    BY <1>1, <1>3, <1>5, <1>6, <1>9 DEF Family
  <2>2. Ends(login)' = {n} /\ Unlinked(login)' = {}
    BY <1>2, <1>9, <2>1 DEF Ends, Unlinked
  <2>3. Cardinality({n}) = 1 /\ Cardinality({}) = 0
    BY FS_Singleton, FS_EmptySet
  <2> QED
    BY <2>2, <2>3
<1> QED
  BY <1>8, <1>9

\* A rotation moves the end of a branch, or opens a branch and loses a link.
LEMMA RotationsKeepCount ==
    ASSUME AccountsInv, AccountsInv', AccountsAssumption, EndsAreCounted,
           NEW r \in Requests, RotateCommit(r)
    PROVE  EndsAreCounted'
<1> PICK m : m = request[r].token
  OBVIOUS
<1> PICK n : n = issued + 1
  OBVIOUS
<1>1. /\ m \in Issued /\ m \in Tokens /\ n \in Tokens /\ m # n
      /\ Issued' = Issued \cup {n} /\ from' = [from EXCEPT ![n] = m]
      /\ replaced' = [replaced EXCEPT ![m] = n]
  BY RotateIssues
<1>2. /\ n \notin Issued /\ from[n] = 0 /\ replaced[n] = 0
      /\ \A t \in Tokens : from[t] # n
  BY <1>1, NextToken
<1>3. m \in 0..MaxTokens /\ m # 0 /\ n # 0
  BY <1>1 DEF Tokens, AccountsAssumption
<1>4. \A t \in Tokens \ {n} : LoginOf'[t] = LoginOf[t]
  BY <1>1, <1>3, FamiliesStay
<1>5. /\ from'[n] = m /\ replaced'[m] = n /\ replaced'[n] = 0
      /\ \A t \in Tokens \ {n} : from'[t] = from[t]
      /\ \A t \in Tokens \ {m} : replaced'[t] = replaced[t]
  BY <1>1, <1>2 DEF AccountsInv, TypeOK
<1>6. /\ \A t \in Issued : LoginOf[t] \in Logins /\ t \in Tokens /\ t # n
      /\ \A t \in Tokens : LoginOf[t] = IF from[t] = 0 THEN t ELSE LoginOf[from[t]]
  BY <1>2, FamilyFacts
<1>7. LoginOf'[n] = LoginOf[m]
  <2>1. \A t \in Tokens : LoginOf'[t] = IF from'[t] = 0 THEN t ELSE LoginOf'[from'[t]]
    BY LoginsNext
  <2>2. LoginOf'[n] = LoginOf'[m]
    BY <1>1, <1>3, <1>5, <2>1 DEF Tokens
  <2> QED
    BY <1>1, <1>4, <2>2
<1>8. Logins' = Logins
  BY <1>1, <1>3, <1>5, <1>6 DEF Logins
<1>9. /\ \A t \in Tokens : from[t] # 0 => replaced[from[t]] # 0 /\ from[t] \in Tokens
      /\ \A t \in Tokens : replaced[t] # 0 => replaced[t] \in Issued /\ from[replaced[t]] = t
  BY DEF AccountsInv, ChainsHold, TypeOK, Tokens
<1> SUFFICES ASSUME NEW login \in Logins
             PROVE  Cardinality(Ends(login)') = 1 + Cardinality(Unlinked(login)')
  BY <1>8 DEF EndsAreCounted, Ends
<1>10. Cardinality(Ends(login)) = 1 + Cardinality(Unlinked(login))
  BY EndsIsCount
<1>11. login \in Tokens /\ from[login] = 0
  BY <1>6 DEF Logins
<1>12. Family(login) \subseteq Tokens /\ n \notin Family(login)
  BY <1>2, <1>6 DEF Family
<1>13. /\ Ends(login) \subseteq Tokens /\ Unlinked(login) \subseteq Tokens
  BY <1>12 DEF Ends, Unlinked
<1>14. IsFiniteSet(Ends(login)) /\ IsFiniteSet(Unlinked(login))
       /\ Cardinality(Ends(login)) \in Nat /\ Cardinality(Unlinked(login)) \in Nat
  BY <1>13, FiniteCounts
<1>15. CASE LoginOf[m] # login
  <2>1. Family(login)' = Family(login) /\ m \notin Family(login)
    BY <1>1, <1>2, <1>4, <1>6, <1>7, <1>15 DEF Family
  <2>2. Ends(login)' = Ends(login)
    BY <1>5, <1>12, <2>1 DEF Ends
  <2>3. \A t \in Family(login) \ {login} : from[t] # m /\ from[t] # 0 /\ from[t] \in Tokens
    BY <1>6, <1>9, <1>12, <1>15 DEF Family
  <2>4. Unlinked(login)' = Unlinked(login)
    BY <1>5, <1>12, <2>1, <2>3 DEF Unlinked
  <2> QED
    BY <1>10, <2>2, <2>4
<1>16. CASE LoginOf[m] = login
  <2>1. Family(login)' = Family(login) \cup {n} /\ m \in Family(login)
    BY <1>1, <1>2, <1>4, <1>6, <1>7, <1>16 DEF Family
  <2>2. Ends(login)' = (Ends(login) \ {m}) \cup {n} /\ n \notin Ends(login)
    BY <1>3, <1>5, <1>12, <2>1 DEF Ends
  <2>3. \A t \in Family(login) \ {login} : from[t] # 0 /\ from[t] \in Tokens
    BY <1>6, <1>9, <1>12 DEF Family
  <2>4. CASE replaced[m] = 0
    <3>1. \A t \in Tokens : from[t] # m
      BY <1>3, <1>9, <2>4
    <3>2. Unlinked(login)' = Unlinked(login)
      BY <1>5, <1>12, <2>1, <2>3, <3>1 DEF Unlinked
    <3>3. m \in Ends(login) /\ n \notin Ends(login) \ {m}
      BY <2>1, <2>2, <2>4 DEF Ends
    <3>4. IsFiniteSet(Ends(login) \ {m}) /\ Cardinality(Ends(login) \ {m}) = Cardinality(Ends(login)) - 1
      BY <1>14, <3>3, FS_RemoveElement
    <3>5. Cardinality(Ends(login)') = Cardinality(Ends(login)) - 1 + 1
      BY <2>2, <3>3, <3>4, FS_AddElement
    <3> QED
      BY <1>10, <1>14, <3>2, <3>5
  <2>5. CASE replaced[m] # 0
    <3> PICK p : p = replaced[m]
      OBVIOUS
    <3>1. p \in Issued /\ p \in Tokens /\ from[p] = m /\ p # n
      BY <1>1, <1>6, <1>9, <2>5
    <3>2. p \in Family(login) /\ p # login
      BY <1>3, <1>6, <1>11, <1>16, <3>1 DEF Family
    <3>3. Ends(login)' = Ends(login) \cup {n}
      BY <2>2, <2>5 DEF Ends
    <3>4. Cardinality(Ends(login)') = Cardinality(Ends(login)) + 1
      BY <1>14, <2>2, <3>3, FS_AddElement
    <3>5. Unlinked(login)' = Unlinked(login) \cup {p} /\ p \notin Unlinked(login)
      <4>1. n \notin Unlinked(login)'
        BY <1>5 DEF Unlinked
      <4>2. p \in Unlinked(login)'
        BY <1>5, <2>1, <3>1, <3>2 DEF Unlinked
      <4>3. p \notin Unlinked(login)
        BY <3>1 DEF Unlinked
      <4>4. ASSUME NEW t \in Family(login) \ {login}, t # p
            PROVE  t \in Unlinked(login)' <=> t \in Unlinked(login)
        <5>1. t \in Tokens \ {n} /\ from[t] # 0 /\ from[t] \in Tokens /\ from'[t] = from[t]
          BY <1>5, <1>12, <2>3
        <5>2. CASE from[t] = m
          <6>1. replaced'[from'[t]] = n /\ replaced[from[t]] = p
            BY <1>5, <5>1, <5>2
          <6> QED
            BY <2>1, <4>4, <5>1, <6>1 DEF Unlinked
        <5>3. CASE from[t] # m
          <6>1. replaced'[from'[t]] = replaced[from[t]]
            BY <1>5, <5>1, <5>3
          <6> QED
            BY <2>1, <4>4, <5>1, <6>1 DEF Unlinked
        <5> QED
          BY <5>2, <5>3
      <4>5. Unlinked(login) \subseteq Family(login) \ {login}
            /\ Unlinked(login)' \subseteq (Family(login) \cup {n}) \ {login}
        BY <2>1 DEF Unlinked
      <4> QED
        BY <4>1, <4>2, <4>3, <4>4, <4>5
    <3>6. Cardinality(Unlinked(login)') = Cardinality(Unlinked(login)) + 1
      BY <1>14, <3>5, FS_AddElement
    <3> QED
      BY <1>10, <1>14, <3>4, <3>6
  <2> QED
    BY <2>4, <2>5
<1> QED
  BY <1>15, <1>16

LEMMA EndsKeepCount ==
    ASSUME AccountsInv, AccountsInv', AccountsAssumption, EndsAreCounted, [Next]_accountVars
    PROVE  EndsAreCounted'
<1>1. CASE UNCHANGED <<issued, from, replaced>>
  <2>1. LoginOf' = LoginOf
    BY <1>1 DEF LoginOf, Tokens
  <2>2. Issued' = Issued /\ Logins' = Logins
    BY <1>1 DEF Logins, Issued
  <2>3. \A login : Family(login)' = Family(login)
    BY <2>1, <2>2 DEF Family
  <2>4. \A login : Unlinked(login)' = Unlinked(login) /\ Ends(login)' = Ends(login)
    BY <1>1, <2>3 DEF Unlinked, Ends
  <2>5. \A login \in Logins' : Cardinality(Ends(login)') = 1 + Cardinality(Unlinked(login)')
    BY <2>2, <2>4, EndsIsCount
  <2> QED
    BY <2>5 DEF EndsAreCounted, Ends
<1>2. CASE \E u \in Users : Issue(u, 0) /\ UNCHANGED replaced
  BY <1>2, LoginsKeepCount
<1>3. CASE \E r \in Requests : RotateCommit(r)
  BY <1>3, RotationsKeepCount
<1> QED
  BY <1>1, <1>2, <1>3, StepsOfChains

\* Rotations that were done and those that are yet to commit share the slots of
\* requests, and every branch of a login but one lost its link to a race.
THEOREM CountsInvariance == Spec => [](ForksFit /\ EndsAreCounted)
<1>1. AccountsAssumption /\ Init => ForksFit /\ EndsAreCounted
  <2> SUFFICES ASSUME AccountsAssumption, Init PROVE ForksFit /\ EndsAreCounted
    OBVIOUS
  <2>1. \A t \in Tokens : Children(t) = {} /\ Rotations(t) = {}
    BY DEF Init, Children, Rotations, Idle, Reads, Tokens
  <2>2. Cardinality({}) = 0 /\ Cardinality(Requests) \in Nat
    BY FS_EmptySet, FS_CardinalityType DEF AccountsAssumption
  <2>3. Logins = {}
    BY DEF Init, Logins, Issued
  <2> QED
    BY <2>1, <2>2, <2>3 DEF ForksFit, EndsAreCounted
<1>2. AccountsInv /\ AccountsInv' /\ ForksFit /\ EndsAreCounted /\ [Next]_accountVars
        => (ForksFit /\ EndsAreCounted)'
  BY AccountsAssumption, ForksKeepFitting, EndsKeepCount
<1> QED
  BY <1>1, <1>2, AccountsInvariance, AccountsAssumption, PTL DEF Spec

\* A token that was already rotated can only be rotated again by requests that
\* had found it valid before: no more of them than the API serves at once
\* (rotate_refresh_token).
THEOREM ForksStayOverlaps == Spec => []ForksAreOverlaps
<1>1. AccountsAssumption /\ ForksFit => ForksAreOverlaps
  <2> SUFFICES ASSUME AccountsAssumption, ForksFit, NEW t \in Tokens
               PROVE  Cardinality(Children(t)) <= Cardinality(Requests)
    BY DEF ForksAreOverlaps
  <2>1. Children(t) \subseteq Tokens /\ Rotations(t) \subseteq Requests
    BY DEF Children, Rotations
  <2>2. Cardinality(Children(t)) \in Nat /\ Cardinality(Rotations(t)) \in Nat
        /\ Cardinality(Requests) \in Nat
    BY <2>1, FiniteCounts
  <2> QED
    BY <2>2 DEF ForksFit
<1> QED
  BY <1>1, CountsInvariance, AccountsAssumption, PTL

\* The live sessions of a login are bounded by the races it lost: a live token was
\* never rotated, so it is an end (rotate_refresh_token).
THEOREM LiveStaysCounted == Spec => []LiveIsCounted
<1>1. AccountsAssumption /\ AccountsInv /\ EndsAreCounted => LiveIsCounted
  <2> SUFFICES ASSUME AccountsAssumption, AccountsInv, EndsAreCounted, NEW login \in Logins
               PROVE  Cardinality(Family(login) \ revoked) <= 1 + Cardinality(Unlinked(login))
    BY DEF LiveIsCounted
  <2>1. Family(login) \subseteq Tokens
    BY FamilyFacts DEF Family
  <2>2. Family(login) \ revoked \subseteq Ends(login) /\ Ends(login) \subseteq Tokens
    BY <2>1 DEF Ends, AccountsInv, ChainsHold
  <2>3. Cardinality(Family(login) \ revoked) <= Cardinality(Ends(login))
    BY <2>2, FiniteCounts, FS_Subset
  <2> QED
    BY <2>3, EndsIsCount
<1> QED
  BY <1>1, CountsInvariance, AccountsInvariance, AccountsAssumption, PTL
=============================================================================
