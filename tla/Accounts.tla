------------------------------- MODULE Accounts -------------------------------
(***************************************************************************)
(* The users and refresh_tokens tables under concurrent requests: register,*)
(* login, refresh, logout and the administrators' PATCH of a user.  Every  *)
(* handler reads, decides, and commits in a later step; under READ         *)
(* COMMITTED other handlers commit in between.                             *)
(*                                                                         *)
(* A user is named by the normalised e-mail address, a refresh token by the*)
(* order in which its row was committed.  A request may show any token that*)
(* was ever issued: an old tab, a retry, a lost answer.  Password check and*)
(* JWT decoding are left out with the requests they refuse.                *)
(***************************************************************************)
EXTENDS Naturals, FiniteSets

CONSTANTS
    Users,          \* e-mail addresses
    Recruiters,     \* those who register with the recruiter role
    FirstAdmins,    \* administrators the seed script made
    Requests,       \* requests the API serves at once
    MaxTokens,      \* bound: refresh_tokens rows
    Nobody          \* the user of a request that has none

ASSUME AccountsAssumption ==
    /\ IsFiniteSet(Users) /\ Nobody \notin Users /\ IsFiniteSet(Requests)
    /\ FirstAdmins \subseteq Recruiters /\ Recruiters \subseteq Users
    /\ MaxTokens \in Nat

VARIABLES
    account,    \* users row: "none", or is_active
    admins,     \* users with is_admin
    issued,     \* refresh_tokens rows so far, numbered from 1
    holder,     \* user_id of a token
    replaced,   \* replaced_by_id, 0 for NULL
    from,       \* the token a rotation made this one from, 0 after a login: no
                \* column keeps it
    revoked,    \* tokens with revoked_at
    request     \* what each request being served has read

tables == <<account, admins, issued, holder, replaced, from, revoked>>

accountVars == <<tables, request>>

Tokens == 1..MaxTokens

Issued == 1..issued

Live == Issued \ revoked

TokensOf(u) == {t \in Live : holder[t] = u}

\* What a request has read: a user, a token; reuse and patches read more.
Reads(at, u, t) == [at |-> at, user |-> u, token |-> t, seen |-> {}, upto |-> 0,
                    by |-> Nobody, active |-> "keep", admin |-> "keep"]

Idle == Reads("idle", Nobody, 0)

Init ==
    /\ account = [u \in Users |-> IF u \in FirstAdmins THEN "active" ELSE "none"]
    /\ admins = FirstAdmins
    /\ issued = 0
    /\ holder = [t \in Tokens |-> Nobody]
    /\ replaced = [t \in Tokens |-> 0]
    /\ from = [t \in Tokens |-> 0]
    /\ revoked = {}
    /\ request = [r \in Requests |-> Idle]

Goes(r, state) == request' = [request EXCEPT ![r] = state]

Answers(r, t) == Goes(r, Reads("answered", Nobody, t))

\* issue_token_pair, committed: the row of a fresh token.
Issue(u, t) ==
    /\ issued < MaxTokens
    /\ issued' = issued + 1
    /\ holder' = [holder EXCEPT ![issued + 1] = u]
    /\ from' = [from EXCEPT ![issued + 1] = t]

-----------------------------------------------------------------------------
(***************************************************************************)
(* Register and login.                                                     *)
(***************************************************************************)

\* register_user finds the address free, hashes the password and inserts.
RegisterCheck(r, u) ==
    /\ request[r].at = "idle" /\ account[u] = "none"
    /\ Goes(r, Reads("registering", u, 0))
    /\ UNCHANGED tables

\* Mutant of RegisterCommit: an upsert in place of the unique index.
RegisterUpserts(r) ==
    LET u == request[r].user IN
    /\ request[r].at = "registering"
    /\ account' = [account EXCEPT ![u] = "active"]
    /\ Issue(u, 0)
    /\ Answers(r, issued + 1)
    /\ UNCHANGED <<admins, replaced, revoked>>

RegisterCommit(r) ==
    LET u == request[r].user IN
    /\ request[r].at = "registering" /\ account[u] = "none"
    /\ account' = [account EXCEPT ![u] = "active"]
    /\ Issue(u, 0)
    /\ Answers(r, issued + 1)
    /\ UNCHANGED <<admins, replaced, revoked>>

\* The flush meets the unique index: IntegrityError, which nobody catches.
RegisterCollides(r) ==
    /\ request[r].at = "registering" /\ account[request[r].user] # "none"
    /\ Answers(r, 0)
    /\ UNCHANGED tables

LoginCheck(r, u) ==
    /\ request[r].at = "idle" /\ account[u] = "active"
    /\ Goes(r, Reads("loggingIn", u, 0))
    /\ UNCHANGED tables

LoginCommit(r) ==
    /\ request[r].at = "loggingIn"
    /\ Issue(request[r].user, 0)
    /\ Answers(r, issued + 1)
    /\ UNCHANGED <<account, admins, replaced, revoked>>

-----------------------------------------------------------------------------
(***************************************************************************)
(* Refresh and logout.  The token's row and its user are read by two       *)
(* statements of one step: the second only adds a refusal.                 *)
(***************************************************************************)

\* replaced_by_id is set: _revoke_all_tokens_for_user selects what to revoke.
RefreshReused(r, t) ==
    /\ request[r].at = "idle" /\ t \in Issued
    /\ replaced[t] # 0
    /\ Goes(r, [at |-> "reused", user |-> holder[t], token |-> t,
                seen |-> TokensOf(holder[t]), upto |-> issued,
                by |-> Nobody, active |-> "keep", admin |-> "keep"])
    /\ UNCHANGED tables

\* Revoked, past expires_at, or the user deactivated.  Time is left out: any
\* token may turn out to have expired.
RefreshRefused(r, t) ==
    /\ request[r].at = "idle" /\ t \in Issued
    /\ replaced[t] = 0
    /\ Answers(r, 0)
    /\ UNCHANGED tables

RefreshValid(r, t) ==
    /\ request[r].at = "idle" /\ t \in Issued
    /\ replaced[t] = 0 /\ t \notin revoked
    /\ account[holder[t]] = "active"
    /\ Goes(r, Reads("rotating", Nobody, t))
    /\ UNCHANGED tables

\* Mutant of RotateCommit: linked, and revoked by a later sweep.
RotateKeepsOld(r) ==
    LET t == request[r].token IN
    /\ request[r].at = "rotating"
    /\ Issue(holder[t], t)
    /\ replaced' = [replaced EXCEPT ![t] = issued + 1]
    /\ Answers(r, issued + 1)
    /\ UNCHANGED <<account, admins, revoked>>

\* Mutant of RotateCommit: the old row is left as it is.
RotateForgetsOld(r) ==
    LET t == request[r].token IN
    /\ request[r].at = "rotating"
    /\ Issue(holder[t], t)
    /\ Answers(r, issued + 1)
    /\ UNCHANGED <<account, admins, replaced, revoked>>

\* The successor, and the old row's two columns by primary key: a second
\* rotation of the same token waits for the row lock and writes over the first.
RotateCommit(r) ==
    LET t == request[r].token IN
    /\ request[r].at = "rotating"
    /\ Issue(holder[t], t)
    /\ revoked' = revoked \cup {t}
    /\ replaced' = [replaced EXCEPT ![t] = issued + 1]
    /\ Answers(r, issued + 1)
    /\ UNCHANGED <<account, admins>>

\* Mutant of RevokeAllCommit: only the token the shown one was replaced by.
RevokeSuccessor(r) ==
    /\ request[r].at = "reused"
    /\ revoked' = revoked \cup {replaced[request[r].token]}
    /\ Answers(r, 0)
    /\ UNCHANGED <<account, admins, issued, holder, replaced, from>>

RevokeAllCommit(r) ==
    /\ request[r].at = "reused"
    /\ revoked' = revoked \cup request[r].seen
    /\ Answers(r, 0)
    /\ UNCHANGED <<account, admins, issued, holder, replaced, from>>

LogoutRead(r, t) ==
    /\ request[r].at = "idle" /\ t \in Issued
    /\ Goes(r, Reads("leaving", Nobody, t))
    /\ UNCHANGED tables

LogoutCommit(r) ==
    /\ request[r].at = "leaving"
    /\ revoked' = revoked \cup {request[r].token}
    /\ Answers(r, 0)
    /\ UNCHANGED <<account, admins, issued, holder, replaced, from>>

-----------------------------------------------------------------------------
(***************************************************************************)
(* PATCH /admin/users/{id}.  The ORM writes a column only if it is assigned*)
(* another value than the one loaded.                                      *)
(***************************************************************************)

IsAdmin(a) == a \in admins /\ account[a] = "active"

PatchOf(a, u, active, admin) ==
    [at |-> "patching", user |-> u, token |-> 0, seen |-> {}, upto |-> 0, by |-> a,
     active |-> IF active = account[u] THEN "keep" ELSE active,
     admin |-> IF (admin = "yes") = (u \in admins) THEN "keep" ELSE admin]

\* Mutant of PatchCheck: an admin may give up its own rights.
PatchCheckSelf(r, a, u, active, admin) ==
    /\ request[r].at = "idle" /\ IsAdmin(a) /\ account[u] # "none"
    /\ active # "keep" \/ admin # "keep"
    /\ admin # "keep" => u \in Recruiters
    /\ Goes(r, PatchOf(a, u, active, admin))
    /\ UNCHANGED tables

\* require_admin, the row of u, and the refusals; "keep" is a field not given.
PatchCheck(r, a, u, active, admin) ==
    /\ request[r].at = "idle" /\ IsAdmin(a) /\ account[u] # "none"
    /\ active # "keep" \/ admin # "keep"
    /\ u = a => active # "inactive" /\ admin # "no"
    /\ admin # "keep" => u \in Recruiters
    /\ Goes(r, PatchOf(a, u, active, admin))
    /\ UNCHANGED tables

PatchCommit(r) ==
    LET u == request[r].user
        active == request[r].active
        admin == request[r].admin IN
    /\ request[r].at = "patching"
    /\ account' = IF active = "keep" THEN account ELSE [account EXCEPT ![u] = active]
    /\ admins' = CASE admin = "yes" -> admins \cup {u}
                   [] admin = "no" -> admins \ {u}
                   [] OTHER -> admins
    /\ Answers(r, 0)
    /\ UNCHANGED <<issued, holder, replaced, from, revoked>>

Receive(r) ==
    /\ request[r].at = "answered"
    /\ Goes(r, Idle)
    /\ UNCHANGED tables

-----------------------------------------------------------------------------
Finishes(r) ==
    \/ RegisterCommit(r) \/ RegisterCollides(r) \/ LoginCommit(r) \/ RotateCommit(r)
    \/ RevokeAllCommit(r) \/ LogoutCommit(r) \/ PatchCommit(r)

Refresh(r, t) == RefreshReused(r, t) \/ RefreshRefused(r, t) \/ RefreshValid(r, t)

Patches(r) ==
    \E a, u \in Users, active \in {"keep", "active", "inactive"}, admin \in {"keep", "yes", "no"} :
        PatchCheck(r, a, u, active, admin)

Next ==
    \E r \in Requests :
      \/ \E u \in Users : RegisterCheck(r, u) \/ LoginCheck(r, u)
      \/ \E t \in Tokens : Refresh(r, t) \/ LogoutRead(r, t)
      \/ Patches(r) \/ Finishes(r) \/ Receive(r)

Spec == Init /\ [][Next]_accountVars

-----------------------------------------------------------------------------
States == {"idle", "registering", "loggingIn", "rotating", "reused", "leaving",
           "patching", "answered"}

Locals == [at : States, user : Users \cup {Nobody}, token : 0..MaxTokens,
           seen : SUBSET Tokens, upto : 0..MaxTokens, by : Users \cup {Nobody},
           active : {"keep", "active", "inactive"}, admin : {"keep", "yes", "no"}]

TypeOK ==
    /\ account \in [Users -> {"none", "active", "inactive"}]
    /\ admins \subseteq Recruiters
    /\ issued \in 0..MaxTokens
    /\ holder \in [Tokens -> Users \cup {Nobody}]
    /\ replaced \in [Tokens -> 0..MaxTokens]
    /\ from \in [Tokens -> 0..MaxTokens]
    /\ revoked \subseteq Issued
    /\ request \in [Requests -> Locals]

\* replaced_by_id links a login's tokens in order of issue, and what was rotated
\* can be told: showing any ancestor of a token, however far back and whichever
\* of two racing rotations won the link, is found out as reuse
\* (_get_valid_refresh_token_row, rotate_refresh_token).
ChainsHold ==
    \A t \in Tokens :
      /\ replaced[t] # 0 => /\ replaced[t] \in Issued /\ replaced[t] > t
                            /\ from[replaced[t]] = t /\ t \in revoked
      /\ from[t] # 0 => /\ t \in Issued /\ from[t] < t
                        /\ replaced[from[t]] >= t
                        /\ holder[from[t]] = holder[t]
      /\ t \in Issued => holder[t] \in Users
      /\ t \notin Issued => holder[t] = Nobody

Children(t) == {n \in Tokens : from[n] = t}

\* A token is rotated more than once only by requests that overlap: no more often
\* than the API serves requests at once, however often it is shown afterwards.
ForksAreOverlaps ==
    \A t \in Tokens : Cardinality(Children(t)) <= Cardinality(Requests)

\* The login a token descends from.
LoginOf[t \in Tokens] == IF from[t] = 0 THEN t ELSE LoginOf[from[t]]

Logins == {t \in Issued : from[t] = 0}

Family(login) == {t \in Issued : LoginOf[t] = login}

\* Tokens of the family whose link was written over by a racing rotation.
Unlinked(login) == {t \in Family(login) \ {login} : replaced[from[t]] # t}

\* Of the tokens of one login, one is live, and one more for each rotation that
\* lost its link to a racing one: rotation by itself never multiplies sessions.
LiveIsCounted ==
    \A login \in Logins :
        Cardinality(Family(login) \ revoked) <= 1 + Cardinality(Unlinked(login))

\* The revoke-all of a reused token leaves its user no token that was issued
\* before the reuse was seen; one committed in between stays live.
ReuseEndsSessions ==
    [][\A r \in Requests : request[r].at = "reused" /\ request'[r].at = "answered" =>
         \A t \in 1..request[r].upto : holder[t] = request[r].user => t \in revoked']_accountVars

\* A registered address is only ever changed by an administrator: a registration
\* that found it free, and lost the race for it, does not touch the account, not
\* even one deactivated meanwhile (the unique index behind register_user).
AccountsStay ==
    [][\A u \in Users : account[u] # "none" /\ account'[u] # account[u] =>
         \E r \in Requests : request[r].at = "patching" /\ request[r].user = u]_accountVars

\* The last administrator falls only to a request of somebody who was one when it
\* began and has lost the rights since: patch_user compares the target with the
\* caller and nothing else.
LastAdminFalls ==
    [][(\E a \in Users : IsAdmin(a)) /\ (\A a \in Users : ~IsAdmin(a)') =>
         \E r \in Requests : /\ request[r].at = "patching" /\ request'[r].at = "answered"
                             /\ ~IsAdmin(request[r].by)]_accountVars

\* What a request holds in its hands is still true of the tables.
InStep(q) ==
    /\ q.at \in {"registering", "loggingIn", "patching"} => q.user \in Users
    /\ q.at \in {"rotating", "leaving", "reused"} => q.token \in Issued
    /\ q.at = "patching" => /\ q.by \in Users /\ account[q.user] # "none"
                            /\ q.admin # "keep" => q.user \in Recruiters
                            /\ q.user = q.by => q.active # "inactive" /\ q.admin # "no"
    /\ q.at = "reused" => /\ q.seen \subseteq Issued /\ q.upto \in 0..issued
                          /\ \A t \in 1..q.upto :
                               holder[t] = q.user => t \in q.seen \cup revoked

\* Rotations that found t valid and are yet to commit.
Rotations(t) == {r \in Requests : request[r].at = "rotating" /\ request[r].token = t}

\* What ForksAreOverlaps and LiveIsCounted follow from: rotations done and to come
\* share the slots of requests, and every token that was never rotated is the end
\* of its login's chain or of a branch whose link was lost.
ForksFit ==
    \A t \in Tokens : Cardinality(Children(t)) + Cardinality(Rotations(t)) <= Cardinality(Requests)

EndsAreCounted ==
    \A login \in Logins :
        Cardinality({t \in Family(login) : replaced[t] = 0}) = 1 + Cardinality(Unlinked(login))

\* The inductive invariant.
AccountsInv == TypeOK /\ ChainsHold /\ \A r \in Requests : InStep(request[r])
=============================================================================
