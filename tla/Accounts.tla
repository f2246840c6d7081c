------------------------------ MODULE Accounts ------------------------------
(***************************************************************************)
(* One account of the auth service and the browser pages that use it.      *)
(*                                                                         *)
(* Every handler of auth/routes.py is split at its database statements,    *)
(* so that the calls of several pages interleave under READ COMMITTED.  A  *)
(* page is one load of the web client: a reload closes it and opens        *)
(* another one, while a handler it called runs on.  The access token lies  *)
(* in the tab's sessionStorage and outlives a reload; the refresh token    *)
(* lies in localStorage, which all pages share.  Pairs of tokens are       *)
(* numbered in the order in which their rows are committed, and 0 stands   *)
(* for no token.                                                           *)
(*                                                                         *)
(* A call that is refused before it changes anything is not a step.        *)
(***************************************************************************)
EXTENDS Naturals, FiniteSets

CONSTANTS
  Pages,       \* page loads, each with at most one call under way
  MaxTokens,   \* bound: pairs issued
  MaxEnrolled  \* bound: successful calls of /auth/2fa/enable

ASSUME BoundsAssumption == MaxTokens \in Nat /\ MaxEnrolled \in Nat

VARIABLES
  user,      \* the row of auth.users
  code,      \* the Redis key auth:verify:<user> exists
  linked,    \* auth.oauth_accounts has a row for the Google identity
  pairs,     \* number of rows of auth.refresh_tokens
  token,     \* token[t]: row t, the call that made it, and the calls that had
             \* read it when it was revoked
  enrolled,  \* number of secrets generated; a secret is its number
  uses,      \* uses[n][p]: how often the recovery code of enrolment n let p in
  page,      \* page[p]: not yet opened, open or closed
  stored,    \* localStorage: the refresh token
  access,    \* access[p]: the access token in the sessionStorage of p's tab
  setup,     \* pages whose register dialog holds a setup token
  req        \* req[p]: the call of page p and what its handler has read

vars == <<user, code, linked, pairs, token, enrolled, uses,
          page, stored, access, setup, req>>

\* What only the handlers change, and what only the pages change.
rows == <<user, code, linked, pairs, token, enrolled, uses>>
browser == <<page, stored, access, setup>>

TokenIds == 1 .. MaxTokens
Enrolments == 1 .. MaxEnrolled
NoToken == [revoked |-> FALSE, google |-> FALSE, parent |-> 0, page |-> {}, racers |-> {}]
Idle == [op |-> "idle", at |-> "idle", n |-> 0, confirms |-> FALSE]

Init ==
  /\ user = [status |-> "absent", password |-> FALSE, secret |-> 0, enabled |-> FALSE]
  /\ code = FALSE
  /\ linked = FALSE
  /\ pairs = 0
  /\ token = [t \in TokenIds |-> NoToken]
  /\ enrolled = 0
  /\ uses = [n \in Enrolments |-> [p \in Pages |-> 0]]
  /\ page = [p \in Pages |-> "unopened"]
  /\ stored = 0
  /\ access = [p \in Pages |-> 0]
  /\ setup = {}
  /\ req = [p \in Pages |-> Idle]

-----------------------------------------------------------------------------
(* How a call proceeds *)

At(p, op, at) == req[p].op = op /\ req[p].at = at

Start(p, op, at) ==
  /\ page[p] = "open"
  /\ req[p] = Idle
  /\ req' = [req EXCEPT ![p] = [op |-> op, at |-> at, n |-> 0, confirms |-> FALSE]]

Goto(p, at) == req' = [req EXCEPT ![p].at = at]

Done(p) == req' = [req EXCEPT ![p] = Idle]

\* The call ends without tokens: an AuthError, an exception, a lost answer.  The
\* page has something to do about it after a refresh and after a logout only.
Fail(p) == IF req[p].op \in {"refresh", "logout"} THEN Goto(p, "over") ELSE Done(p)

\* The calls that have read the row of token t as not revoked.
Holding(t) == {p \in Pages : At(p, "refresh", "commit") /\ req[p].n = t}

\* create_refresh_token: the row is added, and whatever else is pending in the
\* session is written by the same commit.
AddPair(p, parent) ==
  /\ pairs < MaxTokens
  /\ pairs' = pairs + 1
  /\ token' = [t \in TokenIds |->
       CASE t = pairs + 1 -> [NoToken EXCEPT !.google = (req[p].op = "google"),
                                             !.parent = parent, !.page = {p}]
         [] t = parent    -> [token[t] EXCEPT !.revoked = TRUE,
                                !.racers = IF token[t].revoked THEN @ ELSE Holding(t) \ {p}]
         [] OTHER         -> token[t]]
  /\ req' = [req EXCEPT ![p].at = "issued", ![p].n = pairs + 1]

\* issue_token_pair at the end of verify-email, login, 2fa/verify and the
\* Google callback.
Issue(p) ==
  /\ req[p].at = "issue"
  /\ AddPair(p, 0)
  /\ UNCHANGED <<user, code, linked, enrolled, uses, browser>>

-----------------------------------------------------------------------------
(* POST /auth/register and /auth/verify-email *)

\* create_user compares the address as it was typed with stored ones in lower
\* case, so the check may find nothing although the user exists.
Register(p) ==
  /\ Start(p, "register", "insert")
  /\ UNCHANGED <<rows, browser>>

\* The insert, which the unique index refuses if the address is taken.
RegisterInsert(p) ==
  /\ At(p, "register", "insert")
  /\ IF user.status = "absent"
     THEN /\ user' = [user EXCEPT !.status = "pending_verification", !.password = TRUE]
          /\ Goto(p, "mail")
     ELSE /\ UNCHANGED user
          /\ Fail(p)
  /\ UNCHANGED <<code, linked, pairs, token, enrolled, uses, browser>>

\* issue_verification_code: the key in Redis.  A mail that fails is reported in
\* the answer.  The dialog keeps the setup token.
RegisterMail(p) ==
  /\ At(p, "register", "mail")
  /\ code' = TRUE
  /\ setup' = IF page[p] = "open" THEN setup \union {p} ELSE setup
  /\ Done(p)
  /\ UNCHANGED <<user, linked, pairs, token, enrolled, uses,
                 page, stored, access>>

CodeExpires ==
  /\ code
  /\ code' = FALSE
  /\ UNCHANGED <<user, linked, pairs, token, enrolled, uses, browser, req>>

VerifyEmail(p) ==
  /\ p \in setup
  /\ user.status = "pending_verification"
  /\ Start(p, "verify_email", "check")
  /\ UNCHANGED <<rows, browser>>

\* check_verification_code: GET and compare, then DELETE.
CheckCode(p) ==
  /\ At(p, "verify_email", "check")
  /\ IF code THEN Goto(p, "delete") ELSE Fail(p)
  /\ UNCHANGED <<rows, browser>>

DeleteCode(p) ==
  /\ At(p, "verify_email", "delete")
  /\ code' = FALSE
  /\ Goto(p, "activate")
  /\ UNCHANGED <<user, linked, pairs, token, enrolled, uses, browser>>

\* activate_user commits before the pair is issued.
ActivateUser(p) ==
  /\ At(p, "verify_email", "activate")
  /\ user' = [user EXCEPT !.status = "active"]
  /\ Goto(p, "issue")
  /\ UNCHANGED <<code, linked, pairs, token, enrolled, uses, browser>>

-----------------------------------------------------------------------------
(* POST /auth/login *)

\* Mutant: the status of the account is not tested.
LoginAnyStatus(p) ==
  /\ user.password
  /\ IF user.enabled THEN Start(p, "verify_2fa", "step_up") ELSE Start(p, "login", "issue")
  /\ UNCHANGED <<rows, browser>>

\* authenticate_password; with two-factor authentication the answer is a step-up
\* token and the dialog asks for a code.
Login(p) ==
  /\ user.password
  /\ user.status = "active"
  /\ IF user.enabled THEN Start(p, "verify_2fa", "step_up") ELSE Start(p, "login", "issue")
  /\ UNCHANGED <<rows, browser>>

-----------------------------------------------------------------------------
(* POST /auth/2fa/enable and /auth/2fa/verify *)

Enable(p) ==
  /\ access[p] # 0
  /\ user.status = "active"
  /\ ~user.enabled
  /\ Start(p, "enable", "commit")
  /\ UNCHANGED <<rows, browser>>

\* enable_2fa: a new secret over the old one; the recovery codes are added to
\* those of earlier calls.
EnableCommit(p) ==
  /\ At(p, "enable", "commit")
  /\ enrolled < MaxEnrolled
  /\ enrolled' = enrolled + 1
  /\ user' = [user EXCEPT !.secret = enrolled + 1]
  /\ Done(p)
  /\ UNCHANGED <<code, linked, pairs, token, uses, browser>>

\* The settings page of a signed-in user, or the dialog after a step-up.
MayEnterCode(p) ==
  /\ page[p] = "open"
  /\ \/ req[p] = Idle /\ access[p] # 0
     \/ At(p, "verify_2fa", "step_up")

\* A code of the authenticator that holds the stored secret: from the settings
\* page it confirms the enrolment, after a step-up it completes the login.
VerifyTotp(p) ==
  /\ user.secret # 0
  /\ MayEnterCode(p)
  /\ req' = [req EXCEPT ![p].op = "verify_2fa",
                       ![p].at = IF req[p] = Idle THEN "activate" ELSE "issue"]
  /\ UNCHANGED <<rows, browser>>

\* verify_recovery_code: the SELECT of an unused code ...
VerifyRecovery(p, n) ==
  /\ n \leq enrolled
  /\ \A q \in Pages : uses[n][q] = 0
  /\ MayEnterCode(p)
  /\ req' = [req EXCEPT ![p] = [op |-> "verify_2fa", at |-> "spend", n |-> n,
                                confirms |-> req[p] = Idle]]
  /\ UNCHANGED <<rows, browser>>

\* ... and the commit of its used_at.
SpendRecovery(p) ==
  /\ At(p, "verify_2fa", "spend")
  /\ uses' = [uses EXCEPT ![req[p].n][p] = @ + 1]
  /\ Goto(p, IF req[p].confirms THEN "activate" ELSE "issue")
  /\ UNCHANGED <<user, code, linked, pairs, token, enrolled, browser>>

\* activate_user_after_2fa
ActivateAfter2FA(p) ==
  /\ At(p, "verify_2fa", "activate")
  /\ user' = [user EXCEPT !.enabled = TRUE, !.status = "active"]
  /\ req' = [req EXCEPT ![p].at = "issue", ![p].confirms = TRUE]
  /\ UNCHANGED <<code, linked, pairs, token, enrolled, uses, browser>>

-----------------------------------------------------------------------------
(* GET /auth/oauth/google/callback *)

\* The first SELECT: with a linked identity the pair is issued at once.
Google(p) ==
  /\ Start(p, "google", IF linked THEN "issue" ELSE "find_user")
  /\ UNCHANGED <<rows, browser>>

\* The second SELECT, by e-mail.
GoogleFindUser(p) ==
  /\ At(p, "google", "find_user")
  /\ Goto(p, IF user.status = "absent" THEN "create" ELSE "link")
  /\ UNCHANGED <<rows, browser>>

\* flush of the new user and commit with its link; the unique index refuses a
\* second user, and nothing refuses a second link.
GoogleCreate(p) ==
  /\ At(p, "google", "create")
  /\ IF user.status = "absent"
     THEN /\ user' = [user EXCEPT !.status = "active"]
          /\ linked' = TRUE
          /\ Goto(p, "issue")
     ELSE /\ UNCHANGED <<user, linked>>
          /\ Fail(p)
  /\ UNCHANGED <<code, pairs, token, enrolled, uses, browser>>

GoogleLink(p) ==
  /\ At(p, "google", "link")
  /\ linked' = TRUE
  /\ Goto(p, "issue")
  /\ UNCHANGED <<user, code, pairs, token, enrolled, uses, browser>>

-----------------------------------------------------------------------------
(* GET /auth/me, POST /auth/refresh, POST /auth/logout *)

\* refreshMe of AuthProvider: whatever error /auth/me ends with, the page goes on
\* to refresh with the token it finds in localStorage then.
Refresh(p) ==
  /\ access[p] # 0
  /\ stored # 0
  /\ page[p] = "open"
  /\ req[p] = Idle
  /\ req' = [req EXCEPT ![p] = [op |-> "refresh", at |-> "select", n |-> stored,
                                confirms |-> FALSE]]
  /\ UNCHANGED <<rows, browser>>

\* Mutant: revoked_at is not part of the SELECT.
RefreshSelectAny(p) ==
  /\ At(p, "refresh", "select")
  /\ Goto(p, "commit")
  /\ UNCHANGED <<rows, browser>>

\* The SELECT of a row that is not revoked.  That it has expired is a failure
\* that may happen at any time (Breaks).
RefreshSelect(p) ==
  /\ At(p, "refresh", "select")
  /\ Goto(p, IF token[req[p].n].revoked THEN "over" ELSE "commit")
  /\ UNCHANGED <<rows, browser>>

\* revoked_at of the old row and the new row in one commit; for a user that is
\* not active the pending revocation is rolled back.
RefreshCommit(p) ==
  /\ At(p, "refresh", "commit")
  /\ IF user.status = "active"
     THEN AddPair(p, req[p].n)
     ELSE Fail(p) /\ UNCHANGED <<pairs, token>>
  /\ UNCHANGED <<user, code, linked, enrolled, uses, browser>>

Logout(p) ==
  /\ access[p] # 0
  /\ Start(p, "logout", "blocklist")
  /\ UNCHANGED <<rows, browser>>

\* The Redis key jwt:blocklist:<jti> has no reader but /auth/me, and Refresh
\* allows that to fail in any case; so no variable stands for it.
BlocklistJti(p) ==
  /\ At(p, "logout", "blocklist")
  /\ Goto(p, "over")
  /\ UNCHANGED <<rows, browser>>

-----------------------------------------------------------------------------
(* The answers, and the pages *)

\* persistTokens, or the two setters of refreshTokens.  The settings page has no
\* use for the pair that 2fa/verify answers with.
Keep(p) ==
  /\ req[p].at = "issued"
  /\ page[p] = "open"
  /\ IF req[p].confirms
     THEN UNCHANGED <<stored, access>>
     ELSE /\ stored' = req[p].n
          /\ access' = [access EXCEPT ![p] = req[p].n]
  /\ Done(p)
  /\ UNCHANGED <<rows, page, setup>>

\* Mutant: the session is left alone when a refresh fails.
GiveUpKeeping(p) ==
  /\ req[p].at = "over"
  /\ IF page[p] = "open" /\ req[p].op = "logout"
     THEN /\ stored' = 0
          /\ access' = [access EXCEPT ![p] = 0]
     ELSE UNCHANGED <<stored, access>>
  /\ Done(p)
  /\ UNCHANGED <<rows, page, setup>>

\* A refresh that fails and a logout, however it ends, clear the session.
GiveUp(p) ==
  /\ req[p].at = "over"
  /\ IF page[p] = "open"
     THEN /\ stored' = 0
          /\ access' = [access EXCEPT ![p] = 0]
     ELSE UNCHANGED <<stored, access>>
  /\ Done(p)
  /\ UNCHANGED <<rows, page, setup>>

\* The answer for a page that is gone.
Unheard(p) ==
  /\ req[p].at = "issued"
  /\ page[p] = "closed"
  /\ Done(p)
  /\ UNCHANGED <<rows, browser>>

\* The database, Redis or the network fails, before a commit (which is then
\* rolled back) or after the last one.
Breaks(p) ==
  /\ req[p].at \notin {"idle", "over"}
  /\ Fail(p)
  /\ UNCHANGED <<rows, browser>>

\* A new tab of the same browser.
Open(p) ==
  /\ page[p] = "unopened"
  /\ page' = [page EXCEPT ![p] = "open"]
  /\ UNCHANGED <<rows, stored, access, setup, req>>

\* A tab is loaded anew: the state of its scripts is gone, its sessionStorage
\* stays.  A dialog that waits for a code goes with the page.
Reload(p, q) ==
  /\ page[p] = "open"
  /\ page[q] = "unopened"
  /\ page' = [page EXCEPT ![p] = "closed", ![q] = "open"]
  /\ access' = [access EXCEPT ![q] = access[p]]
  /\ setup' = setup \ {p}
  /\ req' = IF At(p, "verify_2fa", "step_up") THEN [req EXCEPT ![p] = Idle] ELSE req
  /\ UNCHANGED <<rows, stored>>

-----------------------------------------------------------------------------
Call(p) ==
  \/ Register(p) \/ VerifyEmail(p) \/ Login(p) \/ Google(p)
  \/ Enable(p) \/ VerifyTotp(p) \/ \E n \in Enrolments : VerifyRecovery(p, n)
  \/ Refresh(p) \/ Logout(p)

Handle(p) ==
  \/ RegisterInsert(p) \/ RegisterMail(p)
  \/ CheckCode(p) \/ DeleteCode(p) \/ ActivateUser(p)
  \/ EnableCommit(p) \/ SpendRecovery(p) \/ ActivateAfter2FA(p)
  \/ GoogleFindUser(p) \/ GoogleCreate(p) \/ GoogleLink(p)
  \/ RefreshSelect(p) \/ RefreshCommit(p) \/ BlocklistJti(p)
  \/ Issue(p)

Answer(p) == Keep(p) \/ GiveUp(p) \/ Unheard(p) \/ Breaks(p)

Next ==
  \/ CodeExpires
  \/ \E p \in Pages : Open(p) \/ Call(p) \/ Handle(p) \/ Answer(p)
  \/ \E p, q \in Pages : Reload(p, q)

Spec == Init /\ [][Next]_vars

-----------------------------------------------------------------------------
(* Properties *)

Ops == {"idle", "register", "verify_email", "login", "enable", "verify_2fa",
        "google", "refresh", "logout"}
Places == {"idle", "insert", "mail", "check", "delete", "activate", "issue", "step_up",
           "commit", "spend", "find_user", "create", "link", "select", "blocklist",
           "issued", "over"}

\* Types: what the rows, the Redis keys and the browser's storage may hold.
TypeOK ==
  /\ user \in [status : {"absent", "pending_verification", "active"},
               password : BOOLEAN, secret : 0 .. MaxEnrolled, enabled : BOOLEAN]
  /\ code \in BOOLEAN
  /\ linked \in BOOLEAN
  /\ pairs \in 0 .. MaxTokens
  /\ token \in [TokenIds -> [revoked : BOOLEAN, google : BOOLEAN,
                            parent : 0 .. MaxTokens, page : SUBSET Pages,
                            racers : SUBSET Pages]]
  /\ enrolled \in 0 .. MaxEnrolled
  /\ uses \in [Enrolments -> [Pages -> Nat]]
  /\ page \in [Pages -> {"unopened", "open", "closed"}]
  /\ stored \in 0 .. pairs
  /\ access \in [Pages -> 0 .. pairs]
  /\ setup \subseteq Pages
  /\ req \in [Pages -> [op : Ops, at : Places, n : Nat, confirms : BOOLEAN]]

\* SELECT and UPDATE of a refresh are apart, so calls that overlap may all
\* succeed with one token; but only those: whoever asks after the first one has
\* committed is refused.  Likewise nobody gets in twice by one recovery code.
SpentOnceUnlessRacing ==
  /\ \A t, u \in 1 .. pairs :
       t < u /\ token[t].parent = token[u].parent /\ token[t].parent # 0
         => token[u].page \subseteq token[token[t].parent].racers
  /\ \A n \in Enrolments, p \in Pages : uses[n][p] \leq 1

\* The refresh token in localStorage is one the service still takes.  It may be
\* spent only while the page that spent it has not dealt with the answer yet, or
\* because that page was closed before it could: whatever the pages do at once,
\* they leave no spent token behind for the next refresh to stumble over.
StoredTokenNotSpent ==
  stored # 0 /\ token[stored].revoked =>
    \E u \in 1 .. pairs, p \in Pages :
      /\ token[u].parent = stored
      /\ token[u].page = {p}
      /\ \/ page[p] = "closed"
         \/ req[p].op = "refresh" /\ req[p].at \in {"issued", "over"} /\ req[p].n = u

\* Whoever was given tokens has an active account, Google sign-in aside, which
\* linked an account that still waits for its e-mail code without activating it.
HoldersAreActive ==
  (\E t \in 1 .. pairs : ~token[t].google) => user.status = "active"
=============================================================================
