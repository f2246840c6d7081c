---------------------------- MODULE AccountsProofs ----------------------------
(***************************************************************************)
(* What the handlers of the auth service and the pages' storage do to each *)
(* other, for any number of pages, tokens and enrolments.                  *)
(*                                                                         *)
(* A handler holds a row it has read while others change it.  The          *)
(* invariant says, for each place a call can be at, what is still true of  *)
(* that row.                                                               *)
(***************************************************************************)
EXTENDS Accounts, TLAPS

\* The calls that hold, or look for, the row of a refresh token.
Refreshing(q) == req[q].op = "refresh" /\ req[q].at \in {"select", "commit"}

\* The rows form trees: the token a pair was refreshed from is older, and revoked.
TreeInv ==
  \A t \in 1 .. pairs :
    /\ token[t].parent \in 0 .. (t - 1)
    /\ token[t].parent # 0 => token[token[t].parent].revoked
    /\ \E p \in Pages : token[t].page = {p}

\* A refresh that has found its row revoked since is one of those that had read it
\* before; a pair on its way to a page is not known to any other page.
TokenCall(p) ==
  /\ req[p].op = "refresh" => ~req[p].confirms
  /\ Refreshing(p) => req[p].n \in 1 .. pairs
  /\ At(p, "refresh", "commit") /\ token[req[p].n].revoked
       => p \in token[req[p].n].racers
  /\ req[p].at = "issued" =>
       /\ req[p].n \in 1 .. pairs /\ req[p].n # stored
       /\ token[req[p].n].page = {p} /\ ~token[req[p].n].revoked
       /\ \A q \in Pages : Refreshing(q) => req[q].n # req[p].n
  /\ page[p] = "unopened" => req[p] = Idle
TokenInv == \A p \in Pages : TokenCall(p)

\* A call that has read a recovery code as unused has not used it itself.
RecoveryInv ==
  /\ \A p \in Pages : req[p].at = "spend" =>
       /\ req[p].op = "verify_2fa"
       /\ req[p].n \in Enrolments /\ uses[req[p].n][p] = 0
  /\ \A n \in Enrolments, p \in Pages : uses[n][p] \leq 1

\* An account that is active stays so; a call that will issue a pair has made sure.
ActiveInv ==
  /\ \A p \in Pages :
       \/ req[p].at = "issue" /\ req[p].op # "google"
       \/ req[p].at = "step_up"
       \/ req[p].at = "spend" /\ ~req[p].confirms
       => user.status = "active"
  /\ HoldersAreActive

\* The first half of SpentOnceUnlessRacing.
RotationInv ==
  \A t, u \in 1 .. pairs :
    t < u /\ token[t].parent = token[u].parent /\ token[t].parent # 0
      => token[u].page \subseteq token[token[t].parent].racers

\* The conjuncts of TypeOK.
RowTypes ==
  /\ user \in [status : {"absent", "pending_verification", "active"},
               password : BOOLEAN, secret : 0 .. MaxEnrolled, enabled : BOOLEAN]
  /\ code \in BOOLEAN
  /\ linked \in BOOLEAN
  /\ enrolled \in 0 .. MaxEnrolled
Row == [revoked : BOOLEAN, google : BOOLEAN, parent : 0 .. MaxTokens,
        page : SUBSET Pages, racers : SUBSET Pages]
PairTypes ==
  /\ pairs \in 0 .. MaxTokens
  /\ token \in [TokenIds -> Row]
  /\ stored \in 0 .. pairs
  /\ access \in [Pages -> 0 .. pairs]
UsesType == uses \in [Enrolments -> [Pages -> Nat]]
PageType ==
  /\ page \in [Pages -> {"unopened", "open", "closed"}]
  /\ setup \subseteq Pages
CallSet == [op : Ops, at : Places, n : Nat, confirms : BOOLEAN]
ReqType == req \in [Pages -> CallSet]

IInv ==
  /\ RowTypes /\ PairTypes /\ UsesType /\ PageType /\ ReqType
  /\ TreeInv /\ TokenInv /\ RecoveryInv /\ ActiveInv
  /\ RotationInv /\ StoredTokenNotSpent

\* What a step makes of the call of page p.
Becomes(p, op, at, n, confirms) ==
  /\ req'[p].op = op /\ req'[p].at = at /\ req'[p].n = n /\ req'[p].confirms = confirms
  /\ \A q \in Pages \ {p} : req'[q] = req[q]

-----------------------------------------------------------------------------
\* Nothing has happened.
LEMMA InitIInv == Init => IInv
<1> SUFFICES ASSUME Init PROVE IInv
  OBVIOUS
<1>1. RowTypes /\ UsesType /\ PageType
  <2>1. RowTypes
    <3>1. 0 \in 0 .. MaxEnrolled
      BY BoundsAssumption
    <3> QED
      BY <3>1 DEF Init, RowTypes
  <2>2. UsesType
    BY DEF Init, UsesType
  <2>3. PageType
    BY DEF Init, PageType
  <2> QED
    BY <2>1, <2>2, <2>3
<1>2. PairTypes
  BY BoundsAssumption DEF Init, PairTypes, Row, NoToken
<1>3. ReqType
  BY DEF Init, ReqType, CallSet, Idle, Ops, Places
<1>4. TreeInv /\ RotationInv /\ StoredTokenNotSpent /\ HoldersAreActive
  BY DEF Init, TreeInv, RotationInv, StoredTokenNotSpent, HoldersAreActive
<1>5. TokenInv /\ RecoveryInv /\ ActiveInv
  BY <1>4 DEF Init, TokenInv, TokenCall, RecoveryInv, ActiveInv, Refreshing, At, Idle
<1> QED
  BY <1>1, <1>2, <1>3, <1>4, <1>5 DEF IInv

\* No call.
LEMMA IdleFacts ==
  Idle.op = "idle" /\ Idle.at = "idle" /\ Idle.n = 0 /\ Idle.confirms = FALSE
  BY DEF Idle

\* A page calls.
LEMMA StartMoves ==
  ASSUME ReqType
  PROVE  \A p \in Pages : \A op, at : Start(p, op, at) =>
           /\ Becomes(p, op, at, 0, FALSE)
           /\ op \in Ops /\ at \in Places => ReqType'
           /\ page[p] = "open" /\ req[p] = Idle
<1> SUFFICES ASSUME NEW p \in Pages, NEW op, NEW at, Start(p, op, at)
             PROVE  /\ Becomes(p, op, at, 0, FALSE)
                    /\ op \in Ops /\ at \in Places => ReqType'
                    /\ page[p] = "open" /\ req[p] = Idle
  OBVIOUS
<1>1. req' = [req EXCEPT ![p] = [op |-> op, at |-> at, n |-> 0, confirms |-> FALSE]]
  BY DEF Start
<1>2. Becomes(p, op, at, 0, FALSE)
  BY <1>1 DEF ReqType, Becomes
<1>3. op \in Ops /\ at \in Places => ReqType'
  BY <1>1 DEF ReqType, CallSet
<1> QED
  BY <1>2, <1>3 DEF Start

\* A handler goes on.
LEMMA GotoMoves ==
  ASSUME ReqType
  PROVE  \A p \in Pages : \A at : Goto(p, at) =>
           /\ Becomes(p, req[p].op, at, req[p].n, req[p].confirms)
           /\ at \in Places => ReqType'
  BY DEF ReqType, CallSet, Goto, Becomes

\* A handler is done.
LEMMA DoneMoves ==
  ASSUME ReqType
  PROVE  \A p \in Pages : Done(p) =>
           ReqType' /\ Becomes(p, "idle", "idle", 0, FALSE) /\ req'[p] = Idle
  BY DEF ReqType, CallSet, Done, Becomes, Idle, Ops, Places

\* A handler fails.
LEMMA FailMoves ==
  ASSUME ReqType
  PROVE  \A p \in Pages : Fail(p) =>
           /\ ReqType'
           /\ \/ /\ req[p].op \in {"refresh", "logout"}
                 /\ Becomes(p, req[p].op, "over", req[p].n, req[p].confirms)
              \/ Becomes(p, "idle", "idle", 0, FALSE) /\ req'[p] = Idle
  BY GotoMoves, DoneMoves DEF Fail, Places

\* The calls that choose their record themselves.
LEMMA OtherMoves ==
  ASSUME PairTypes, ReqType, NEW p \in Pages
  PROVE  /\ Refresh(p) => ReqType' /\ Becomes(p, "refresh", "select", stored, FALSE)
         /\ VerifyTotp(p) => ReqType'
              /\ Becomes(p, "verify_2fa", IF req[p] = Idle THEN "activate" ELSE "issue",
                         req[p].n, req[p].confirms)
         /\ \A n \in Enrolments : VerifyRecovery(p, n) => ReqType'
              /\ Becomes(p, "verify_2fa", "spend", n, req[p] = Idle)
         /\ ActivateAfter2FA(p) => ReqType' /\ Becomes(p, req[p].op, "issue", req[p].n, TRUE)
<1> USE DEF ReqType, CallSet, Becomes
<1>m. {"refresh", "verify_2fa"} \subseteq Ops
      /\ {"select", "activate", "issue", "spend"} \subseteq Places
  BY DEF Ops, Places
<1>1. ASSUME Refresh(p) PROVE ReqType' /\ Becomes(p, "refresh", "select", stored, FALSE)
  <2>1. stored \in Nat
    BY DEF PairTypes
  <2> QED
    BY <1>1, <1>m, <2>1 DEF Refresh
<1>2. ASSUME VerifyTotp(p)
      PROVE  ReqType' /\ Becomes(p, "verify_2fa", IF req[p] = Idle THEN "activate" ELSE "issue",
                                 req[p].n, req[p].confirms)
  BY <1>2, <1>m DEF VerifyTotp
<1>3. ASSUME NEW n \in Enrolments, VerifyRecovery(p, n)
      PROVE  ReqType' /\ Becomes(p, "verify_2fa", "spend", n, req[p] = Idle)
  <2>1. n \in Nat /\ (req[p] = Idle) \in BOOLEAN
    BY DEF Enrolments
  <2> QED
    BY <1>3, <1>m, <2>1 DEF VerifyRecovery
<1>4. ASSUME ActivateAfter2FA(p)
      PROVE  ReqType' /\ Becomes(p, req[p].op, "issue", req[p].n, TRUE)
  BY <1>4, <1>m DEF ActivateAfter2FA
<1> QED
  BY <1>1, <1>2, <1>3, <1>4

\* A new pair: its row, the row it was refreshed from, and nothing else.
LEMMA AddPairFacts ==
  ASSUME PairTypes, ReqType, NEW p \in Pages, NEW parent \in 0 .. pairs, AddPair(p, parent)
  PROVE  /\ pairs' = pairs + 1 /\ pairs' \in 0 .. MaxTokens /\ pairs' \in TokenIds
         /\ token' \in [TokenIds -> Row]
         /\ token'[pairs'].parent = parent /\ token'[pairs'].page = {p}
         /\ ~token'[pairs'].revoked /\ token'[pairs'].google = (req[p].op = "google")
         /\ \A t \in 1 .. pairs :
              /\ token'[t].parent = token[t].parent /\ token'[t].page = token[t].page
              /\ token'[t].google = token[t].google
              /\ (token'[t].revoked <=> token[t].revoked \/ t = parent)
              /\ token'[t].racers = IF t = parent /\ ~token[t].revoked
                                    THEN Holding(t) \ {p} ELSE token[t].racers
         /\ ReqType' /\ Becomes(p, req[p].op, "issued", pairs', req[p].confirms)
<1> DEFINE new == [NoToken EXCEPT !.google = (req[p].op = "google"),
                                  !.parent = parent, !.page = {p}]
           spent(t) == [token[t] EXCEPT !.revoked = TRUE,
                          !.racers = IF token[t].revoked THEN @ ELSE Holding(t) \ {p}]
<1>1. pairs' = pairs + 1 /\ pairs < MaxTokens
  BY DEF AddPair
<1>2. pairs \in 0 .. MaxTokens /\ token \in [TokenIds -> Row]
  BY DEF PairTypes
<1>3. pairs' \in 0 .. MaxTokens /\ pairs' \in TokenIds /\ pairs \in Nat
  BY <1>1, <1>2, BoundsAssumption DEF TokenIds
<1>4. \A t \in 1 .. pairs : t \in TokenIds /\ t # pairs + 1
  BY <1>1, <1>3, BoundsAssumption DEF TokenIds
<1>5. parent # pairs + 1 /\ parent \in 0 .. MaxTokens
  BY <1>1, <1>2, BoundsAssumption
<1>6. token' = [t \in TokenIds |-> CASE t = pairs + 1 -> new
                                     [] t = parent    -> spent(t)
                                     [] OTHER         -> token[t]]
  BY DEF AddPair
<1> HIDE DEF new, spent
<1>7. /\ token'[pairs'] = new
      /\ \A t \in TokenIds : t # pairs + 1 /\ t = parent => token'[t] = spent(t)
      /\ \A t \in TokenIds : t # pairs + 1 /\ t # parent => token'[t] = token[t]
      /\ token' = [t \in TokenIds |-> token'[t]]
  BY <1>1, <1>3, <1>5, <1>6
<1>8. new \in Row /\ new.parent = parent /\ new.page = {p} /\ ~new.revoked
      /\ new.google = (req[p].op = "google")
  BY <1>5 DEF new, NoToken, Row
<1>9. ASSUME NEW t \in TokenIds
      PROVE  /\ spent(t) \in Row /\ spent(t).revoked /\ spent(t).parent = token[t].parent
             /\ spent(t).page = token[t].page /\ spent(t).google = token[t].google
             /\ spent(t).racers = IF token[t].revoked THEN token[t].racers
                                  ELSE Holding(t) \ {p}
  <2>1. token[t] \in Row
    BY <1>2
  <2>2. Holding(t) \ {p} \in SUBSET Pages
    BY DEF Holding
  <2> QED
    BY <2>1, <2>2 DEF spent, Row
<1>10. \A t \in TokenIds : token'[t] \in Row
  BY <1>1, <1>2, <1>7, <1>8, <1>9
<1>11. token' \in [TokenIds -> Row]
  BY <1>7, <1>10
<1>12. ASSUME NEW t \in 1 .. pairs
       PROVE  /\ token'[t].parent = token[t].parent /\ token'[t].page = token[t].page
              /\ token'[t].google = token[t].google
              /\ (token'[t].revoked <=> token[t].revoked \/ t = parent)
              /\ token'[t].racers = IF t = parent /\ ~token[t].revoked
                                    THEN Holding(t) \ {p} ELSE token[t].racers
  <2>1. CASE t = parent
    <3>1. token'[t] = spent(t) /\ token[t] \in Row
      BY <1>2, <1>4, <1>7, <2>1
    <3>2. token[t].revoked \in BOOLEAN /\ spent(t).revoked \in BOOLEAN
      BY <1>4, <1>9, <3>1 DEF Row
    <3> QED
      BY <1>4, <1>9, <2>1, <3>1, <3>2
  <2>2. CASE t # parent
    <3>1. token'[t] = token[t] /\ token[t] \in Row
      BY <1>2, <1>4, <1>7, <2>2
    <3> QED
      BY <2>2, <3>1 DEF Row
  <2> QED
    BY <2>1, <2>2
<1>13. ReqType' /\ Becomes(p, req[p].op, "issued", pairs', req[p].confirms)
  <2>1. req' = [req EXCEPT ![p].at = "issued", ![p].n = pairs + 1]
    BY DEF AddPair
  <2>2. "issued" \in Places /\ pairs + 1 \in Nat
    BY <1>3 DEF Places
  <2> QED
    BY <1>1, <2>1, <2>2 DEF ReqType, CallSet, Becomes
<1> QED
  BY <1>1, <1>3, <1>7, <1>8, <1>11, <1>12, <1>13

\* The calls.
LEMMA ReqTypeStep == IInv /\ [Next]_vars => ReqType'
<1> SUFFICES ASSUME IInv, [Next]_vars PROVE ReqType'
  OBVIOUS
<1> USE DEF IInv
<1>1. CASE CodeExpires
  BY <1>1 DEF CodeExpires, ReqType
<1>2. ASSUME NEW p \in Pages, Open(p) PROVE ReqType'
  BY <1>2 DEF Open, rows, ReqType
<1>3. ASSUME NEW p \in Pages, Register(p) PROVE ReqType'
  BY <1>3, StartMoves DEF Register, rows, browser, Idle, Ops, Places
<1>4. ASSUME NEW p \in Pages, VerifyEmail(p) PROVE ReqType'
  BY <1>4, StartMoves DEF VerifyEmail, rows, browser, Idle, Ops, Places
<1>5. ASSUME NEW p \in Pages, Login(p) PROVE ReqType'
  BY <1>5, StartMoves DEF Login, rows, browser, Idle, Ops, Places
<1>6. ASSUME NEW p \in Pages, Google(p) PROVE ReqType'
  BY <1>6, StartMoves DEF Google, rows, browser, Idle, Ops, Places
<1>7. ASSUME NEW p \in Pages, Enable(p) PROVE ReqType'
  BY <1>7, StartMoves DEF Enable, rows, browser, Idle, Ops, Places
<1>8. ASSUME NEW p \in Pages, VerifyTotp(p) PROVE ReqType'
  BY <1>8, OtherMoves
<1>9. ASSUME NEW p \in Pages, NEW n \in Enrolments, VerifyRecovery(p, n) PROVE ReqType'
  BY <1>9, OtherMoves
<1>10. ASSUME NEW p \in Pages, Refresh(p) PROVE ReqType'
  BY <1>10, OtherMoves
<1>11. ASSUME NEW p \in Pages, Logout(p) PROVE ReqType'
  BY <1>11, StartMoves DEF Logout, rows, browser, Idle, Ops, Places
<1>12. ASSUME NEW p \in Pages, RegisterInsert(p) PROVE ReqType'
  BY <1>12, GotoMoves, DoneMoves, FailMoves
  DEF RegisterInsert, At, browser, Idle, Ops, Places
<1>13. ASSUME NEW p \in Pages, RegisterMail(p) PROVE ReqType'
  BY <1>13, DoneMoves DEF RegisterMail, At, Idle, Ops, Places
<1>14. ASSUME NEW p \in Pages, CheckCode(p) PROVE ReqType'
  BY <1>14, GotoMoves, DoneMoves, FailMoves
  DEF CheckCode, At, rows, browser, Idle, Ops, Places
<1>15. ASSUME NEW p \in Pages, DeleteCode(p) PROVE ReqType'
  BY <1>15, GotoMoves DEF DeleteCode, At, browser, Ops, Places
<1>16. ASSUME NEW p \in Pages, ActivateUser(p) PROVE ReqType'
  BY <1>16, GotoMoves DEF ActivateUser, At, browser, Ops, Places
<1>17. ASSUME NEW p \in Pages, EnableCommit(p) PROVE ReqType'
  BY <1>17, DoneMoves DEF EnableCommit, At, browser, Idle, Ops, Places
<1>18. ASSUME NEW p \in Pages, SpendRecovery(p) PROVE ReqType'
  BY <1>18, GotoMoves DEF SpendRecovery, At, browser, Ops, Places
<1>19. ASSUME NEW p \in Pages, ActivateAfter2FA(p) PROVE ReqType'
  BY <1>19, OtherMoves
<1>20. ASSUME NEW p \in Pages, GoogleFindUser(p) PROVE ReqType'
  BY <1>20, GotoMoves DEF GoogleFindUser, At, rows, browser, Ops, Places
<1>21. ASSUME NEW p \in Pages, GoogleCreate(p) PROVE ReqType'
  BY <1>21, GotoMoves, DoneMoves, FailMoves DEF GoogleCreate, At, browser, Idle, Ops, Places
<1>22. ASSUME NEW p \in Pages, GoogleLink(p) PROVE ReqType'
  BY <1>22, GotoMoves DEF GoogleLink, At, browser, Ops, Places
<1>23. ASSUME NEW p \in Pages, RefreshSelect(p) PROVE ReqType'
  BY <1>23, GotoMoves DEF RefreshSelect, At, rows, browser, Ops, Places
<1>24. ASSUME NEW p \in Pages, RefreshCommit(p) PROVE ReqType'
  <2>1. CASE user.status = "active"
    <3>1. req[p].n \in 0 .. pairs /\ AddPair(p, req[p].n)
      BY <1>24, <2>1 DEF RefreshCommit, TokenInv, TokenCall, Refreshing, At, PairTypes
    <3> QED
      BY <3>1, AddPairFacts
  <2>2. CASE user.status # "active"
    BY <1>24, <2>2, FailMoves DEF RefreshCommit
  <2> QED
    BY <2>1, <2>2
<1>25. ASSUME NEW p \in Pages, BlocklistJti(p) PROVE ReqType'
  BY <1>25, GotoMoves DEF BlocklistJti, At, rows, browser, Ops, Places
<1>26. ASSUME NEW p \in Pages, Issue(p) PROVE ReqType'
  <2>1. 0 \in 0 .. pairs /\ AddPair(p, 0)
    BY <1>26 DEF Issue, PairTypes
  <2> QED
    BY <2>1, AddPairFacts
<1>27. ASSUME NEW p \in Pages, Keep(p) PROVE ReqType'
  BY <1>27, DoneMoves DEF Keep, rows, Idle, Ops, Places
<1>28. ASSUME NEW p \in Pages, GiveUp(p) PROVE ReqType'
  BY <1>28, DoneMoves DEF GiveUp, rows, Idle, Ops, Places
<1>29. ASSUME NEW p \in Pages, Unheard(p) PROVE ReqType'
  BY <1>29, DoneMoves DEF Unheard, rows, browser, Idle, Ops, Places
<1>30. ASSUME NEW p \in Pages, Breaks(p) PROVE ReqType'
  BY <1>30, GotoMoves, DoneMoves, FailMoves DEF Breaks, rows, browser, Idle, Ops, Places
<1>31. ASSUME NEW p \in Pages, NEW q \in Pages, Reload(p, q) PROVE ReqType'
  BY <1>31 DEF Reload, ReqType, CallSet, Idle, Ops, Places
<1>32. CASE UNCHANGED vars
  BY <1>32 DEF vars, ReqType
<1> QED
  BY <1>1, <1>2, <1>3, <1>4, <1>5, <1>6, <1>7, <1>8, <1>9, <1>10, <1>11, <1>12,
     <1>13, <1>14, <1>15, <1>16, <1>17, <1>18, <1>19, <1>20, <1>21, <1>22, <1>23,
     <1>24, <1>25, <1>26, <1>27, <1>28, <1>29, <1>30, <1>31, <1>32
  DEF Next, Call, Handle, Answer

\* The account, what Redis keeps of it, and the pages.
LEMMA RowTypesStep == IInv /\ [Next]_vars => RowTypes' /\ UsesType' /\ PageType'
<1> SUFFICES ASSUME IInv, [Next]_vars PROVE RowTypes' /\ UsesType' /\ PageType'
  OBVIOUS
<1> USE BoundsAssumption DEF IInv
<1>1. CASE CodeExpires
  BY <1>1 DEF CodeExpires, browser, RowTypes, UsesType, PageType
<1>2. ASSUME NEW p \in Pages, Open(p) PROVE RowTypes' /\ UsesType' /\ PageType'
  BY <1>2 DEF Open, rows, RowTypes, UsesType, PageType
<1>3. ASSUME NEW p \in Pages, Register(p) PROVE RowTypes' /\ UsesType' /\ PageType'
  BY <1>3 DEF Register, rows, browser, RowTypes, UsesType, PageType
<1>4. ASSUME NEW p \in Pages, VerifyEmail(p) PROVE RowTypes' /\ UsesType' /\ PageType'
  BY <1>4 DEF VerifyEmail, rows, browser, RowTypes, UsesType, PageType
<1>5. ASSUME NEW p \in Pages, Login(p) PROVE RowTypes' /\ UsesType' /\ PageType'
  BY <1>5 DEF Login, rows, browser, RowTypes, UsesType, PageType
<1>6. ASSUME NEW p \in Pages, Google(p) PROVE RowTypes' /\ UsesType' /\ PageType'
  BY <1>6 DEF Google, rows, browser, RowTypes, UsesType, PageType
<1>7. ASSUME NEW p \in Pages, Enable(p) PROVE RowTypes' /\ UsesType' /\ PageType'
  BY <1>7 DEF Enable, rows, browser, RowTypes, UsesType, PageType
<1>8. ASSUME NEW p \in Pages, VerifyTotp(p) PROVE RowTypes' /\ UsesType' /\ PageType'
  BY <1>8 DEF VerifyTotp, rows, browser, RowTypes, UsesType, PageType
<1>9. ASSUME NEW p \in Pages, NEW n \in Enrolments, VerifyRecovery(p, n) PROVE RowTypes' /\ UsesType' /\ PageType'
  BY <1>9 DEF VerifyRecovery, rows, browser, RowTypes, UsesType, PageType
<1>10. ASSUME NEW p \in Pages, Refresh(p) PROVE RowTypes' /\ UsesType' /\ PageType'
  BY <1>10 DEF Refresh, rows, browser, RowTypes, UsesType, PageType
<1>11. ASSUME NEW p \in Pages, Logout(p) PROVE RowTypes' /\ UsesType' /\ PageType'
  BY <1>11 DEF Logout, rows, browser, RowTypes, UsesType, PageType
<1>12. ASSUME NEW p \in Pages, RegisterInsert(p) PROVE RowTypes' /\ UsesType' /\ PageType'
  BY <1>12 DEF RegisterInsert, browser, RowTypes, UsesType, PageType
<1>13. ASSUME NEW p \in Pages, RegisterMail(p) PROVE RowTypes' /\ UsesType' /\ PageType'
  BY <1>13 DEF RegisterMail, RowTypes, UsesType, PageType
<1>14. ASSUME NEW p \in Pages, CheckCode(p) PROVE RowTypes' /\ UsesType' /\ PageType'
  BY <1>14 DEF CheckCode, rows, browser, RowTypes, UsesType, PageType
<1>15. ASSUME NEW p \in Pages, DeleteCode(p) PROVE RowTypes' /\ UsesType' /\ PageType'
  BY <1>15 DEF DeleteCode, browser, RowTypes, UsesType, PageType
<1>16. ASSUME NEW p \in Pages, ActivateUser(p) PROVE RowTypes' /\ UsesType' /\ PageType'
  BY <1>16 DEF ActivateUser, browser, RowTypes, UsesType, PageType
<1>17. ASSUME NEW p \in Pages, EnableCommit(p) PROVE RowTypes' /\ UsesType' /\ PageType'
  BY <1>17 DEF EnableCommit, browser, RowTypes, UsesType, PageType
<1>18. ASSUME NEW p \in Pages, SpendRecovery(p) PROVE RowTypes' /\ UsesType' /\ PageType'
  <2>1. req[p].n \in Enrolments /\ uses[req[p].n][p] + 1 \in Nat
    BY <1>18 DEF SpendRecovery, At, RecoveryInv, UsesType
  <2>2. uses' = [uses EXCEPT ![req[p].n] = [@ EXCEPT ![p] = uses[req[p].n][p] + 1]]
    BY <1>18 DEF SpendRecovery
  <2>3. UsesType'
    BY <2>1, <2>2 DEF UsesType
  <2> QED
    BY <1>18, <2>3 DEF SpendRecovery, RowTypes, PageType, browser
<1>19. ASSUME NEW p \in Pages, ActivateAfter2FA(p) PROVE RowTypes' /\ UsesType' /\ PageType'
  BY <1>19 DEF ActivateAfter2FA, browser, RowTypes, UsesType, PageType
<1>20. ASSUME NEW p \in Pages, GoogleFindUser(p) PROVE RowTypes' /\ UsesType' /\ PageType'
  BY <1>20 DEF GoogleFindUser, rows, browser, RowTypes, UsesType, PageType
<1>21. ASSUME NEW p \in Pages, GoogleCreate(p) PROVE RowTypes' /\ UsesType' /\ PageType'
  BY <1>21 DEF GoogleCreate, browser, RowTypes, UsesType, PageType
<1>22. ASSUME NEW p \in Pages, GoogleLink(p) PROVE RowTypes' /\ UsesType' /\ PageType'
  BY <1>22 DEF GoogleLink, browser, RowTypes, UsesType, PageType
<1>23. ASSUME NEW p \in Pages, RefreshSelect(p) PROVE RowTypes' /\ UsesType' /\ PageType'
  BY <1>23 DEF RefreshSelect, rows, browser, RowTypes, UsesType, PageType
<1>24. ASSUME NEW p \in Pages, RefreshCommit(p) PROVE RowTypes' /\ UsesType' /\ PageType'
  BY <1>24 DEF RefreshCommit, AddPair, browser, RowTypes, UsesType, PageType
<1>25. ASSUME NEW p \in Pages, BlocklistJti(p) PROVE RowTypes' /\ UsesType' /\ PageType'
  BY <1>25 DEF BlocklistJti, rows, browser, RowTypes, UsesType, PageType
<1>26. ASSUME NEW p \in Pages, Issue(p) PROVE RowTypes' /\ UsesType' /\ PageType'
  BY <1>26 DEF Issue, AddPair, browser, RowTypes, UsesType, PageType
<1>27. ASSUME NEW p \in Pages, Keep(p) PROVE RowTypes' /\ UsesType' /\ PageType'
  BY <1>27 DEF Keep, rows, RowTypes, UsesType, PageType
<1>28. ASSUME NEW p \in Pages, GiveUp(p) PROVE RowTypes' /\ UsesType' /\ PageType'
  BY <1>28 DEF GiveUp, rows, RowTypes, UsesType, PageType
<1>29. ASSUME NEW p \in Pages, Unheard(p) PROVE RowTypes' /\ UsesType' /\ PageType'
  BY <1>29 DEF Unheard, rows, browser, RowTypes, UsesType, PageType
<1>30. ASSUME NEW p \in Pages, Breaks(p) PROVE RowTypes' /\ UsesType' /\ PageType'
  BY <1>30 DEF Breaks, rows, browser, RowTypes, UsesType, PageType
<1>31. ASSUME NEW p \in Pages, NEW q \in Pages, Reload(p, q) PROVE RowTypes' /\ UsesType' /\ PageType'
  BY <1>31 DEF Reload, rows, RowTypes, UsesType, PageType
<1>32. CASE UNCHANGED vars
  BY <1>32 DEF vars, RowTypes, UsesType, PageType
<1> QED
  BY <1>1, <1>2, <1>3, <1>4, <1>5, <1>6, <1>7, <1>8, <1>9, <1>10, <1>11, <1>12,
     <1>13, <1>14, <1>15, <1>16, <1>17, <1>18, <1>19, <1>20, <1>21, <1>22, <1>23,
     <1>24, <1>25, <1>26, <1>27, <1>28, <1>29, <1>30, <1>31, <1>32
  DEF Next, Call, Handle, Answer

\* The pairs, and the copies the browser has.
LEMMA PairTypesStep == IInv /\ [Next]_vars => PairTypes'
<1> SUFFICES ASSUME IInv, [Next]_vars PROVE PairTypes'
  OBVIOUS
<1> USE BoundsAssumption DEF IInv
<1>1. CASE CodeExpires
  BY <1>1 DEF CodeExpires, browser, PairTypes
<1>2. ASSUME NEW p \in Pages, Open(p) PROVE PairTypes'
  BY <1>2 DEF Open, rows, PairTypes
<1>3. ASSUME NEW p \in Pages, Register(p) PROVE PairTypes'
  BY <1>3 DEF Register, rows, browser, PairTypes
<1>4. ASSUME NEW p \in Pages, VerifyEmail(p) PROVE PairTypes'
  BY <1>4 DEF VerifyEmail, rows, browser, PairTypes
<1>5. ASSUME NEW p \in Pages, Login(p) PROVE PairTypes'
  BY <1>5 DEF Login, rows, browser, PairTypes
<1>6. ASSUME NEW p \in Pages, Google(p) PROVE PairTypes'
  BY <1>6 DEF Google, rows, browser, PairTypes
<1>7. ASSUME NEW p \in Pages, Enable(p) PROVE PairTypes'
  BY <1>7 DEF Enable, rows, browser, PairTypes
<1>8. ASSUME NEW p \in Pages, VerifyTotp(p) PROVE PairTypes'
  BY <1>8 DEF VerifyTotp, rows, browser, PairTypes
<1>9. ASSUME NEW p \in Pages, NEW n \in Enrolments, VerifyRecovery(p, n) PROVE PairTypes'
  BY <1>9 DEF VerifyRecovery, rows, browser, PairTypes
<1>10. ASSUME NEW p \in Pages, Refresh(p) PROVE PairTypes'
  BY <1>10 DEF Refresh, rows, browser, PairTypes
<1>11. ASSUME NEW p \in Pages, Logout(p) PROVE PairTypes'
  BY <1>11 DEF Logout, rows, browser, PairTypes
<1>12. ASSUME NEW p \in Pages, RegisterInsert(p) PROVE PairTypes'
  BY <1>12 DEF RegisterInsert, browser, PairTypes
<1>13. ASSUME NEW p \in Pages, RegisterMail(p) PROVE PairTypes'
  BY <1>13 DEF RegisterMail, PairTypes
<1>14. ASSUME NEW p \in Pages, CheckCode(p) PROVE PairTypes'
  BY <1>14 DEF CheckCode, rows, browser, PairTypes
<1>15. ASSUME NEW p \in Pages, DeleteCode(p) PROVE PairTypes'
  BY <1>15 DEF DeleteCode, browser, PairTypes
<1>16. ASSUME NEW p \in Pages, ActivateUser(p) PROVE PairTypes'
  BY <1>16 DEF ActivateUser, browser, PairTypes
<1>17. ASSUME NEW p \in Pages, EnableCommit(p) PROVE PairTypes'
  BY <1>17 DEF EnableCommit, browser, PairTypes
<1>18. ASSUME NEW p \in Pages, SpendRecovery(p) PROVE PairTypes'
  BY <1>18 DEF SpendRecovery, browser, PairTypes
<1>19. ASSUME NEW p \in Pages, ActivateAfter2FA(p) PROVE PairTypes'
  BY <1>19 DEF ActivateAfter2FA, browser, PairTypes
<1>20. ASSUME NEW p \in Pages, GoogleFindUser(p) PROVE PairTypes'
  BY <1>20 DEF GoogleFindUser, rows, browser, PairTypes
<1>21. ASSUME NEW p \in Pages, GoogleCreate(p) PROVE PairTypes'
  BY <1>21 DEF GoogleCreate, browser, PairTypes
<1>22. ASSUME NEW p \in Pages, GoogleLink(p) PROVE PairTypes'
  BY <1>22 DEF GoogleLink, browser, PairTypes
<1>23. ASSUME NEW p \in Pages, RefreshSelect(p) PROVE PairTypes'
  BY <1>23 DEF RefreshSelect, rows, browser, PairTypes
<1>24. ASSUME NEW p \in Pages, RefreshCommit(p) PROVE PairTypes'
  <2>1. CASE user.status = "active"
    <3>1. req[p].n \in 0 .. pairs /\ AddPair(p, req[p].n)
      BY <1>24, <2>1 DEF RefreshCommit, TokenInv, TokenCall, Refreshing, At, PairTypes
    <3>2. pairs \in Nat /\ pairs' = pairs + 1 /\ pairs' \in 0 .. MaxTokens
          /\ token' \in [TokenIds -> Row]
      BY <3>1, AddPairFacts DEF PairTypes
    <3> QED
      BY <1>24, <3>2 DEF RefreshCommit, browser, PairTypes
  <2>2. CASE user.status # "active"
    BY <1>24, <2>2 DEF RefreshCommit, browser, PairTypes
  <2> QED
    BY <2>1, <2>2
<1>25. ASSUME NEW p \in Pages, BlocklistJti(p) PROVE PairTypes'
  BY <1>25 DEF BlocklistJti, rows, browser, PairTypes
<1>26. ASSUME NEW p \in Pages, Issue(p) PROVE PairTypes'
  <2>1. AddPair(p, 0) /\ 0 \in 0 .. pairs
    BY <1>26 DEF Issue, PairTypes
  <2>2. pairs \in Nat /\ pairs' = pairs + 1 /\ pairs' \in 0 .. MaxTokens
        /\ token' \in [TokenIds -> Row]
    BY <2>1, AddPairFacts DEF PairTypes
  <2> QED
    BY <1>26, <2>2 DEF Issue, browser, PairTypes
<1>27. ASSUME NEW p \in Pages, Keep(p) PROVE PairTypes'
  BY <1>27 DEF Keep, rows, PairTypes, TokenInv, TokenCall
<1>28. ASSUME NEW p \in Pages, GiveUp(p) PROVE PairTypes'
  BY <1>28 DEF GiveUp, rows, PairTypes
<1>29. ASSUME NEW p \in Pages, Unheard(p) PROVE PairTypes'
  BY <1>29 DEF Unheard, rows, browser, PairTypes
<1>30. ASSUME NEW p \in Pages, Breaks(p) PROVE PairTypes'
  BY <1>30 DEF Breaks, rows, browser, PairTypes
<1>31. ASSUME NEW p \in Pages, NEW q \in Pages, Reload(p, q) PROVE PairTypes'
  BY <1>31 DEF Reload, rows, PairTypes
<1>32. CASE UNCHANGED vars
  BY <1>32 DEF vars, PairTypes
<1> QED
  BY <1>1, <1>2, <1>3, <1>4, <1>5, <1>6, <1>7, <1>8, <1>9, <1>10, <1>11, <1>12,
     <1>13, <1>14, <1>15, <1>16, <1>17, <1>18, <1>19, <1>20, <1>21, <1>22, <1>23,
     <1>24, <1>25, <1>26, <1>27, <1>28, <1>29, <1>30, <1>31, <1>32
  DEF Next, Call, Handle, Answer

-----------------------------------------------------------------------------
\* A step that neither adds a pair nor reads one: what the tokens say about the calls,
\* and what localStorage waits for, is as before.
QuietCall(q) ==
  /\ page[q] = "closed" => page'[q] = "closed"
  /\ page'[q] = "unopened" => req'[q] = Idle
  /\ req'[q].op = "refresh" => req'[q].confirms = FALSE
  /\ \/ req'[q] = req[q]
     \/ (~Refreshing(q))' /\ req'[q].at # "issued"
  /\ req[q].op = "refresh" /\ req[q].at \in {"issued", "over"} =>
       \/ page'[q] = "closed" \/ stored' = 0
       \/ req'[q].op = "refresh" /\ req'[q].at \in {"issued", "over"} /\ req'[q].n = req[q].n
Quiet == UNCHANGED <<pairs, token>> /\ stored' \in {stored, 0} /\ \A q \in Pages : QuietCall(q)

\* A pair is added, for a fresh sign-in or from the token a refresh holds.
Adds(p) ==
  /\ UNCHANGED <<stored, page>> /\ page[p] # "unopened"
  /\ \/ req[p].at = "issue" /\ AddPair(p, 0)
     \/ At(p, "refresh", "commit") /\ AddPair(p, req[p].n)

\* What TokenInv says of pages and calls alone.
CallsSane ==
  \A q \in Pages :
    /\ req[q].op = "refresh" => req[q].confirms = FALSE
    /\ page[q] = "unopened" => req[q] = Idle
    /\ page[q] \in {"unopened", "open", "closed"}

\* A quiet step of one call.
LEMMA QuietMove ==
  ASSUME CallsSane, UNCHANGED <<pairs, token, page>>, stored' \in {stored, 0},
         NEW p \in Pages, page[p] # "unopened",
         \A q \in Pages \ {p} : req'[q] = req[q],
         req'[p].at # "issued",
         req'[p].op = "refresh" => req'[p].at = "over" /\ req'[p].confirms = FALSE,
         req[p].op = "refresh" /\ req[p].at \in {"issued", "over"} =>
           \/ page[p] = "closed" \/ stored' = 0
           \/ req'[p].op = "refresh" /\ req'[p].at \in {"issued", "over"}
              /\ req'[p].n = req[p].n
  PROVE  Quiet
<1>1. ASSUME NEW q \in Pages \ {p} PROVE QuietCall(q)
  BY <1>1 DEF QuietCall, CallsSane
<1>2. QuietCall(p)
  BY DEF QuietCall, Refreshing
<1> QED
  BY <1>1, <1>2 DEF Quiet

\* The page calls anything but a refresh.
LEMMA StartQuiet ==
  ASSUME ReqType, CallsSane, UNCHANGED <<pairs, token, page, stored>>,
         NEW p \in Pages, NEW op, NEW at, Start(p, op, at), op # "refresh", at # "issued"
  PROVE  Quiet
<1>1. Becomes(p, op, at, 0, FALSE) /\ page[p] = "open" /\ req[p] = Idle
  BY StartMoves
<1>2. /\ req'[p].op = op /\ req'[p].at = at
      /\ \A q \in Pages \ {p} : req'[q] = req[q]
  BY <1>1 DEF Becomes
<1>3. req[p].op = "idle" /\ page[p] # "unopened"
  BY <1>1, IdleFacts
<1> QED
  BY <1>2, <1>3, QuietMove

\* A handler that is not a refresh goes on, or a refresh is refused.
LEMMA GotoQuiet ==
  ASSUME ReqType, CallsSane, UNCHANGED <<pairs, token, page, stored>>,
         NEW p \in Pages, NEW at, Goto(p, at), page[p] # "unopened", at # "issued",
         req[p].op = "refresh" => at = "over"
  PROVE  Quiet
<1>1. Becomes(p, req[p].op, at, req[p].n, req[p].confirms)
  BY GotoMoves
<1>2. /\ req'[p].op = req[p].op /\ req'[p].at = at /\ req'[p].n = req[p].n
      /\ req'[p].confirms = req[p].confirms
      /\ \A q \in Pages \ {p} : req'[q] = req[q]
  BY <1>1 DEF Becomes
<1>3. req[p].op = "refresh" => req[p].confirms = FALSE
  BY DEF CallsSane
<1> QED
  BY <1>2, <1>3, QuietMove

\* A handler is done; if it was a refresh, the page is closed or drops its tokens.
LEMMA DoneQuiet ==
  ASSUME ReqType, CallsSane, UNCHANGED <<pairs, token, page>>, stored' \in {stored, 0},
         NEW p \in Pages, Done(p), page[p] # "unopened",
         req[p].op = "refresh" => page[p] = "closed" \/ stored' = 0
  PROVE  Quiet
<1>1. Becomes(p, "idle", "idle", 0, FALSE)
  BY DoneMoves
<1>2. /\ req'[p].op = "idle" /\ req'[p].at = "idle"
      /\ \A q \in Pages \ {p} : req'[q] = req[q]
  BY <1>1 DEF Becomes
<1> QED
  BY <1>2, QuietMove

\* A handler fails.
LEMMA FailQuiet ==
  ASSUME ReqType, CallsSane, UNCHANGED <<pairs, token, page, stored>>,
         NEW p \in Pages, Fail(p), page[p] # "unopened"
  PROVE  Quiet
<1>1. CASE req[p].op \in {"refresh", "logout"}
  BY <1>1, GotoQuiet DEF Fail
<1>2. CASE req[p].op \notin {"refresh", "logout"}
  BY <1>2, DoneQuiet DEF Fail
<1> QED
  BY <1>1, <1>2

\* Each step is quiet, or one of these.
LEMMA StepKinds ==
  IInv /\ [Next]_vars =>
    Quiet \/ \E r \in Pages : Refresh(r) \/ RefreshSelect(r) \/ Keep(r) \/ Adds(r)
<1> SUFFICES ASSUME IInv, [Next]_vars
             PROVE  Quiet \/ \E r \in Pages : Refresh(r) \/ RefreshSelect(r) \/ Keep(r) \/ Adds(r)
  OBVIOUS
<1>r. ReqType /\ PairTypes /\ PageType
  BY DEF IInv
<1> USE <1>r
<1>t. CallsSane
  BY DEF IInv, TokenInv, TokenCall, PageType, CallsSane
<1>o. \A q \in Pages : req[q].at # "idle" => page[q] # "unopened"
  BY <1>t, IdleFacts DEF CallsSane
<1>1. CASE CodeExpires
  BY <1>1, <1>t DEF CodeExpires, browser, Quiet, QuietCall, CallsSane
<1>2. ASSUME NEW p \in Pages, Open(p) PROVE Quiet
  <2>1. ASSUME NEW q \in Pages PROVE QuietCall(q)
    BY <1>2, <1>t DEF Open, rows, QuietCall, CallsSane, PageType
  <2> QED
    BY <1>2, <2>1 DEF Open, rows, Quiet
<1>3. ASSUME NEW p \in Pages, Register(p) PROVE Quiet
  <2>1. UNCHANGED <<pairs, token, page, stored>>
    BY <1>3 DEF Register, rows, browser
  <2> QED
    BY <1>3, <2>1, <1>t, StartQuiet DEF Register
<1>4. ASSUME NEW p \in Pages, VerifyEmail(p) PROVE Quiet
  <2>1. UNCHANGED <<pairs, token, page, stored>>
    BY <1>4 DEF VerifyEmail, rows, browser
  <2> QED
    BY <1>4, <2>1, <1>t, StartQuiet DEF VerifyEmail
<1>5. ASSUME NEW p \in Pages, Login(p) PROVE Quiet
  <2>1. UNCHANGED <<pairs, token, page, stored>>
    BY <1>5 DEF Login, rows, browser
  <2> QED
    BY <1>5, <2>1, <1>t, StartQuiet DEF Login
<1>6. ASSUME NEW p \in Pages, Google(p) PROVE Quiet
  <2>1. UNCHANGED <<pairs, token, page, stored>>
    BY <1>6 DEF Google, rows, browser
  <2> QED
    BY <1>6, <2>1, <1>t, StartQuiet DEF Google
<1>7. ASSUME NEW p \in Pages, Enable(p) PROVE Quiet
  <2>1. UNCHANGED <<pairs, token, page, stored>>
    BY <1>7 DEF Enable, rows, browser
  <2> QED
    BY <1>7, <2>1, <1>t, StartQuiet DEF Enable
<1>8. ASSUME NEW p \in Pages, VerifyTotp(p) PROVE Quiet
  <2>1. UNCHANGED <<pairs, token, page, stored>> /\ page[p] = "open"
        /\ (req[p] = Idle \/ req[p].at = "step_up")
    BY <1>8 DEF VerifyTotp, MayEnterCode, At, rows, browser
  <2>2. /\ req'[p].op = "verify_2fa" /\ req'[p].at \in {"activate", "issue"}
        /\ \A q \in Pages \ {p} : req'[q] = req[q]
    BY <1>8, OtherMoves DEF Becomes
  <2> QED
    BY <2>1, <2>2, <1>t, IdleFacts, QuietMove
<1>9. ASSUME NEW p \in Pages, NEW n \in Enrolments, VerifyRecovery(p, n) PROVE Quiet
  <2>1. UNCHANGED <<pairs, token, page, stored>> /\ page[p] = "open"
        /\ (req[p] = Idle \/ req[p].at = "step_up")
    BY <1>9 DEF VerifyRecovery, MayEnterCode, At, rows, browser
  <2>2. /\ req'[p].op = "verify_2fa" /\ req'[p].at = "spend"
        /\ \A q \in Pages \ {p} : req'[q] = req[q]
    BY <1>9, OtherMoves DEF Becomes
  <2> QED
    BY <2>1, <2>2, <1>t, IdleFacts, QuietMove
<1>10. ASSUME NEW p \in Pages, Refresh(p)
       PROVE  Quiet \/ \E r \in Pages : Refresh(r) \/ RefreshSelect(r) \/ Keep(r) \/ Adds(r)
  BY <1>10
<1>11. ASSUME NEW p \in Pages, Logout(p) PROVE Quiet
  <2>1. UNCHANGED <<pairs, token, page, stored>>
    BY <1>11 DEF Logout, rows, browser
  <2> QED
    BY <1>11, <2>1, <1>t, StartQuiet DEF Logout
<1>12. ASSUME NEW p \in Pages, RegisterInsert(p) PROVE Quiet
  <2>1. UNCHANGED <<pairs, token, page, stored>>
    BY <1>12 DEF RegisterInsert, browser
  <2> QED
    BY <1>12, <2>1, <1>t, <1>o, GotoQuiet, FailQuiet DEF RegisterInsert, At
<1>13. ASSUME NEW p \in Pages, RegisterMail(p) PROVE Quiet
  <2>1. UNCHANGED <<pairs, token, page, stored>>
    BY <1>13 DEF RegisterMail, At
  <2> QED
    BY <1>13, <2>1, <1>t, <1>o, DoneQuiet DEF RegisterMail, At
<1>14. ASSUME NEW p \in Pages, CheckCode(p) PROVE Quiet
  <2>1. UNCHANGED <<pairs, token, page, stored>>
    BY <1>14 DEF CheckCode, rows, browser
  <2> QED
    BY <1>14, <2>1, <1>t, <1>o, GotoQuiet, FailQuiet DEF CheckCode, At
<1>15. ASSUME NEW p \in Pages, DeleteCode(p) PROVE Quiet
  <2>1. UNCHANGED <<pairs, token, page, stored>>
    BY <1>15 DEF DeleteCode, browser
  <2> QED
    BY <1>15, <2>1, <1>t, <1>o, GotoQuiet DEF DeleteCode, At
<1>16. ASSUME NEW p \in Pages, ActivateUser(p) PROVE Quiet
  <2>1. UNCHANGED <<pairs, token, page, stored>>
    BY <1>16 DEF ActivateUser, browser
  <2> QED
    BY <1>16, <2>1, <1>t, <1>o, GotoQuiet DEF ActivateUser, At
<1>17. ASSUME NEW p \in Pages, EnableCommit(p) PROVE Quiet
  <2>1. UNCHANGED <<pairs, token, page, stored>>
    BY <1>17 DEF EnableCommit, browser
  <2> QED
    BY <1>17, <2>1, <1>t, <1>o, DoneQuiet DEF EnableCommit, At
<1>18. ASSUME NEW p \in Pages, SpendRecovery(p) PROVE Quiet
  <2>1. UNCHANGED <<pairs, token, page, stored>>
    BY <1>18 DEF SpendRecovery, browser
  <2> QED
    BY <1>18, <2>1, <1>t, <1>o, GotoQuiet DEF SpendRecovery, At
<1>19. ASSUME NEW p \in Pages, ActivateAfter2FA(p) PROVE Quiet
  <2>1. UNCHANGED <<pairs, token, page, stored>> /\ req[p].op = "verify_2fa"
        /\ page[p] # "unopened"
    BY <1>19, <1>o DEF ActivateAfter2FA, At, browser
  <2>2. /\ req'[p].op = req[p].op /\ req'[p].at = "issue"
        /\ \A q \in Pages \ {p} : req'[q] = req[q]
    BY <1>19, OtherMoves DEF Becomes
  <2> QED
    BY <2>1, <2>2, <1>t, QuietMove
<1>20. ASSUME NEW p \in Pages, GoogleFindUser(p) PROVE Quiet
  <2>1. UNCHANGED <<pairs, token, page, stored>>
    BY <1>20 DEF GoogleFindUser, rows, browser
  <2> QED
    BY <1>20, <2>1, <1>t, <1>o, GotoQuiet DEF GoogleFindUser, At
<1>21. ASSUME NEW p \in Pages, GoogleCreate(p) PROVE Quiet
  <2>1. UNCHANGED <<pairs, token, page, stored>>
    BY <1>21 DEF GoogleCreate, browser
  <2> QED
    BY <1>21, <2>1, <1>t, <1>o, GotoQuiet, FailQuiet DEF GoogleCreate, At
<1>22. ASSUME NEW p \in Pages, GoogleLink(p) PROVE Quiet
  <2>1. UNCHANGED <<pairs, token, page, stored>>
    BY <1>22 DEF GoogleLink, browser
  <2> QED
    BY <1>22, <2>1, <1>t, <1>o, GotoQuiet DEF GoogleLink, At
<1>23. ASSUME NEW p \in Pages, RefreshSelect(p)
       PROVE  Quiet \/ \E r \in Pages : Refresh(r) \/ RefreshSelect(r) \/ Keep(r) \/ Adds(r)
  BY <1>23
<1>24. ASSUME NEW p \in Pages, RefreshCommit(p)
       PROVE  Quiet \/ \E r \in Pages : Refresh(r) \/ RefreshSelect(r) \/ Keep(r) \/ Adds(r)
  <2>1. CASE user.status = "active"
    BY <1>24, <1>o, <2>1 DEF RefreshCommit, Adds, At, browser
  <2>2. CASE user.status # "active"
    <3>1. UNCHANGED <<pairs, token, page, stored>>
      BY <1>24, <2>2 DEF RefreshCommit, browser
    <3> QED
      BY <1>24, <2>2, <3>1, <1>o, <1>t, FailQuiet DEF RefreshCommit, At
  <2> QED
    BY <2>1, <2>2
<1>25. ASSUME NEW p \in Pages, BlocklistJti(p) PROVE Quiet
  <2>1. UNCHANGED <<pairs, token, page, stored>>
    BY <1>25 DEF BlocklistJti, rows, browser
  <2> QED
    BY <1>25, <2>1, <1>t, <1>o, GotoQuiet DEF BlocklistJti, At
<1>26. ASSUME NEW p \in Pages, Issue(p)
       PROVE  Quiet \/ \E r \in Pages : Refresh(r) \/ RefreshSelect(r) \/ Keep(r) \/ Adds(r)
  BY <1>26, <1>o DEF Issue, Adds, browser
<1>27. ASSUME NEW p \in Pages, Keep(p)
       PROVE  Quiet \/ \E r \in Pages : Refresh(r) \/ RefreshSelect(r) \/ Keep(r) \/ Adds(r)
  BY <1>27
<1>28. ASSUME NEW p \in Pages, GiveUp(p) PROVE Quiet
  <2>1. /\ UNCHANGED <<pairs, token, page>> /\ stored' \in {stored, 0}
        /\ page[p] = "open" => stored' = 0
    BY <1>28 DEF GiveUp, rows
  <2>2. page[p] \in {"open", "closed"}
    BY <1>28, <1>o, <1>t DEF GiveUp, CallsSane
  <2> QED
    BY <1>28, <2>1, <2>2, <1>t, DoneQuiet DEF GiveUp
<1>29. ASSUME NEW p \in Pages, Unheard(p) PROVE Quiet
  <2>1. UNCHANGED <<pairs, token, page, stored>>
    BY <1>29 DEF Unheard, rows, browser
  <2> QED
    BY <1>29, <2>1, <1>t, <1>o, DoneQuiet DEF Unheard
<1>30. ASSUME NEW p \in Pages, Breaks(p) PROVE Quiet
  <2>1. UNCHANGED <<pairs, token, page, stored>>
    BY <1>30 DEF Breaks, rows, browser
  <2> QED
    BY <1>30, <2>1, <1>t, <1>o, FailQuiet DEF Breaks
<1>31. ASSUME NEW p \in Pages, NEW q \in Pages, Reload(p, q) PROVE Quiet
  <2>1. ASSUME NEW s \in Pages PROVE QuietCall(s)
    <3>1. CASE s = p /\ req'[s] = Idle
      BY <1>31, <3>1, IdleFacts DEF Reload, QuietCall, Refreshing, PageType
    <3>2. CASE req'[s] = req[s]
      <4>1. /\ page[s] = "closed" => page'[s] = "closed"
            /\ page'[s] = "unopened" => page[s] = "unopened"
            /\ stored' = stored
        BY <1>31 DEF Reload, PageType
      <4> QED
        BY <4>1, <1>t, <3>2 DEF QuietCall, CallsSane
    <3> QED
      BY <1>31, <3>1, <3>2 DEF Reload, ReqType
  <2> QED
    BY <1>31, <2>1 DEF Reload, rows, Quiet
<1>32. CASE UNCHANGED vars
  BY <1>32, <1>t DEF vars, Quiet, QuietCall, CallsSane
<1> QED
  BY <1>1, <1>2, <1>3, <1>4, <1>5, <1>6, <1>7, <1>8, <1>9, <1>10, <1>11, <1>12,
     <1>13, <1>14, <1>15, <1>16, <1>17, <1>18, <1>19, <1>20, <1>21, <1>22, <1>23,
     <1>24, <1>25, <1>26, <1>27, <1>28, <1>29, <1>30, <1>31, <1>32
  DEF Next, Call, Handle, Answer

\* Rows that exist have a number and fields.
LEMMA PairFacts ==
  ASSUME PairTypes
  PROVE  pairs \in Nat /\ \A t \in 1 .. pairs : t \in TokenIds /\ token[t] \in Row
  BY BoundsAssumption DEF PairTypes, TokenIds

\* What a step that adds a pair does.
Added(p, parent) ==
  /\ pairs' = pairs + 1
  /\ token'[pairs + 1].parent = parent /\ token'[pairs + 1].page = {p}
  /\ ~token'[pairs + 1].revoked
  /\ \A t \in 1 .. pairs :
       /\ token'[t].parent = token[t].parent /\ token'[t].page = token[t].page
       /\ (token'[t].revoked <=> token[t].revoked \/ t = parent)
       /\ token'[t].racers = IF t = parent /\ ~token[t].revoked
                             THEN Holding(t) \ {p} ELSE token[t].racers
  /\ Becomes(p, req[p].op, "issued", pairs + 1, req[p].confirms)

\* It is a sign-in, or the commit of a refresh.
LEMMA AddsFacts ==
  ASSUME IInv, NEW p \in Pages, Adds(p)
  PROVE  \E parent \in 0 .. pairs :
           /\ \/ parent = 0
              \/ parent \in 1 .. pairs /\ At(p, "refresh", "commit") /\ parent = req[p].n
           /\ Added(p, parent)
<1>1. PairTypes /\ ReqType /\ TokenInv /\ 0 \in 0 .. pairs
  BY DEF IInv, PairTypes
<1>2. ASSUME NEW parent \in 0 .. pairs, AddPair(p, parent) PROVE Added(p, parent)
  <2>1. pairs' = pairs + 1
    BY <1>1, <1>2, AddPairFacts
  <2> QED
    BY <1>1, <1>2, <2>1, AddPairFacts DEF Added
<1>3. CASE AddPair(p, 0)
  BY <1>1, <1>2, <1>3
<1>4. CASE At(p, "refresh", "commit") /\ AddPair(p, req[p].n)
  <2>1. req[p].n \in 1 .. pairs
    BY <1>1, <1>4 DEF TokenInv, TokenCall, Refreshing, At
  <2>2. req[p].n \in 0 .. pairs
    BY <2>1
  <2>3. Added(p, req[p].n)
    BY <1>2, <1>4, <2>2
  <2> QED
    BY <1>4, <2>1, <2>2, <2>3
<1> QED
  BY <1>3, <1>4 DEF Adds

\* What the other steps that matter to the tokens do to the calls.
LEMMA SelectFacts ==
  ASSUME IInv, NEW p \in Pages, RefreshSelect(p)
  PROVE  /\ UNCHANGED <<pairs, token, page, stored>>
         /\ Refreshing(p) /\ req[p].op = "refresh" /\ req[p].at = "select"
         /\ req'[p].op = "refresh" /\ req'[p].n = req[p].n
         /\ req'[p].confirms = req[p].confirms
         /\ req'[p].at = IF token[req[p].n].revoked THEN "over" ELSE "commit"
         /\ \A q \in Pages \ {p} : req'[q] = req[q]
<1>1. UNCHANGED <<pairs, token, page, stored>> /\ At(p, "refresh", "select")
  BY DEF RefreshSelect, rows, browser
<1>2. Becomes(p, req[p].op, IF token[req[p].n].revoked THEN "over" ELSE "commit",
              req[p].n, req[p].confirms)
  BY GotoMoves DEF IInv, RefreshSelect
<1> QED
  BY <1>1, <1>2 DEF At, Becomes, Refreshing

\* A refresh begins with the token in localStorage.
LEMMA RefreshFacts ==
  ASSUME IInv, NEW p \in Pages, Refresh(p)
  PROVE  /\ UNCHANGED <<pairs, token, page, stored>> /\ page[p] = "open"
         /\ stored \in 1 .. pairs /\ req[p] = Idle
         /\ req'[p].op = "refresh" /\ req'[p].at = "select" /\ req'[p].n = stored
         /\ req'[p].confirms = FALSE
         /\ \A q \in Pages \ {p} : req'[q] = req[q]
<1>1. /\ UNCHANGED <<pairs, token, page, stored>> /\ page[p] = "open"
      /\ stored # 0 /\ req[p] = Idle
  BY DEF Refresh, rows, browser
<1>2. stored \in 1 .. pairs
  BY <1>1 DEF IInv, PairTypes
<1>3. Becomes(p, "refresh", "select", stored, FALSE)
  BY OtherMoves DEF IInv
<1> QED
  BY <1>1, <1>2, <1>3 DEF Becomes

\* A page keeps a pair, or has no use for it.
LEMMA KeepFacts ==
  ASSUME IInv, NEW p \in Pages, Keep(p)
  PROVE  /\ UNCHANGED <<pairs, token, page>>
         /\ req[p].at = "issued" /\ page[p] = "open"
         /\ \/ stored' = req[p].n
            \/ stored' = stored /\ req[p].op # "refresh"
         /\ req'[p] = Idle
         /\ \A q \in Pages \ {p} : req'[q] = req[q]
<1>1. /\ UNCHANGED <<pairs, token, page>> /\ req[p].at = "issued" /\ page[p] = "open"
      /\ stored' = req[p].n \/ (stored' = stored /\ req[p].confirms)
  BY DEF Keep, rows
<1>2. req[p].op = "refresh" => ~req[p].confirms
  BY DEF IInv, TokenInv, TokenCall
<1>3. Becomes(p, "idle", "idle", 0, FALSE) /\ req'[p] = Idle
  BY DoneMoves DEF IInv, Keep
<1> QED
  BY <1>1, <1>2, <1>3 DEF Becomes

\* The trees grow by a leaf, and the parent of a leaf is revoked.
LEMMA TreeStep == IInv /\ [Next]_vars => TreeInv'
<1> SUFFICES ASSUME IInv, [Next]_vars PROVE TreeInv'
  OBVIOUS
<1>t. TreeInv /\ PairTypes
  BY DEF IInv
<1>1. CASE UNCHANGED <<pairs, token>>
  BY <1>t, <1>1 DEF TreeInv
<1>2. ASSUME NEW p \in Pages, Adds(p) PROVE TreeInv'
  <2>1. PICK parent \in 0 .. pairs :
          (parent = 0 \/ parent \in 1 .. pairs) /\ Added(p, parent)
    BY <1>2, AddsFacts
  <2>2. pairs \in Nat /\ pairs' = pairs + 1
    BY <1>t, <2>1, PairFacts DEF Added
  <2>a. \A t \in 1 .. pairs :
          /\ token'[t].parent = token[t].parent /\ token'[t].page = token[t].page
          /\ (token'[t].revoked <=> token[t].revoked \/ t = parent)
    BY <2>1 DEF Added
  <2>b. token'[pairs + 1].parent = parent /\ token'[pairs + 1].page = {p}
    BY <2>1 DEF Added
  <2>3. ASSUME NEW t \in 1 .. pairs
        PROVE  /\ token'[t].parent \in 0 .. (t - 1)
               /\ token'[t].parent # 0 => token'[token'[t].parent].revoked
               /\ \E q \in Pages : token'[t].page = {q}
    <3>1. token[t].parent \in 0 .. (t - 1) /\ token'[t].parent = token[t].parent
      BY <1>t, <2>a DEF TreeInv
    <3>2. ASSUME token[t].parent # 0 PROVE token'[token[t].parent].revoked
      <4>1. token[t].parent \in 1 .. pairs /\ token[token[t].parent].revoked
        BY <1>t, <2>2, <3>1, <3>2 DEF TreeInv
      <4> QED
        BY <2>a, <4>1
    <3> QED
      BY <1>t, <2>a, <3>1, <3>2 DEF TreeInv
  <2>4. parent # 0 => token'[parent].revoked
    BY <2>1, <2>a
  <2>5. ASSUME NEW t \in 1 .. pairs'
        PROVE  /\ token'[t].parent \in 0 .. (t - 1)
               /\ token'[t].parent # 0 => token'[token'[t].parent].revoked
               /\ \E q \in Pages : token'[t].page = {q}
    <3>1. CASE t \in 1 .. pairs
      BY <2>3, <3>1
    <3>2. CASE t = pairs + 1
      <4>1. token'[t].parent = parent /\ token'[t].page = {p}
        BY <2>b, <3>2
      <4>2. parent \in 0 .. (t - 1)
        BY <2>2, <3>2
      <4> QED
        BY <2>4, <4>1, <4>2
    <3> QED
      BY <2>2, <3>1, <3>2
  <2> QED
    BY <2>5 DEF TreeInv
<1>3. ASSUME NEW p \in Pages, Refresh(p) \/ RefreshSelect(p) \/ Keep(p)
      PROVE  UNCHANGED <<pairs, token>>
  BY <1>3, RefreshFacts, SelectFacts, KeepFacts
<1> QED
  BY <1>1, <1>2, <1>3, StepKinds DEF Quiet

\* A second child appears only by a call that had read the row in time.
LEMMA RotationStep == IInv /\ [Next]_vars => RotationInv'
<1> SUFFICES ASSUME IInv, [Next]_vars PROVE RotationInv'
  OBVIOUS
<1>t. TreeInv /\ PairTypes /\ RotationInv /\ TokenInv
  BY DEF IInv
<1>1. CASE UNCHANGED <<pairs, token>>
  BY <1>t, <1>1 DEF RotationInv
<1>2. ASSUME NEW p \in Pages, Adds(p) PROVE RotationInv'
  <2>1. PICK parent \in 0 .. pairs :
          /\ parent = 0 \/ (At(p, "refresh", "commit") /\ parent = req[p].n)
          /\ Added(p, parent)
    BY <1>2, AddsFacts
  <2>2. pairs \in Nat /\ pairs' = pairs + 1
    BY <1>t, <2>1, PairFacts DEF Added
  <2>a. \A t \in 1 .. pairs :
          /\ token'[t].parent = token[t].parent /\ token'[t].page = token[t].page
          /\ token'[t].racers = IF t = parent /\ ~token[t].revoked
                                THEN Holding(t) \ {p} ELSE token[t].racers
    BY <2>1 DEF Added
  <2>b. token'[pairs + 1].parent = parent /\ token'[pairs + 1].page = {p}
    BY <2>1 DEF Added
  <2>3. ASSUME NEW t \in 1 .. pairs, token[t].parent # 0
        PROVE  /\ token[t].parent \in 1 .. pairs /\ token[token[t].parent].revoked
               /\ token'[token[t].parent].racers = token[token[t].parent].racers
    <3>1. token[t].parent \in 1 .. pairs /\ token[token[t].parent].revoked
      BY <1>t, <2>2, <2>3 DEF TreeInv
    <3> QED
      BY <2>a, <3>1
  <2>4. ASSUME NEW t \in 1 .. pairs, NEW u \in 1 .. pairs, t < u,
               token'[t].parent = token'[u].parent, token'[t].parent # 0
        PROVE  token'[u].page \subseteq token'[token'[t].parent].racers
    <3>1. token[t].parent = token[u].parent /\ token[t].parent # 0
      BY <2>a, <2>4
    <3>2. token[u].page \subseteq token[token[t].parent].racers
      BY <1>t, <2>4, <3>1 DEF RotationInv
    <3> QED
      BY <2>a, <2>3, <3>1, <3>2
  <2>5. ASSUME NEW t \in 1 .. pairs, token'[t].parent = token'[pairs + 1].parent,
               token'[t].parent # 0
        PROVE  token'[pairs + 1].page \subseteq token'[token'[t].parent].racers
    <3>1. token[t].parent = parent /\ parent # 0 /\ token'[pairs + 1].page = {p}
      BY <2>a, <2>b, <2>5
    <3>2. token[parent].revoked /\ token'[parent].racers = token[parent].racers
      BY <2>3, <3>1
    <3>3. p \in token[parent].racers
      BY <1>t, <2>1, <3>1, <3>2 DEF TokenInv, TokenCall
    <3> QED
      BY <2>a, <2>5, <3>1, <3>2, <3>3
  <2>6. \A t \in 1 .. pairs' : t \in 1 .. pairs \/ t = pairs + 1
    BY <2>2
  <2>7. \A t, u \in 1 .. pairs' : t < u => t \in 1 .. pairs
    BY <2>2
  <2> QED
    BY <2>4, <2>5, <2>6, <2>7 DEF RotationInv
<1>3. ASSUME NEW p \in Pages, Refresh(p) \/ RefreshSelect(p) \/ Keep(p)
      PROVE  UNCHANGED <<pairs, token>>
  BY <1>3, RefreshFacts, SelectFacts, KeepFacts
<1> QED
  BY <1>1, <1>2, <1>3, StepKinds DEF Quiet

\* A call's number stays that of a row; a pair on its way is its page's own.
LEMMA TokenStep == IInv /\ [Next]_vars => TokenInv'
<1> SUFFICES ASSUME IInv, [Next]_vars PROVE TokenInv'
  OBVIOUS
<1>t. TokenInv /\ PairTypes
  BY DEF IInv
<1>p. pairs \in Nat
  BY <1>t, PairFacts
<1>1. CASE Quiet
  <2>1. ASSUME NEW q \in Pages PROVE Refreshing(q)' => req'[q] = req[q] /\ Refreshing(q)
    BY <1>1 DEF Quiet, QuietCall, Refreshing
  <2>2. ASSUME NEW q \in Pages, req'[q].at = "issued" PROVE req'[q] = req[q]
    BY <1>1, <2>2 DEF Quiet, QuietCall
  <2>3. UNCHANGED <<pairs, token>> /\ stored' \in {stored, 0}
    BY <1>1 DEF Quiet
  <2>4. ASSUME NEW q \in Pages, Refreshing(q)'
        PROVE  /\ req'[q].n \in 1 .. pairs'
               /\ At(q, "refresh", "commit")' /\ token'[req'[q].n].revoked
                    => q \in token'[req'[q].n].racers
    BY <1>t, <2>1, <2>3, <2>4 DEF TokenInv, TokenCall, At
  <2>5. ASSUME NEW q \in Pages, req'[q].at = "issued"
        PROVE  /\ req'[q].n \in 1 .. pairs' /\ req'[q].n # stored'
               /\ token'[req'[q].n].page = {q} /\ ~token'[req'[q].n].revoked
               /\ \A r \in Pages : Refreshing(r)' => req'[r].n # req'[q].n
    <3>1. req'[q] = req[q] /\ req[q].at = "issued"
      BY <2>2, <2>5
    <3>2. req[q].n \in 1 .. pairs /\ req[q].n # 0
      BY <1>t, <1>p, <3>1 DEF TokenInv, TokenCall
    <3>3. \A r \in Pages : Refreshing(r)' => req'[r].n # req'[q].n
      BY <1>t, <2>1, <3>1 DEF TokenInv, TokenCall
    <3> QED
      BY <1>t, <2>3, <3>1, <3>2, <3>3 DEF TokenInv, TokenCall
  <2>6. ASSUME NEW q \in Pages
        PROVE  /\ req'[q].op = "refresh" => ~req'[q].confirms
               /\ page'[q] = "unopened" => req'[q] = Idle
    BY <1>1 DEF Quiet, QuietCall
  <2>7. \A q \in Pages : At(q, "refresh", "commit")' => Refreshing(q)'
    BY DEF At, Refreshing
  <2> QED
    BY <2>4, <2>5, <2>6, <2>7 DEF TokenInv, TokenCall
<1>2. ASSUME NEW p \in Pages, Refresh(p) PROVE TokenInv'
  <2>1. /\ UNCHANGED <<pairs, token, page, stored>> /\ page[p] = "open"
        /\ stored \in 1 .. pairs
        /\ req'[p].op = "refresh" /\ req'[p].at = "select" /\ req'[p].n = stored
        /\ req'[p].confirms = FALSE
        /\ \A q \in Pages \ {p} : req'[q] = req[q]
    BY <1>2, RefreshFacts
  <2>2. TokenCall(p)'
    BY <2>1 DEF TokenCall, Refreshing, At
  <2>3. ASSUME NEW q \in Pages \ {p} PROVE TokenCall(q)'
    <3>1. req'[q] = req[q] /\ TokenCall(q)
      BY <1>t, <2>1 DEF TokenInv
    <3>2. \A r \in Pages : Refreshing(r)' => \/ Refreshing(r) /\ req'[r].n = req[r].n
                                             \/ req'[r].n = stored
      BY <2>1 DEF Refreshing
    <3> QED
      BY <2>1, <3>1, <3>2 DEF TokenCall, Refreshing, At
  <2> QED
    BY <2>2, <2>3 DEF TokenInv
<1>3. ASSUME NEW p \in Pages, RefreshSelect(p) PROVE TokenInv'
  <2>1. /\ UNCHANGED <<pairs, token, page, stored>>
        /\ Refreshing(p) /\ req[p].op = "refresh" /\ req[p].at = "select"
        /\ req'[p].op = "refresh" /\ req'[p].n = req[p].n
        /\ req'[p].confirms = req[p].confirms
        /\ req'[p].at = IF token[req[p].n].revoked THEN "over" ELSE "commit"
        /\ \A q \in Pages \ {p} : req'[q] = req[q]
    BY <1>3, SelectFacts
  <2>2. TokenCall(p)'
    <3>1. TokenCall(p) /\ page[p] # "unopened"
      BY <1>t, <2>1, IdleFacts DEF TokenInv, TokenCall
    <3> QED
      BY <2>1, <3>1 DEF TokenCall, Refreshing, At
  <2>3. ASSUME NEW q \in Pages \ {p} PROVE TokenCall(q)'
    <3>1. req'[q] = req[q] /\ TokenCall(q)
      BY <1>t, <2>1 DEF TokenInv
    <3>2. \A r \in Pages : Refreshing(r)' => Refreshing(r) /\ req'[r].n = req[r].n
      BY <2>1 DEF Refreshing
    <3> QED
      BY <2>1, <3>1, <3>2 DEF TokenCall, Refreshing, At
  <2> QED
    BY <2>2, <2>3 DEF TokenInv
<1>4. ASSUME NEW p \in Pages, Keep(p) PROVE TokenInv'
  <2>1. /\ UNCHANGED <<pairs, token, page>>
        /\ req[p].at = "issued" /\ page[p] = "open"
        /\ stored' = req[p].n \/ stored' = stored
        /\ req'[p] = Idle
        /\ \A q \in Pages \ {p} : req'[q] = req[q]
    BY <1>4, KeepFacts
  <2>2. TokenCall(p)'
    BY <2>1, IdleFacts DEF TokenCall, Refreshing, At
  <2>3. ASSUME NEW q \in Pages \ {p} PROVE TokenCall(q)'
    <3>1. req'[q] = req[q] /\ TokenCall(q) /\ TokenCall(p)
      BY <1>t, <2>1 DEF TokenInv
    <3>2. \A r \in Pages : Refreshing(r)' => Refreshing(r) /\ req'[r].n = req[r].n
      BY <2>1, IdleFacts DEF Refreshing
    <3>3. req[q].at = "issued" => req[q].n # req[p].n
      <4>1. req[q].at = "issued" => token[req[q].n].page = {q} /\ token[req[p].n].page = {p}
        BY <2>1, <3>1 DEF TokenCall
      <4> QED
        BY <4>1
    <3> QED
      BY <2>1, <3>1, <3>2, <3>3 DEF TokenCall, Refreshing, At
  <2> QED
    BY <2>2, <2>3 DEF TokenInv
<1>5. ASSUME NEW p \in Pages, Adds(p) PROVE TokenInv'
  <2>1. PICK parent \in 0 .. pairs :
          /\ \/ parent = 0
             \/ parent \in 1 .. pairs /\ At(p, "refresh", "commit") /\ parent = req[p].n
          /\ Added(p, parent)
    BY <1>5, AddsFacts
  <2>2. /\ pairs' = pairs + 1 /\ UNCHANGED <<stored, page>> /\ page[p] # "unopened"
        /\ stored \in 0 .. pairs
    BY <1>t, <1>5, <2>1 DEF Added, Adds, PairTypes
  <2>a. \A t \in 1 .. pairs :
          /\ token'[t].page = token[t].page
          /\ (token'[t].revoked <=> token[t].revoked \/ t = parent)
          /\ token'[t].racers = IF t = parent /\ ~token[t].revoked
                                THEN Holding(t) \ {p} ELSE token[t].racers
    BY <2>1 DEF Added
  <2>b. token'[pairs + 1].page = {p} /\ ~token'[pairs + 1].revoked
    BY <2>1 DEF Added
  <2>c. /\ req'[p].op = req[p].op /\ req'[p].at = "issued" /\ req'[p].n = pairs + 1
        /\ req'[p].confirms = req[p].confirms
        /\ \A q \in Pages \ {p} : req'[q] = req[q]
    BY <2>1 DEF Added, Becomes
  <2>3. \A r \in Pages : Refreshing(r)' => r # p /\ Refreshing(r) /\ req'[r].n = req[r].n
    BY <2>c DEF Refreshing
  <2>4. \A r \in Pages : Refreshing(r) => req[r].n \in 1 .. pairs
    BY <1>t DEF TokenInv, TokenCall
  <2>5. TokenCall(p)'
    <3>1. TokenCall(p)
      BY <1>t DEF TokenInv
    <3>2. pairs + 1 \in 1 .. pairs' /\ pairs + 1 # stored
          /\ \A r \in Pages : Refreshing(r)' => req'[r].n # pairs + 1
      BY <1>p, <2>2, <2>3, <2>4
    <3>3. ~(Refreshing(p))' /\ ~(At(p, "refresh", "commit"))'
      BY <2>c DEF Refreshing, At
    <3> QED
      BY <2>2, <2>b, <2>c, <3>1, <3>2, <3>3 DEF TokenCall
  <2>6. ASSUME NEW q \in Pages \ {p} PROVE TokenCall(q)'
    <3>1. req'[q] = req[q] /\ TokenCall(q)
      BY <1>t, <2>c DEF TokenInv
    <3>2. Refreshing(q)' => req'[q].n \in 1 .. pairs'
      BY <1>p, <2>2, <2>3, <2>4
    <3>3. At(q, "refresh", "commit")' /\ token'[req'[q].n].revoked
            => q \in token'[req'[q].n].racers
      <4> SUFFICES ASSUME At(q, "refresh", "commit"), token'[req[q].n].revoked
                   PROVE  q \in token'[req[q].n].racers
        BY <3>1 DEF At
      <4>1. req[q].n \in 1 .. pairs
        BY <2>4 DEF At, Refreshing
      <4>2. CASE token[req[q].n].revoked
        BY <2>a, <3>1, <4>1, <4>2 DEF TokenCall
      <4>3. CASE ~token[req[q].n].revoked
        <5>1. req[q].n = parent
          BY <2>a, <4>1, <4>3
        <5>2. q \in Holding(parent) \ {p}
          BY <5>1 DEF Holding
        <5> QED
          BY <2>a, <4>1, <4>3, <5>1, <5>2
      <4> QED
        BY <4>2, <4>3
    <3>4. ASSUME req'[q].at = "issued"
          PROVE  /\ req'[q].n \in 1 .. pairs' /\ req'[q].n # stored'
                 /\ token'[req'[q].n].page = {q} /\ ~token'[req'[q].n].revoked
                 /\ \A r \in Pages : Refreshing(r)' => req'[r].n # req'[q].n
      <4>1. /\ req[q].n \in 1 .. pairs /\ req[q].n # stored
            /\ token[req[q].n].page = {q} /\ ~token[req[q].n].revoked
            /\ \A r \in Pages : Refreshing(r) => req[r].n # req[q].n
        BY <3>1, <3>4 DEF TokenCall
      <4>2. req[q].n # parent
        BY <2>1, <4>1 DEF At, Refreshing
      <4>3. token'[req[q].n].page = {q} /\ ~token'[req[q].n].revoked
        BY <2>a, <4>1, <4>2
      <4>5. req[q].n \in 1 .. pairs'
        BY <1>p, <2>2, <4>1
      <4>4. \A r \in Pages : Refreshing(r)' => req'[r].n # req[q].n
        BY <2>3, <4>1
      <4> QED
        BY <2>2, <3>1, <4>1, <4>3, <4>4, <4>5
    <3> QED
      BY <2>2, <3>1, <3>2, <3>3, <3>4 DEF TokenCall
  <2> QED
    BY <2>5, <2>6 DEF TokenInv
<1> QED
  BY <1>1, <1>2, <1>3, <1>4, <1>5, StepKinds

\* Whoever may still take the stored token's place is a witness until it has.
LEMMA StoredStep == IInv /\ [Next]_vars => StoredTokenNotSpent'
<1> SUFFICES ASSUME IInv, [Next]_vars PROVE StoredTokenNotSpent'
  OBVIOUS
<1>t. StoredTokenNotSpent /\ TokenInv /\ PairTypes
  BY DEF IInv
<1>p. pairs \in Nat
  BY <1>t, PairFacts
<1> DEFINE Waits(u, q) ==
      \/ page[q] = "closed"
      \/ req[q].op = "refresh" /\ req[q].at \in {"issued", "over"} /\ req[q].n = u
<1>w. ASSUME stored # 0, token[stored].revoked
      PROVE  \E u \in 1 .. pairs, q \in Pages :
               token[u].parent = stored /\ token[u].page = {q} /\ Waits(u, q)
  BY <1>t, <1>w DEF StoredTokenNotSpent
<1>s. ASSUME UNCHANGED <<pairs, token>>, stored' \in {stored, 0},
             stored' # 0 => \A u \in 1 .. pairs, q \in Pages : Waits(u, q) => Waits(u, q)'
      PROVE  StoredTokenNotSpent'
  BY <1>w, <1>s DEF StoredTokenNotSpent
<1>1. CASE Quiet
  BY <1>1, <1>s DEF Quiet, QuietCall
<1>2. ASSUME NEW p \in Pages, Refresh(p) PROVE StoredTokenNotSpent'
  <2>1. /\ UNCHANGED <<pairs, token, page, stored>> /\ req[p].op = "idle"
        /\ \A q \in Pages \ {p} : req'[q] = req[q]
    BY <1>2, RefreshFacts, IdleFacts
  <2> QED
    BY <2>1, <1>s
<1>3. ASSUME NEW p \in Pages, RefreshSelect(p) PROVE StoredTokenNotSpent'
  <2>1. /\ UNCHANGED <<pairs, token, page, stored>> /\ req[p].at = "select"
        /\ \A q \in Pages \ {p} : req'[q] = req[q]
    BY <1>3, SelectFacts
  <2> QED
    BY <2>1, <1>s
<1>4. ASSUME NEW p \in Pages, Keep(p) PROVE StoredTokenNotSpent'
  <2>1. /\ UNCHANGED <<pairs, token, page>> /\ req[p].at = "issued"
        /\ \/ stored' = req[p].n
           \/ stored' = stored /\ req[p].op # "refresh"
        /\ \A q \in Pages \ {p} : req'[q] = req[q]
    BY <1>4, KeepFacts
  <2>2. CASE stored' = req[p].n
    <3>1. ~token[req[p].n].revoked
      BY <1>t, <2>1 DEF TokenInv, TokenCall
    <3> QED
      BY <2>1, <2>2, <3>1 DEF StoredTokenNotSpent
  <2>3. CASE stored' = stored /\ req[p].op # "refresh"
    BY <2>1, <2>3, <1>s
  <2> QED
    BY <2>1, <2>2, <2>3
<1>5. ASSUME NEW p \in Pages, Adds(p) PROVE StoredTokenNotSpent'
  <2>1. PICK parent \in 0 .. pairs :
          /\ \/ parent = 0
             \/ parent \in 1 .. pairs /\ At(p, "refresh", "commit") /\ parent = req[p].n
          /\ Added(p, parent)
    BY <1>5, AddsFacts
  <2>2. /\ pairs' = pairs + 1 /\ UNCHANGED <<stored, page>> /\ stored \in 0 .. pairs
    BY <1>t, <1>5, <2>1 DEF Added, Adds, PairTypes
  <2>a. \A t \in 1 .. pairs :
          /\ token'[t].parent = token[t].parent /\ token'[t].page = token[t].page
          /\ (token'[t].revoked <=> token[t].revoked \/ t = parent)
    BY <2>1 DEF Added
  <2>b. token'[pairs + 1].parent = parent /\ token'[pairs + 1].page = {p}
    BY <2>1 DEF Added
  <2>c. /\ req'[p].op = req[p].op /\ req'[p].at = "issued" /\ req'[p].n = pairs + 1
        /\ \A q \in Pages \ {p} : req'[q] = req[q]
    BY <2>1 DEF Added, Becomes
  <2> SUFFICES ASSUME stored # 0, token'[stored].revoked
               PROVE  \E u \in 1 .. pairs + 1, q \in Pages :
                        token'[u].parent = stored /\ token'[u].page = {q} /\ Waits(u, q)'
    BY <2>2 DEF StoredTokenNotSpent
  <2>3. CASE token[stored].revoked
    <3>1. PICK u \in 1 .. pairs, q \in Pages :
            token[u].parent = stored /\ token[u].page = {q} /\ Waits(u, q)
      BY <1>w, <2>3
    <3>2. u \in 1 .. pairs + 1 /\ token'[u].parent = stored /\ token'[u].page = {q}
      BY <1>p, <2>a, <3>1
    <3>3. CASE q # p
      BY <2>2, <2>c, <3>1, <3>2, <3>3
    <3>4. CASE q = p /\ page[p] = "closed"
      BY <2>2, <3>2, <3>4
    <3>5. CASE q = p /\ page[p] # "closed"
      <4>1. req[p].op = "refresh" /\ req[p].at \in {"issued", "over"}
        BY <3>1, <3>5
      <4>2. req[p].at \in {"issue", "commit"}
        BY <1>5, <4>1 DEF Adds, At
      <4> QED
        BY <4>1, <4>2
    <3> QED
      BY <3>3, <3>4, <3>5
  <2>4. CASE ~token[stored].revoked
    <3>1. stored = parent /\ parent # 0
      <4>1. stored \in 1 .. pairs
        BY <1>p, <2>2
      <4> QED
        BY <2>a, <2>4, <4>1
    <3>2. req'[p].op = "refresh" /\ req'[p].at = "issued" /\ req'[p].n = pairs + 1
      BY <2>1, <2>c, <3>1 DEF At
    <3> QED
      BY <1>p, <2>b, <3>1, <3>2
  <2> QED
    BY <2>3, <2>4
<1> QED
  BY <1>1, <1>2, <1>3, <1>4, <1>5, StepKinds

-----------------------------------------------------------------------------
\* Where a call may stand once its account is known to be active.
Vouched(p) ==
  \/ req[p].at = "issue" /\ req[p].op # "google"
  \/ req[p].at = "step_up"
  \/ req[p].at = "spend" /\ ~req[p].confirms

\* A step of the call of p that uses no recovery code.
SpendsNothing(p) ==
  /\ uses' = uses /\ req'[p].at # "spend"
  /\ \A q \in Pages \ {p} : req'[q] = req[q]

\* A step of the call of p that leaves an active account active, and has one where it
\* must.
Vouches(p) ==
  /\ UNCHANGED <<pairs, token>>
  /\ user.status = "active" => user'.status = "active"
  /\ Vouched(p)' => user'.status = "active"
  /\ \A q \in Pages \ {p} : req'[q] = req[q]

\* Such a step keeps the codes unspent.
LEMMA SpendsNothingKeeps ==
  ASSUME RecoveryInv, NEW p \in Pages, SpendsNothing(p)
  PROVE  RecoveryInv'
  BY DEF RecoveryInv, SpendsNothing

\* Such a step keeps the account active.
LEMMA VouchesKeeps ==
  ASSUME ActiveInv, NEW p \in Pages, Vouches(p)
  PROVE  ActiveInv'
  BY DEF ActiveInv, Vouches, Vouched, HoldersAreActive

\* A code is spent by those that had read it unspent.
LEMMA RecoveryStep == IInv /\ [Next]_vars => RecoveryInv'
<1> SUFFICES ASSUME IInv, [Next]_vars PROVE RecoveryInv'
  OBVIOUS
<1>t. RecoveryInv /\ ReqType /\ UsesType /\ PairTypes
  BY DEF IInv
<1>a. ASSUME NEW p \in Pages, NEW parent, AddPair(p, parent)
      PROVE  req'[p].at # "spend" /\ \A q \in Pages \ {p} : req'[q] = req[q]
  BY <1>a, <1>t DEF AddPair, ReqType, CallSet
<1>1. CASE CodeExpires
  BY <1>1, <1>t DEF CodeExpires, RecoveryInv
<1>2. ASSUME NEW p \in Pages, Open(p) PROVE RecoveryInv'
  BY <1>2, <1>t DEF Open, rows, RecoveryInv
<1>3. ASSUME NEW p \in Pages, Register(p) PROVE RecoveryInv'
  <2>1. Becomes(p, "register", "insert", 0, FALSE)
    BY <1>3, <1>t, StartMoves DEF Register
  <2>2. SpendsNothing(p)
    BY <1>3, <2>1 DEF Register, rows, Becomes, SpendsNothing
  <2> QED
    BY <2>2, <1>t, SpendsNothingKeeps
<1>4. ASSUME NEW p \in Pages, VerifyEmail(p) PROVE RecoveryInv'
  <2>1. Becomes(p, "verify_email", "check", 0, FALSE)
    BY <1>4, <1>t, StartMoves DEF VerifyEmail
  <2>2. SpendsNothing(p)
    BY <1>4, <2>1 DEF VerifyEmail, rows, Becomes, SpendsNothing
  <2> QED
    BY <2>2, <1>t, SpendsNothingKeeps
<1>5. ASSUME NEW p \in Pages, Login(p) PROVE RecoveryInv'
  <2>1. \/ Becomes(p, "verify_2fa", "step_up", 0, FALSE)
       \/ Becomes(p, "login", "issue", 0, FALSE)
    BY <1>5, <1>t, StartMoves DEF Login
  <2>2. SpendsNothing(p)
    BY <1>5, <2>1 DEF Login, rows, Becomes, SpendsNothing
  <2> QED
    BY <2>2, <1>t, SpendsNothingKeeps
<1>6. ASSUME NEW p \in Pages, Google(p) PROVE RecoveryInv'
  <2>1. \/ Becomes(p, "google", "issue", 0, FALSE)
       \/ Becomes(p, "google", "find_user", 0, FALSE)
    BY <1>6, <1>t, StartMoves DEF Google
  <2>2. SpendsNothing(p)
    BY <1>6, <2>1 DEF Google, rows, Becomes, SpendsNothing
  <2> QED
    BY <2>2, <1>t, SpendsNothingKeeps
<1>7. ASSUME NEW p \in Pages, Enable(p) PROVE RecoveryInv'
  <2>1. Becomes(p, "enable", "commit", 0, FALSE)
    BY <1>7, <1>t, StartMoves DEF Enable
  <2>2. SpendsNothing(p)
    BY <1>7, <2>1 DEF Enable, rows, Becomes, SpendsNothing
  <2> QED
    BY <2>2, <1>t, SpendsNothingKeeps
<1>8. ASSUME NEW p \in Pages, VerifyTotp(p) PROVE RecoveryInv'
  <2>1. /\ uses' = uses /\ req'[p].at \in {"activate", "issue"}
        /\ \A q \in Pages \ {p} : req'[q] = req[q]
    <3>1. Becomes(p, "verify_2fa", IF req[p] = Idle THEN "activate" ELSE "issue",
                  req[p].n, req[p].confirms)
      BY <1>8, <1>t, OtherMoves
    <3> QED
      BY <1>8, <3>1 DEF VerifyTotp, rows, Becomes
  <2> QED
    BY <2>1, <1>t, SpendsNothingKeeps DEF SpendsNothing
<1>9. ASSUME NEW p \in Pages, NEW n \in Enrolments, VerifyRecovery(p, n) PROVE RecoveryInv'
  <2>1. /\ uses' = uses /\ uses[n][p] = 0
        /\ req'[p].op = "verify_2fa" /\ req'[p].at = "spend" /\ req'[p].n = n
        /\ \A q \in Pages \ {p} : req'[q] = req[q]
    BY <1>9, <1>t, OtherMoves DEF VerifyRecovery, rows, Becomes
  <2> QED
    BY <2>1, <1>t DEF RecoveryInv
<1>10. ASSUME NEW p \in Pages, Refresh(p) PROVE RecoveryInv'
  <2>1. SpendsNothing(p)
    BY <1>10, <1>t, OtherMoves DEF Refresh, rows, browser, Becomes, SpendsNothing
  <2> QED
    BY <2>1, <1>t, SpendsNothingKeeps
<1>11. ASSUME NEW p \in Pages, Logout(p) PROVE RecoveryInv'
  <2>1. Becomes(p, "logout", "blocklist", 0, FALSE)
    BY <1>11, <1>t, StartMoves DEF Logout
  <2>2. SpendsNothing(p)
    BY <1>11, <2>1 DEF Logout, rows, Becomes, SpendsNothing
  <2> QED
    BY <2>2, <1>t, SpendsNothingKeeps
<1>12. ASSUME NEW p \in Pages, RegisterInsert(p) PROVE RecoveryInv'
  <2>1. SpendsNothing(p)
    BY <1>12, <1>t, GotoMoves, DoneMoves, FailMoves
    DEF RegisterInsert, At, browser, Becomes, SpendsNothing
  <2> QED
    BY <2>1, <1>t, SpendsNothingKeeps
<1>13. ASSUME NEW p \in Pages, RegisterMail(p) PROVE RecoveryInv'
  <2>1. SpendsNothing(p)
    BY <1>13, <1>t, DoneMoves DEF RegisterMail, At, Becomes, SpendsNothing
  <2> QED
    BY <2>1, <1>t, SpendsNothingKeeps
<1>14. ASSUME NEW p \in Pages, CheckCode(p) PROVE RecoveryInv'
  <2>1. SpendsNothing(p)
    BY <1>14, <1>t, GotoMoves, DoneMoves, FailMoves
    DEF CheckCode, At, rows, browser, Becomes, SpendsNothing
  <2> QED
    BY <2>1, <1>t, SpendsNothingKeeps
<1>15. ASSUME NEW p \in Pages, DeleteCode(p) PROVE RecoveryInv'
  <2>1. SpendsNothing(p)
    BY <1>15, <1>t, GotoMoves DEF DeleteCode, At, browser, Becomes, SpendsNothing
  <2> QED
    BY <2>1, <1>t, SpendsNothingKeeps
<1>16. ASSUME NEW p \in Pages, ActivateUser(p) PROVE RecoveryInv'
  <2>1. SpendsNothing(p)
    BY <1>16, <1>t, GotoMoves DEF ActivateUser, At, browser, Becomes, SpendsNothing
  <2> QED
    BY <2>1, <1>t, SpendsNothingKeeps
<1>17. ASSUME NEW p \in Pages, EnableCommit(p) PROVE RecoveryInv'
  <2>1. SpendsNothing(p)
    BY <1>17, <1>t, DoneMoves DEF EnableCommit, At, browser, Becomes, SpendsNothing
  <2> QED
    BY <2>1, <1>t, SpendsNothingKeeps
<1>18. ASSUME NEW p \in Pages, SpendRecovery(p) PROVE RecoveryInv'
  <2>1. req[p].n \in Enrolments /\ uses[req[p].n][p] = 0
    BY <1>18, <1>t DEF SpendRecovery, At, RecoveryInv
  <2>2. uses' = [uses EXCEPT ![req[p].n] = [@ EXCEPT ![p] = uses[req[p].n][p] + 1]]
    BY <1>18 DEF SpendRecovery
  <2>3. /\ uses'[req[p].n][p] = 1
        /\ \A m \in Enrolments, q \in Pages :
             m # req[p].n \/ q # p => uses'[m][q] = uses[m][q]
    BY <2>1, <2>2, <1>t DEF UsesType
  <2>4. req'[p].at # "spend" /\ \A q \in Pages \ {p} : req'[q] = req[q]
    BY <1>18, <1>t, GotoMoves DEF SpendRecovery, Becomes
  <2>5. ASSUME NEW q \in Pages, req'[q].at = "spend"
        PROVE  /\ req'[q].op = "verify_2fa"
               /\ req'[q].n \in Enrolments /\ uses'[req'[q].n][q] = 0
    BY <2>3, <2>4, <2>5, <1>t DEF RecoveryInv
  <2>6. ASSUME NEW m \in Enrolments, NEW q \in Pages PROVE uses'[m][q] \leq 1
    <3>1. CASE m = req[p].n /\ q = p
      BY <2>3, <3>1
    <3>2. CASE m # req[p].n \/ q # p
      BY <2>3, <3>2, <1>t DEF RecoveryInv
    <3> QED
      BY <3>1, <3>2
  <2> QED
    BY <2>5, <2>6 DEF RecoveryInv
<1>19. ASSUME NEW p \in Pages, ActivateAfter2FA(p) PROVE RecoveryInv'
  <2>1. SpendsNothing(p)
    BY <1>19, <1>t, OtherMoves DEF ActivateAfter2FA, At, browser, Becomes, SpendsNothing
  <2> QED
    BY <2>1, <1>t, SpendsNothingKeeps
<1>20. ASSUME NEW p \in Pages, GoogleFindUser(p) PROVE RecoveryInv'
  <2>1. SpendsNothing(p)
    BY <1>20, <1>t, GotoMoves DEF GoogleFindUser, At, rows, browser, Becomes, SpendsNothing
  <2> QED
    BY <2>1, <1>t, SpendsNothingKeeps
<1>21. ASSUME NEW p \in Pages, GoogleCreate(p) PROVE RecoveryInv'
  <2>1. CASE user.status = "absent"
    BY <1>21, <1>t, <2>1, GotoMoves, SpendsNothingKeeps DEF GoogleCreate, Becomes, SpendsNothing
  <2>2. CASE user.status # "absent"
    BY <1>21, <1>t, <2>2, FailMoves, SpendsNothingKeeps DEF GoogleCreate, Becomes, SpendsNothing
  <2> QED
    BY <2>1, <2>2
<1>22. ASSUME NEW p \in Pages, GoogleLink(p) PROVE RecoveryInv'
  <2>1. SpendsNothing(p)
    BY <1>22, <1>t, GotoMoves DEF GoogleLink, At, browser, Becomes, SpendsNothing
  <2> QED
    BY <2>1, <1>t, SpendsNothingKeeps
<1>23. ASSUME NEW p \in Pages, RefreshSelect(p) PROVE RecoveryInv'
  <2>1. SpendsNothing(p)
    BY <1>23, <1>t, GotoMoves DEF RefreshSelect, At, rows, browser, Becomes, SpendsNothing
  <2> QED
    BY <2>1, <1>t, SpendsNothingKeeps
<1>24. ASSUME NEW p \in Pages, RefreshCommit(p) PROVE RecoveryInv'
  <2>1. CASE user.status = "active"
    BY <1>24, <1>a, <1>t, <2>1, SpendsNothingKeeps DEF RefreshCommit, SpendsNothing
  <2>2. CASE user.status # "active"
    BY <1>24, <1>t, <2>2, FailMoves, SpendsNothingKeeps DEF RefreshCommit, SpendsNothing, Becomes
  <2> QED
    BY <2>1, <2>2
<1>25. ASSUME NEW p \in Pages, BlocklistJti(p) PROVE RecoveryInv'
  <2>1. SpendsNothing(p)
    BY <1>25, <1>t, GotoMoves DEF BlocklistJti, At, rows, browser, Becomes, SpendsNothing
  <2> QED
    BY <2>1, <1>t, SpendsNothingKeeps
<1>26. ASSUME NEW p \in Pages, Issue(p) PROVE RecoveryInv'
  BY <1>26, <1>a, <1>t, SpendsNothingKeeps DEF Issue, SpendsNothing
<1>27. ASSUME NEW p \in Pages, Keep(p) PROVE RecoveryInv'
  <2>1. SpendsNothing(p)
    BY <1>27, <1>t, DoneMoves DEF Keep, rows, Becomes, SpendsNothing
  <2> QED
    BY <2>1, <1>t, SpendsNothingKeeps
<1>28. ASSUME NEW p \in Pages, GiveUp(p) PROVE RecoveryInv'
  <2>1. SpendsNothing(p)
    BY <1>28, <1>t, DoneMoves DEF GiveUp, rows, Becomes, SpendsNothing
  <2> QED
    BY <2>1, <1>t, SpendsNothingKeeps
<1>29. ASSUME NEW p \in Pages, Unheard(p) PROVE RecoveryInv'
  <2>1. SpendsNothing(p)
    BY <1>29, <1>t, DoneMoves DEF Unheard, rows, browser, Becomes, SpendsNothing
  <2> QED
    BY <2>1, <1>t, SpendsNothingKeeps
<1>30. ASSUME NEW p \in Pages, Breaks(p) PROVE RecoveryInv'
  BY <1>30, <1>t, FailMoves, SpendsNothingKeeps DEF Breaks, rows, SpendsNothing, Becomes
<1>31. ASSUME NEW p \in Pages, NEW q \in Pages, Reload(p, q) PROVE RecoveryInv'
  <2>1. uses' = uses /\ \A s \in Pages : req'[s] = req[s] \/ req'[s] = Idle
    BY <1>31, <1>t DEF Reload, rows, ReqType
  <2> QED
    BY <2>1, <1>t, IdleFacts DEF RecoveryInv
<1>32. CASE UNCHANGED vars
  BY <1>32, <1>t DEF vars, RecoveryInv
<1> QED
  BY <1>1, <1>2, <1>3, <1>4, <1>5, <1>6, <1>7, <1>8, <1>9, <1>10, <1>11, <1>12,
     <1>13, <1>14, <1>15, <1>16, <1>17, <1>18, <1>19, <1>20, <1>21, <1>22, <1>23,
     <1>24, <1>25, <1>26, <1>27, <1>28, <1>29, <1>30, <1>31, <1>32
  DEF Next, Call, Handle, Answer

\* Only the steps that make the account active, or find it so, lead to a pair.
LEMMA ActiveStep == IInv /\ [Next]_vars => ActiveInv'
<1> SUFFICES ASSUME IInv, [Next]_vars PROVE ActiveInv'
  OBVIOUS
<1>t. ActiveInv /\ ReqType /\ RowTypes /\ PairTypes
  BY DEF IInv
<1>a. ASSUME NEW p \in Pages, NEW parent, AddPair(p, parent)
      PROVE  req'[p].at = "issued" /\ \A q \in Pages \ {p} : req'[q] = req[q]
  BY <1>a, <1>t DEF AddPair, ReqType, CallSet
<1>1. CASE CodeExpires
  BY <1>1, <1>t DEF CodeExpires, ActiveInv, HoldersAreActive
<1>2. ASSUME NEW p \in Pages, Open(p) PROVE ActiveInv'
  BY <1>2, <1>t DEF Open, rows, ActiveInv, HoldersAreActive
<1>3. ASSUME NEW p \in Pages, Register(p) PROVE ActiveInv'
  <2>1. Becomes(p, "register", "insert", 0, FALSE)
    BY <1>3, <1>t, StartMoves DEF Register
  <2>2. Vouches(p)
    BY <1>3, <2>1 DEF Register, rows, Becomes, Vouches, Vouched
  <2> QED
    BY <2>2, <1>t, VouchesKeeps
<1>4. ASSUME NEW p \in Pages, VerifyEmail(p) PROVE ActiveInv'
  <2>1. Becomes(p, "verify_email", "check", 0, FALSE)
    BY <1>4, <1>t, StartMoves DEF VerifyEmail
  <2>2. Vouches(p)
    BY <1>4, <2>1 DEF VerifyEmail, rows, Becomes, Vouches, Vouched
  <2> QED
    BY <2>2, <1>t, VouchesKeeps
<1>5. ASSUME NEW p \in Pages, Login(p) PROVE ActiveInv'
  <2>1. \/ Becomes(p, "verify_2fa", "step_up", 0, FALSE)
       \/ Becomes(p, "login", "issue", 0, FALSE)
    BY <1>5, <1>t, StartMoves DEF Login
  <2>2. Vouches(p)
    BY <1>5, <2>1 DEF Login, rows, Becomes, Vouches, Vouched
  <2> QED
    BY <2>2, <1>t, VouchesKeeps
<1>6. ASSUME NEW p \in Pages, Google(p) PROVE ActiveInv'
  <2>1. \/ Becomes(p, "google", "issue", 0, FALSE)
       \/ Becomes(p, "google", "find_user", 0, FALSE)
    BY <1>6, <1>t, StartMoves DEF Google
  <2>2. Vouches(p)
    BY <1>6, <2>1 DEF Google, rows, Becomes, Vouches, Vouched
  <2> QED
    BY <2>2, <1>t, VouchesKeeps
<1>7. ASSUME NEW p \in Pages, Enable(p) PROVE ActiveInv'
  <2>1. Becomes(p, "enable", "commit", 0, FALSE)
    BY <1>7, <1>t, StartMoves DEF Enable
  <2>2. Vouches(p)
    BY <1>7, <2>1 DEF Enable, rows, Becomes, Vouches, Vouched
  <2> QED
    BY <2>2, <1>t, VouchesKeeps
<1>8. ASSUME NEW p \in Pages, VerifyTotp(p) PROVE ActiveInv'
  <2>1. UNCHANGED <<pairs, token, user>> /\ (req[p] = Idle \/ req[p].at = "step_up")
    BY <1>8 DEF VerifyTotp, MayEnterCode, At, rows
  <2>2. Becomes(p, "verify_2fa", IF req[p] = Idle THEN "activate" ELSE "issue",
                req[p].n, req[p].confirms)
    BY <1>8, <1>t, OtherMoves
  <2>3. req[p].at = "step_up" => user.status = "active"
    BY <1>t DEF ActiveInv
  <2>4. Vouches(p)
    BY <2>1, <2>2, <2>3 DEF Becomes, Vouches, Vouched
  <2> QED
    BY <2>4, <1>t, VouchesKeeps
<1>9. ASSUME NEW p \in Pages, NEW n \in Enrolments, VerifyRecovery(p, n) PROVE ActiveInv'
  <2>1. UNCHANGED <<pairs, token, user>> /\ (req[p] = Idle \/ req[p].at = "step_up")
    BY <1>9 DEF VerifyRecovery, MayEnterCode, At, rows
  <2>2. Becomes(p, "verify_2fa", "spend", n, req[p] = Idle)
    BY <1>9, <1>t, OtherMoves
  <2>3. req[p].at = "step_up" => user.status = "active"
    BY <1>t DEF ActiveInv
  <2>4. Vouches(p)
    BY <2>1, <2>2, <2>3 DEF Becomes, Vouches, Vouched
  <2> QED
    BY <2>4, <1>t, VouchesKeeps
<1>10. ASSUME NEW p \in Pages, Refresh(p) PROVE ActiveInv'
  <2>1. Vouches(p)
    BY <1>10, <1>t, OtherMoves DEF Refresh, rows, browser, Becomes, Vouches, Vouched
  <2> QED
    BY <2>1, <1>t, VouchesKeeps
<1>11. ASSUME NEW p \in Pages, Logout(p) PROVE ActiveInv'
  <2>1. Becomes(p, "logout", "blocklist", 0, FALSE)
    BY <1>11, <1>t, StartMoves DEF Logout
  <2>2. Vouches(p)
    BY <1>11, <2>1 DEF Logout, rows, Becomes, Vouches, Vouched
  <2> QED
    BY <2>2, <1>t, VouchesKeeps
<1>12. ASSUME NEW p \in Pages, RegisterInsert(p) PROVE ActiveInv'
  <2>1. UNCHANGED <<pairs, token>> /\ (user.status = "active" => user'.status = "active")
    BY <1>12, <1>t DEF RegisterInsert, RowTypes
  <2>2. ~(Vouched(p))' /\ \A q \in Pages \ {p} : req'[q] = req[q]
    <3>1. CASE user.status = "absent"
      BY <1>12, <1>t, <3>1, GotoMoves DEF RegisterInsert, At, Becomes, Vouched
    <3>2. CASE user.status # "absent"
      BY <1>12, <1>t, <3>2, FailMoves DEF RegisterInsert, At, Becomes, Vouched
    <3> QED
      BY <3>1, <3>2
  <2> QED
    BY <2>1, <2>2, <1>t, VouchesKeeps DEF Vouches
<1>13. ASSUME NEW p \in Pages, RegisterMail(p) PROVE ActiveInv'
  <2>1. Vouches(p)
    BY <1>13, <1>t, DoneMoves DEF RegisterMail, At, Becomes, Vouches, Vouched
  <2> QED
    BY <2>1, <1>t, VouchesKeeps
<1>14. ASSUME NEW p \in Pages, CheckCode(p) PROVE ActiveInv'
  <2>1. Vouches(p)
    BY <1>14, <1>t, GotoMoves, DoneMoves, FailMoves
    DEF CheckCode, At, rows, browser, Becomes, Vouches, Vouched
  <2> QED
    BY <2>1, <1>t, VouchesKeeps
<1>15. ASSUME NEW p \in Pages, DeleteCode(p) PROVE ActiveInv'
  <2>1. Vouches(p)
    BY <1>15, <1>t, GotoMoves DEF DeleteCode, At, browser, Becomes, Vouches, Vouched
  <2> QED
    BY <2>1, <1>t, VouchesKeeps
<1>16. ASSUME NEW p \in Pages, ActivateUser(p) PROVE ActiveInv'
  <2>1. Vouches(p)
    BY <1>16, <1>t, GotoMoves DEF ActivateUser, At, browser, Becomes, Vouches, Vouched, RowTypes
  <2> QED
    BY <2>1, <1>t, VouchesKeeps
<1>17. ASSUME NEW p \in Pages, EnableCommit(p) PROVE ActiveInv'
  <2>1. Vouches(p)
    BY <1>17, <1>t, DoneMoves DEF EnableCommit, At, browser, Becomes, Vouches, Vouched, RowTypes
  <2> QED
    BY <2>1, <1>t, VouchesKeeps
<1>18. ASSUME NEW p \in Pages, SpendRecovery(p) PROVE ActiveInv'
  <2>1. UNCHANGED <<pairs, token, user>> /\ req[p].at = "spend"
    BY <1>18 DEF SpendRecovery, At
  <2>2. ~req[p].confirms => user.status = "active"
    BY <2>1, <1>t DEF ActiveInv
  <2>3. Becomes(p, req[p].op, IF req[p].confirms THEN "activate" ELSE "issue",
                req[p].n, req[p].confirms)
    BY <1>18, <1>t, GotoMoves DEF SpendRecovery
  <2>4. Vouches(p)
    BY <2>1, <2>2, <2>3 DEF Becomes, Vouches, Vouched
  <2> QED
    BY <2>4, <1>t, VouchesKeeps
<1>19. ASSUME NEW p \in Pages, ActivateAfter2FA(p) PROVE ActiveInv'
  <2>1. Vouches(p)
    BY <1>19, <1>t, OtherMoves DEF ActivateAfter2FA, At, browser, Becomes, Vouches, Vouched, RowTypes
  <2> QED
    BY <2>1, <1>t, VouchesKeeps
<1>20. ASSUME NEW p \in Pages, GoogleFindUser(p) PROVE ActiveInv'
  <2>1. Vouches(p)
    BY <1>20, <1>t, GotoMoves DEF GoogleFindUser, At, rows, browser, Becomes, Vouches, Vouched
  <2> QED
    BY <2>1, <1>t, VouchesKeeps
<1>21. ASSUME NEW p \in Pages, GoogleCreate(p) PROVE ActiveInv'
  <2>1. CASE user.status = "absent"
    <3>1. UNCHANGED <<pairs, token>> /\ user'.status = "active"
      BY <1>21, <2>1, <1>t DEF GoogleCreate, RowTypes
    <3>2. \A q \in Pages \ {p} : req'[q] = req[q]
      BY <1>21, <2>1, <1>t, GotoMoves DEF GoogleCreate, Becomes
    <3> QED
      BY <3>1, <3>2, <1>t, VouchesKeeps DEF Vouches
  <2>2. CASE user.status # "absent"
    <3>1. UNCHANGED <<pairs, token, user>>
      BY <1>21, <2>2 DEF GoogleCreate
    <3>2. ~(Vouched(p))' /\ \A q \in Pages \ {p} : req'[q] = req[q]
      BY <1>21, <2>2, <1>t, FailMoves DEF GoogleCreate, Becomes, Vouched
    <3> QED
      BY <3>1, <3>2, <1>t, VouchesKeeps DEF Vouches
  <2> QED
    BY <2>1, <2>2
<1>22. ASSUME NEW p \in Pages, GoogleLink(p) PROVE ActiveInv'
  <2>1. Vouches(p)
    BY <1>22, <1>t, GotoMoves DEF GoogleLink, At, browser, Becomes, Vouches, Vouched
  <2> QED
    BY <2>1, <1>t, VouchesKeeps
<1>23. ASSUME NEW p \in Pages, RefreshSelect(p) PROVE ActiveInv'
  <2>1. Vouches(p)
    BY <1>23, <1>t, GotoMoves DEF RefreshSelect, At, rows, browser, Becomes, Vouches, Vouched
  <2> QED
    BY <2>1, <1>t, VouchesKeeps
<1>24. ASSUME NEW p \in Pages, RefreshCommit(p) PROVE ActiveInv'
  <2>1. CASE user.status = "active"
    BY <1>24, <1>a, <1>t, <2>1 DEF RefreshCommit, ActiveInv, HoldersAreActive
  <2>2. CASE user.status # "active"
    <3>1. Vouches(p)
      BY <1>24, <1>t, <2>2, FailMoves DEF RefreshCommit, Vouches, Vouched, Becomes
    <3> QED
      BY <3>1, <1>t, VouchesKeeps
  <2> QED
    BY <2>1, <2>2
<1>25. ASSUME NEW p \in Pages, BlocklistJti(p) PROVE ActiveInv'
  <2>1. Vouches(p)
    BY <1>25, <1>t, GotoMoves DEF BlocklistJti, At, rows, browser, Becomes, Vouches, Vouched
  <2> QED
    BY <2>1, <1>t, VouchesKeeps
<1>26. ASSUME NEW p \in Pages, Issue(p) PROVE ActiveInv'
  <2>1. AddPair(p, 0) /\ 0 \in 0 .. pairs /\ user' = user /\ req[p].at = "issue"
    BY <1>26, <1>t DEF Issue, PairTypes
  <2>2. req[p].op # "google" => user.status = "active"
    BY <2>1, <1>t DEF ActiveInv
  <2>3. /\ pairs \in Nat /\ pairs' = pairs + 1
        /\ token'[pairs + 1].google = (req[p].op = "google")
        /\ \A t \in 1 .. pairs : token'[t].google = token[t].google
        /\ req'[p].at = "issued" /\ \A q \in Pages \ {p} : req'[q] = req[q]
    <3>1. pairs' = pairs + 1
      BY <2>1, <1>t, AddPairFacts
    <3> QED
      BY <2>1, <3>1, <1>t, AddPairFacts, PairFacts DEF Becomes
  <2>4. HoldersAreActive'
    <3> SUFFICES ASSUME NEW t \in 1 .. pairs + 1, ~token'[t].google
                 PROVE  user.status = "active"
      BY <2>1, <2>3 DEF HoldersAreActive
    <3>1. CASE t \in 1 .. pairs
      BY <2>3, <3>1, <1>t DEF ActiveInv, HoldersAreActive
    <3>2. CASE t = pairs + 1
      BY <2>2, <2>3, <3>2
    <3> QED
      BY <2>3, <3>1, <3>2
  <2> QED
    BY <2>1, <2>3, <2>4, <1>t DEF ActiveInv
<1>27. ASSUME NEW p \in Pages, Keep(p) PROVE ActiveInv'
  <2>1. Vouches(p)
    BY <1>27, <1>t, DoneMoves DEF Keep, rows, Becomes, Vouches, Vouched
  <2> QED
    BY <2>1, <1>t, VouchesKeeps
<1>28. ASSUME NEW p \in Pages, GiveUp(p) PROVE ActiveInv'
  <2>1. Vouches(p)
    BY <1>28, <1>t, DoneMoves DEF GiveUp, rows, Becomes, Vouches, Vouched
  <2> QED
    BY <2>1, <1>t, VouchesKeeps
<1>29. ASSUME NEW p \in Pages, Unheard(p) PROVE ActiveInv'
  <2>1. Vouches(p)
    BY <1>29, <1>t, DoneMoves DEF Unheard, rows, browser, Becomes, Vouches, Vouched
  <2> QED
    BY <2>1, <1>t, VouchesKeeps
<1>30. ASSUME NEW p \in Pages, Breaks(p) PROVE ActiveInv'
  <2>1. Vouches(p)
    BY <1>30, <1>t, FailMoves DEF Breaks, rows, Becomes, Vouches, Vouched
  <2> QED
    BY <2>1, <1>t, VouchesKeeps
<1>31. ASSUME NEW p \in Pages, NEW q \in Pages, Reload(p, q) PROVE ActiveInv'
  <2>1. UNCHANGED <<pairs, token, user>>
        /\ \A s \in Pages : req'[s] = req[s] \/ req'[s] = Idle
    BY <1>31, <1>t DEF Reload, rows, ReqType
  <2> QED
    BY <2>1, <1>t, IdleFacts DEF ActiveInv, HoldersAreActive
<1>32. CASE UNCHANGED vars
  BY <1>32, <1>t DEF vars, ActiveInv, HoldersAreActive
<1> QED
  BY <1>1, <1>2, <1>3, <1>4, <1>5, <1>6, <1>7, <1>8, <1>9, <1>10, <1>11, <1>12,
     <1>13, <1>14, <1>15, <1>16, <1>17, <1>18, <1>19, <1>20, <1>21, <1>22, <1>23,
     <1>24, <1>25, <1>26, <1>27, <1>28, <1>29, <1>30, <1>31, <1>32
  DEF Next, Call, Handle, Answer

-----------------------------------------------------------------------------
\* The inductive invariant.
THEOREM AccountsInvariant == Spec => []IInv
<1>1. IInv /\ [Next]_vars => IInv'
  BY RowTypesStep, PairTypesStep, ReqTypeStep, TreeStep, TokenStep, RecoveryStep,
     ActiveStep, RotationStep, StoredStep
  DEF IInv
<1> QED
  BY InitIInv, <1>1, PTL DEF Spec

\* The rows, the keys and the browser's storage keep their values.
THEOREM AccountsTypes == Spec => []TypeOK
<1>1. IInv => TypeOK
  BY DEF IInv, RowTypes, PairTypes, Row, UsesType, PageType, ReqType, CallSet, TypeOK
<1> QED
  BY <1>1, AccountsInvariant, PTL

\* Only refreshes that had read a token before it was revoked get a pair for it again,
\* and no page gets in twice by one recovery code.
THEOREM SpentOnce == Spec => []SpentOnceUnlessRacing
<1>1. IInv => SpentOnceUnlessRacing
  BY DEF IInv, RotationInv, RecoveryInv, SpentOnceUnlessRacing
<1> QED
  BY <1>1, AccountsInvariant, PTL

\* The token in localStorage is spent only while, or because, the page that spent it
\* has not dealt with the answer.
THEOREM StoredUsable == Spec => []StoredTokenNotSpent
<1>1. IInv => StoredTokenNotSpent
  BY DEF IInv
<1> QED
  BY <1>1, AccountsInvariant, PTL

\* Whoever holds tokens, Google sign-in aside, has an active account.
THEOREM HoldersActive == Spec => []HoldersAreActive
<1>1. IInv => HoldersAreActive
  BY DEF IInv, ActiveInv
<1> QED
  BY <1>1, AccountsInvariant, PTL
===============================================================================
