-------------------------- MODULE GuestChatsProofs --------------------------
(***************************************************************************)
(* Proofs about GuestChats, for every set of tabs, users and chats and for *)
(* every allowance.                                                        *)
(*                                                                         *)
(* The inductive invariant has four parts besides the types: what a        *)
(* request holds (CallInv), the counters of the guests' messages           *)
(* (CounterInv), the claims that are about to be written (ClaimInv), and   *)
(* what the browser's storage holds as long as nothing went amiss          *)
(* (SavedInv).                                                             *)
(***************************************************************************)
EXTENDS GuestChats, TLAPS

-----------------------------------------------------------------------------
(* The inductive invariant *)

Merging == {"merge", "commit", "merged"}

\* A call is about a chat that has been created; a claim is made with a token.
CallInv ==
  \A t \in Tabs :
    /\ at[t] # "idle" => chat[t] \in Chats
    /\ at[t] # "idle" => owner[chat[t]] # Absent
    /\ at[t] \in Merging => token[t] \in Users

\* The gateway has increased the counter of c and has not made it expire yet.
AtExpire(t, c) == at[t] = "expire" /\ chat[t] = c

\* A counter that is not zero has one that looks after it: the expiry, the one
\* request that is about to set it, or a crash.  The message of that request is
\* counted and not let through yet.
CounterInvOf(c) ==
  /\ passed[c] <= count[c]
  /\ passed[c] <= AnonMessageLimit
  /\ \A t \in Tabs : AtExpire(t, c) =>
       /\ passed[c] + 1 <= count[c]
       /\ passed[c] + 1 <= AnonMessageLimit
       /\ c \notin ttl \cup crashed
       /\ \A q \in Tabs : AtExpire(q, c) => q = t
  /\ c \in ttl => c \notin crashed
  /\ c \in ttl \cup crashed => count[c] # 0
  /\ count[c] # 0 => \/ c \in ttl \cup crashed
                     \/ \E t \in Tabs : AtExpire(t, c)

CounterInv == \A c \in Chats : CounterInvOf(c)

\* A claim that is about to be written finds the chat without an owner, unless
\* another claim has raced it.
ClaimInv ==
  \A t \in Tabs : at[t] = "commit" /\ chat[t] \notin raced =>
    /\ owner[chat[t]] = Guest
    /\ \A q \in Tabs : at[q] = "commit" /\ chat[q] = chat[t] => q = t

\* Without a mishap one tab at a time writes the browser's chat id.
AloneInv == ~mishap => \A t, q \in Writing : t = q

\* Until then no guest starts a chat while the browser keeps one, a claim is about
\* the chat that is kept, and it has its owner before the id is forgotten.
SavedInv ==
  /\ \A c \in kept : owner[c] # Absent
  /\ \A t \in Tabs : at[t] = "merged" => owner[chat[t]] # Guest
  /\ ~mishap =>
       /\ \A t \in Tabs : at[t] = "created" /\ token[t] = None => anonId = None
       /\ \A t \in Tabs : at[t] \in Merging => anonId = chat[t]
       /\ \A c \in kept : owner[c] = Guest => anonId = c

\* The id that the browser keeps is one it has kept.
IdInv == anonId # None => anonId \in kept

IInv == TypeOK /\ CallInv /\ CounterInv /\ ClaimInv /\ AloneInv /\ SavedInv /\ IdInv

-----------------------------------------------------------------------------
(* Every step keeps it *)

\* A chat started from the shell: its row was absent, so no other call, claim or kept id
\* is about it.
LEMMA KickoffShellKeeps ==
  ASSUME IInv, NEW t \in Tabs, KickoffShell(t)
  PROVE  IInv'
<1>0. PICK c \in Chats : Create(t, c)
  BY DEF KickoffShell
<1>1. TypeOK'
  BY NamesAssumption, LimitAssumption
  DEF IInv, TypeOK, CallInv, Places, Merging, KickoffShell, Create, Overlap,
      Asking, Begin, counterVars, Writing
<1>2. CallInv'
  BY NamesAssumption
  DEF IInv, TypeOK, CallInv, Places, Merging, KickoffShell, Create, Overlap,
      Asking, Begin, counterVars, Writing
<1>3. CounterInv'
  BY NamesAssumption, LimitAssumption
  DEF IInv, TypeOK, CounterInv, CallInv, Places, CounterInvOf, Merging,
      AtExpire, KickoffShell, Create, Overlap, Asking, Begin, counterVars,
      Writing
<1>4. ClaimInv'
  BY NamesAssumption
  DEF IInv, TypeOK, CallInv, ClaimInv, Places, Merging, KickoffShell, Create,
      Overlap, Asking, Begin, counterVars, Writing
<1>5. AloneInv'
  <2>1. Writing' = Writing \cup {t}
    BY <1>0 DEF IInv, TypeOK, Create, Begin, Writing
  <2>2. mishap' \/ (~mishap /\ Writing = {})
    BY DEF IInv, TypeOK, KickoffShell, Overlap
  <2> QED  BY <2>1, <2>2 DEF IInv, AloneInv
<1>6. SavedInv'
  BY NamesAssumption
  DEF IInv, TypeOK, CallInv, AloneInv, SavedInv, IdInv, Places, Merging,
      KickoffShell, Create, Overlap, Asking, Begin, counterVars, Writing
<1>7. IdInv'
  BY NamesAssumption
  DEF IInv, TypeOK, IdInv, CallInv, Places, Merging, KickoffShell, Create,
      Overlap, Asking, Begin, counterVars, Writing
<1> QED  BY <1>1, <1>2, <1>3, <1>4, <1>5, <1>6, <1>7 DEF IInv

\* A chat started from the home page, which a guest with a chat may do too: a mishap.
LEMMA KickoffHomeKeeps ==
  ASSUME IInv, NEW t \in Tabs, KickoffHome(t)
  PROVE  IInv'
<1>0. PICK c \in Chats : Create(t, c)
  BY DEF KickoffHome
<1>1. TypeOK'
  BY NamesAssumption, LimitAssumption
  DEF IInv, TypeOK, CallInv, Places, Merging, KickoffHome, Create, Overlap,
      Asking, Begin, counterVars, Writing
<1>2. CallInv'
  BY NamesAssumption
  DEF IInv, TypeOK, CallInv, Places, Merging, KickoffHome, Create, Overlap,
      Asking, Begin, counterVars, Writing
<1>3. CounterInv'
  BY NamesAssumption, LimitAssumption
  DEF IInv, TypeOK, CounterInv, CallInv, Places, CounterInvOf, Merging,
      AtExpire, KickoffHome, Create, Overlap, Asking, Begin, counterVars,
      Writing
<1>4. ClaimInv'
  BY NamesAssumption
  DEF IInv, TypeOK, CallInv, ClaimInv, Places, Merging, KickoffHome, Create,
      Overlap, Asking, Begin, counterVars, Writing
<1>5. AloneInv'
  <2>1. Writing' = Writing \cup {t}
    BY <1>0 DEF IInv, TypeOK, Create, Begin, Writing
  <2>2. mishap' \/ (~mishap /\ Writing = {})
    BY DEF IInv, TypeOK, KickoffHome, Overlap
  <2> QED  BY <2>1, <2>2 DEF IInv, AloneInv
<1>6. SavedInv'
  <2>1. /\ at' = [at EXCEPT ![t] = "created"] /\ chat' = [chat EXCEPT ![t] = c]
        /\ owner[c] = Absent /\ at[t] = "idle" /\ UNCHANGED <<anonId, token, kept>>
        /\ \A d \in Chats : d # c => owner'[d] = owner[d]
    BY <1>0 DEF IInv, TypeOK, Create, Begin
  <2>2. /\ \A d \in kept' : owner'[d] # Absent
        /\ \A d \in kept' : d # c
    BY <2>1 DEF IInv, TypeOK, SavedInv
  <2>3. \A q \in Tabs : at'[q] = "merged" => owner'[chat'[q]] # Guest
    BY <2>1 DEF IInv, TypeOK, CallInv, SavedInv
  <2>4. ASSUME ~mishap' PROVE ~mishap /\ (token[t] # None \/ anonId = None)
    BY <2>4 DEF IInv, TypeOK, KickoffHome
  <2>5. ASSUME ~mishap', NEW q \in Tabs
        PROVE  /\ at'[q] = "created" /\ token'[q] = None => anonId' = None
               /\ at'[q] \in Merging => anonId' = chat'[q]
    BY <2>1, <2>4, <2>5 DEF IInv, TypeOK, SavedInv, Merging
  <2>6. ASSUME ~mishap', NEW d \in kept', owner'[d] = Guest PROVE anonId' = d
    BY <2>1, <2>2, <2>4, <2>6 DEF IInv, TypeOK, SavedInv
  <2> QED  BY <2>2, <2>3, <2>5, <2>6 DEF SavedInv
<1>7. IdInv'
  BY NamesAssumption
  DEF IInv, TypeOK, IdInv, CallInv, Places, Merging, KickoffHome, Create,
      Overlap, Asking, Begin, counterVars, Writing
<1> QED  BY <1>1, <1>2, <1>3, <1>4, <1>5, <1>6, <1>7 DEF IInv

\* The new id is kept; without a mishap no other one was.
LEMMA CreatedKeeps ==
  ASSUME IInv, NEW t \in Tabs, Created(t)
  PROVE  IInv'
<1>1. TypeOK'
  BY NamesAssumption, LimitAssumption
  DEF IInv, TypeOK, CallInv, Places, Merging, Created, Finish, counterVars,
      Begin
<1>2. CallInv'
  BY NamesAssumption
  DEF IInv, TypeOK, CallInv, Places, Merging, Created, Finish, counterVars,
      Begin
<1>3. CounterInv'
  BY NamesAssumption, LimitAssumption
  DEF IInv, TypeOK, CounterInv, CallInv, Places, CounterInvOf, Merging,
      AtExpire, Created, Finish, counterVars, Begin
<1>4. ClaimInv'
  BY NamesAssumption
  DEF IInv, TypeOK, CallInv, ClaimInv, Places, Merging, Created, Finish,
      counterVars, Begin
<1>5. AloneInv'
  BY NamesAssumption
  DEF IInv, TypeOK, AloneInv, Places, Writing, Created, Finish, counterVars,
      Begin
<1>6. SavedInv'
  BY NamesAssumption
  DEF IInv, TypeOK, CallInv, AloneInv, SavedInv, IdInv, Places, Merging,
      Writing, Created, Finish, counterVars, Begin
<1>7. IdInv'
  BY NamesAssumption
  DEF IInv, TypeOK, IdInv, CallInv, Places, Merging, Created, Finish,
      counterVars, Begin
<1> QED  BY <1>1, <1>2, <1>3, <1>4, <1>5, <1>6, <1>7 DEF IInv

\* Nothing but the call's end.
LEMMA CreatedUnheardKeeps ==
  ASSUME IInv, NEW t \in Tabs, CreatedUnheard(t)
  PROVE  IInv'
<1>1. TypeOK'
  BY NamesAssumption, LimitAssumption
  DEF IInv, TypeOK, CallInv, Places, Merging, CreatedUnheard, Finish,
      counterVars, Begin
<1>2. CallInv'
  BY NamesAssumption
  DEF IInv, TypeOK, CallInv, Places, Merging, CreatedUnheard, Finish,
      counterVars, Begin
<1>3. CounterInv'
  BY NamesAssumption, LimitAssumption
  DEF IInv, TypeOK, CounterInv, CallInv, Places, CounterInvOf, Merging,
      AtExpire, CreatedUnheard, Finish, counterVars, Begin
<1>4. ClaimInv'
  BY NamesAssumption
  DEF IInv, TypeOK, CallInv, ClaimInv, Places, Merging, CreatedUnheard,
      Finish, counterVars, Begin
<1>5. AloneInv'
  BY NamesAssumption
  DEF IInv, TypeOK, AloneInv, Places, Writing, CreatedUnheard, Finish,
      counterVars, Begin
<1>6. SavedInv'
  BY NamesAssumption
  DEF IInv, TypeOK, CallInv, AloneInv, SavedInv, IdInv, Places, Merging,
      Writing, CreatedUnheard, Finish, counterVars, Begin
<1>7. IdInv'
  BY NamesAssumption
  DEF IInv, TypeOK, IdInv, CallInv, Places, Merging, CreatedUnheard, Finish,
      counterVars, Begin
<1> QED  BY <1>1, <1>2, <1>3, <1>4, <1>5, <1>6, <1>7 DEF IInv

\* The claim of the id that is kept begins, with a token.
LEMMA SignInKeeps ==
  ASSUME IInv, NEW t \in Tabs, NEW u \in Users, SignIn(t, u)
  PROVE  IInv'
<1>0. \/ anonId = None /\ UNCHANGED <<at, chat, mishap>>
     \/ /\ anonId \in Chats
        /\ at' = [at EXCEPT ![t] = "merge"] /\ chat' = [chat EXCEPT ![t] = anonId]
        /\ mishap' = (mishap \/ Overlap)
  BY NamesAssumption DEF SignIn, Begin, IInv, TypeOK
<1>1. TypeOK'
  <2>1. at' \in [Tabs -> Places] /\ chat' \in [Tabs -> Chats \cup {None}]
    BY <1>0 DEF IInv, TypeOK, Places
  <2>2. mishap' \in BOOLEAN
    BY <1>0 DEF IInv, TypeOK, Overlap
  <2> QED
    BY <2>1, <2>2 DEF SignIn, IInv, TypeOK, counterVars
<1>2. CallInv'
  <2>1. \A q \in Tabs : token[q] \in Users => token'[q] \in Users
    BY DEF SignIn, IInv, TypeOK
  <2>2. token'[t] \in Users /\ UNCHANGED owner
    BY DEF SignIn, IInv, TypeOK
  <2>3. anonId # None => owner[anonId] # Absent
    BY DEF IInv, IdInv, SavedInv
  <2>4. CASE anonId = None /\ UNCHANGED <<at, chat, mishap>>
    BY <2>1, <2>2, <2>4 DEF IInv, CallInv
  <2>5. CASE /\ anonId \in Chats
             /\ at' = [at EXCEPT ![t] = "merge"] /\ chat' = [chat EXCEPT ![t] = anonId]
    BY <2>1, <2>2, <2>3, <2>5, NamesAssumption DEF IInv, TypeOK, CallInv, Merging
  <2> QED  BY <1>0, <2>4, <2>5
<1>3. CounterInv'
  BY NamesAssumption, LimitAssumption
  DEF IInv, TypeOK, CounterInv, CallInv, Places, CounterInvOf, Merging,
      AtExpire, SignIn, Begin, Overlap, counterVars, Writing
<1>4. ClaimInv'
  BY NamesAssumption
  DEF IInv, TypeOK, CallInv, ClaimInv, Places, Merging, SignIn, Begin,
      Overlap, counterVars, Writing
<1>5. AloneInv'
  <2>1. CASE anonId = None /\ UNCHANGED <<at, chat, mishap>>
    BY <2>1 DEF IInv, AloneInv, Writing
  <2>2. CASE at' = [at EXCEPT ![t] = "merge"] /\ mishap' = (mishap \/ Overlap)
    <3>1. Writing' = Writing \cup {t}
      BY <2>2 DEF IInv, TypeOK, Writing
    <3> QED  BY <2>2, <3>1 DEF IInv, AloneInv, Overlap
  <2> QED  BY <1>0, <2>1, <2>2
<1>6. SavedInv'
  BY NamesAssumption
  DEF IInv, TypeOK, CallInv, AloneInv, SavedInv, IdInv, Places, Merging,
      SignIn, Begin, Overlap, counterVars, Writing
<1>7. IdInv'
  BY NamesAssumption
  DEF IInv, TypeOK, IdInv, CallInv, Places, Merging, SignIn, Begin, Overlap,
      counterVars, Writing
<1> QED  BY <1>1, <1>2, <1>3, <1>4, <1>5, <1>6, <1>7 DEF IInv

\* Whoever finds the chat without an owner may write, and a second one makes it raced.
LEMMA MergeLoadKeeps ==
  ASSUME IInv, NEW t \in Tabs, MergeLoad(t)
  PROVE  IInv'
<1>1. TypeOK'
  BY NamesAssumption, LimitAssumption
  DEF IInv, TypeOK, CallInv, Places, Merging, MergeLoad, Asking, Goto, Finish,
      counterVars, Begin
<1>2. CallInv'
  BY NamesAssumption
  DEF IInv, TypeOK, CallInv, Places, Merging, MergeLoad, Asking, Goto, Finish,
      counterVars, Begin
<1>3. CounterInv'
  BY NamesAssumption, LimitAssumption
  DEF IInv, TypeOK, CounterInv, CallInv, Places, CounterInvOf, Merging,
      AtExpire, MergeLoad, Asking, Goto, Finish, counterVars, Begin
<1>4. ClaimInv'
  BY NamesAssumption
  DEF IInv, TypeOK, CallInv, ClaimInv, Places, Merging, MergeLoad, Asking,
      Goto, Finish, counterVars, Begin
<1>5. AloneInv'
  BY NamesAssumption
  DEF IInv, TypeOK, AloneInv, Places, Writing, MergeLoad, Asking, Goto,
      Finish, counterVars, Begin
<1>6. SavedInv'
  <2>1. /\ at[t] = "merge" /\ UNCHANGED <<owner, anonId, token, kept, mishap>>
        /\ \A q \in Tabs \ {t} : at'[q] = at[q] /\ chat'[q] = chat[q]
    BY DEF MergeLoad, Goto, Finish, Begin, IInv, TypeOK
  <2>2. \/ at'[t] = "idle"
        \/ at'[t] = "commit" /\ chat'[t] = chat[t]
        \/ /\ at'[t] = "merged" /\ chat'[t] = chat[t]
           /\ Asking(t) # None /\ owner[chat[t]] = Asking(t)
    BY DEF MergeLoad, Goto, Finish, Begin, IInv, TypeOK
  <2>3. at'[t] = "merged" => owner[chat[t]] # Guest
    BY <2>2, NamesAssumption DEF Asking, IInv, TypeOK
  <2> QED  BY <2>1, <2>2, <2>3 DEF IInv, SavedInv, Merging
<1>7. IdInv'
  BY NamesAssumption
  DEF IInv, TypeOK, IdInv, CallInv, Places, Merging, MergeLoad, Asking, Goto,
      Finish, counterVars, Begin
<1> QED  BY <1>1, <1>2, <1>3, <1>4, <1>5, <1>6, <1>7 DEF IInv

\* The chat has an owner now; another claim about to write it is a raced one.
LEMMA MergeCommitKeeps ==
  ASSUME IInv, NEW t \in Tabs, MergeCommit(t)
  PROVE  IInv'
<1>1. TypeOK'
  BY NamesAssumption, LimitAssumption
  DEF IInv, TypeOK, CallInv, Places, Merging, MergeCommit, There, Goto,
      Finish, counterVars, Begin
<1>2. CallInv'
  BY NamesAssumption
  DEF IInv, TypeOK, CallInv, Places, Merging, MergeCommit, There, Goto,
      Finish, counterVars, Begin
<1>3. CounterInv'
  BY NamesAssumption, LimitAssumption
  DEF IInv, TypeOK, CounterInv, CallInv, Places, CounterInvOf, Merging,
      AtExpire, MergeCommit, There, Goto, Finish, counterVars, Begin
<1>4. ClaimInv'
  BY NamesAssumption
  DEF IInv, TypeOK, CallInv, ClaimInv, Places, Merging, MergeCommit, There,
      Goto, Finish, counterVars, Begin
<1>5. AloneInv'
  BY NamesAssumption
  DEF IInv, TypeOK, AloneInv, Places, Writing, MergeCommit, There, Goto,
      Finish, counterVars, Begin
<1>6. SavedInv'
  BY NamesAssumption
  DEF IInv, TypeOK, CallInv, AloneInv, SavedInv, IdInv, Places, Merging,
      Writing, MergeCommit, There, Goto, Finish, counterVars, Begin
<1>7. IdInv'
  BY NamesAssumption
  DEF IInv, TypeOK, IdInv, CallInv, Places, Merging, MergeCommit, There, Goto,
      Finish, counterVars, Begin
<1> QED  BY <1>1, <1>2, <1>3, <1>4, <1>5, <1>6, <1>7 DEF IInv

\* The id that is forgotten names a chat with an owner.
LEMMA MergedKeeps ==
  ASSUME IInv, NEW t \in Tabs, Merged(t)
  PROVE  IInv'
<1>1. TypeOK'
  BY NamesAssumption, LimitAssumption
  DEF IInv, TypeOK, CallInv, Places, Merging, Merged, Finish, counterVars,
      Begin
<1>2. CallInv'
  BY NamesAssumption
  DEF IInv, TypeOK, CallInv, Places, Merging, Merged, Finish, counterVars,
      Begin
<1>3. CounterInv'
  BY NamesAssumption, LimitAssumption
  DEF IInv, TypeOK, CounterInv, CallInv, Places, CounterInvOf, Merging,
      AtExpire, Merged, Finish, counterVars, Begin
<1>4. ClaimInv'
  BY NamesAssumption
  DEF IInv, TypeOK, CallInv, ClaimInv, Places, Merging, Merged, Finish,
      counterVars, Begin
<1>5. AloneInv'
  BY NamesAssumption
  DEF IInv, TypeOK, AloneInv, Places, Writing, Merged, Finish, counterVars,
      Begin
<1>6. SavedInv'
  BY NamesAssumption
  DEF IInv, TypeOK, CallInv, AloneInv, SavedInv, IdInv, Places, Merging,
      Writing, Merged, Finish, counterVars, Begin
<1>7. IdInv'
  BY NamesAssumption
  DEF IInv, TypeOK, IdInv, CallInv, Places, Merging, Merged, Finish,
      counterVars, Begin
<1> QED  BY <1>1, <1>2, <1>3, <1>4, <1>5, <1>6, <1>7 DEF IInv

\* Nothing but the call's end.
LEMMA MergeUnheardKeeps ==
  ASSUME IInv, NEW t \in Tabs, MergeUnheard(t)
  PROVE  IInv'
<1>1. TypeOK'
  BY NamesAssumption, LimitAssumption
  DEF IInv, TypeOK, CallInv, Places, Merging, MergeUnheard, Finish,
      counterVars, Begin
<1>2. CallInv'
  BY NamesAssumption
  DEF IInv, TypeOK, CallInv, Places, Merging, MergeUnheard, Finish,
      counterVars, Begin
<1>3. CounterInv'
  BY NamesAssumption, LimitAssumption
  DEF IInv, TypeOK, CounterInv, CallInv, Places, CounterInvOf, Merging,
      AtExpire, MergeUnheard, Finish, counterVars, Begin
<1>4. ClaimInv'
  BY NamesAssumption
  DEF IInv, TypeOK, CallInv, ClaimInv, Places, Merging, MergeUnheard, Finish,
      counterVars, Begin
<1>5. AloneInv'
  BY NamesAssumption
  DEF IInv, TypeOK, AloneInv, Places, Writing, MergeUnheard, Finish,
      counterVars, Begin
<1>6. SavedInv'
  BY NamesAssumption
  DEF IInv, TypeOK, CallInv, AloneInv, SavedInv, IdInv, Places, Merging,
      Writing, MergeUnheard, Finish, counterVars, Begin
<1>7. IdInv'
  BY NamesAssumption
  DEF IInv, TypeOK, IdInv, CallInv, Places, Merging, MergeUnheard, Finish,
      counterVars, Begin
<1> QED  BY <1>1, <1>2, <1>3, <1>4, <1>5, <1>6, <1>7 DEF IInv

\* Only tabs that do nothing sign out, so no claim loses its token.
LEMMA LogoutKeeps ==
  ASSUME IInv, NEW t \in Tabs, Logout(t)
  PROVE  IInv'
<1>1. TypeOK'
  BY NamesAssumption, LimitAssumption
  DEF IInv, TypeOK, CallInv, Places, Merging, Logout, counterVars
<1>2. CallInv'
  BY NamesAssumption
  DEF IInv, TypeOK, CallInv, Places, Merging, Logout, counterVars
<1>3. CounterInv'
  BY NamesAssumption, LimitAssumption
  DEF IInv, TypeOK, CounterInv, CallInv, Places, CounterInvOf, Merging,
      AtExpire, Logout, counterVars
<1>4. ClaimInv'
  BY NamesAssumption
  DEF IInv, TypeOK, CallInv, ClaimInv, Places, Merging, Logout, counterVars
<1>5. AloneInv'
  BY NamesAssumption
  DEF IInv, TypeOK, AloneInv, Places, Writing, Logout, counterVars
<1>6. SavedInv'
  BY NamesAssumption
  DEF IInv, TypeOK, CallInv, AloneInv, SavedInv, IdInv, Places, Merging,
      Writing, Logout, counterVars
<1>7. IdInv'
  BY NamesAssumption
  DEF IInv, TypeOK, IdInv, CallInv, Places, Merging, Logout, counterVars
<1> QED  BY <1>1, <1>2, <1>3, <1>4, <1>5, <1>6, <1>7 DEF IInv

\* No part of the invariant is about fresh tokens.
LEMMA ExpireKeeps ==
  ASSUME IInv, NEW t \in Tabs, Expire(t)
  PROVE  IInv'
<1>1. TypeOK'
  BY NamesAssumption, LimitAssumption
  DEF IInv, TypeOK, CallInv, Places, Merging, Expire, counterVars
<1>2. CallInv'
  BY NamesAssumption
  DEF IInv, TypeOK, CallInv, Places, Merging, Expire, counterVars
<1>3. CounterInv'
  BY NamesAssumption, LimitAssumption
  DEF IInv, TypeOK, CounterInv, CallInv, Places, CounterInvOf, Merging,
      AtExpire, Expire, counterVars
<1>4. ClaimInv'
  BY NamesAssumption
  DEF IInv, TypeOK, CallInv, ClaimInv, Places, Merging, Expire, counterVars
<1>5. AloneInv'
  BY NamesAssumption
  DEF IInv, TypeOK, AloneInv, Places, Writing, Expire, counterVars
<1>6. SavedInv'
  BY NamesAssumption
  DEF IInv, TypeOK, CallInv, AloneInv, SavedInv, IdInv, Places, Merging,
      Writing, Expire, counterVars
<1>7. IdInv'
  BY NamesAssumption
  DEF IInv, TypeOK, IdInv, CallInv, Places, Merging, Expire, counterVars
<1> QED  BY <1>1, <1>2, <1>3, <1>4, <1>5, <1>6, <1>7 DEF IInv

\* No part of the invariant is about fresh tokens.
LEMMA RenewKeeps ==
  ASSUME IInv, NEW t \in Tabs, Renew(t)
  PROVE  IInv'
<1>1. TypeOK'
  BY NamesAssumption, LimitAssumption
  DEF IInv, TypeOK, CallInv, Places, Merging, Renew, counterVars
<1>2. CallInv'
  BY NamesAssumption
  DEF IInv, TypeOK, CallInv, Places, Merging, Renew, counterVars
<1>3. CounterInv'
  BY NamesAssumption, LimitAssumption
  DEF IInv, TypeOK, CounterInv, CallInv, Places, CounterInvOf, Merging,
      AtExpire, Renew, counterVars
<1>4. ClaimInv'
  BY NamesAssumption
  DEF IInv, TypeOK, CallInv, ClaimInv, Places, Merging, Renew, counterVars
<1>5. AloneInv'
  BY NamesAssumption
  DEF IInv, TypeOK, AloneInv, Places, Writing, Renew, counterVars
<1>6. SavedInv'
  BY NamesAssumption
  DEF IInv, TypeOK, CallInv, AloneInv, SavedInv, IdInv, Places, Merging,
      Writing, Renew, counterVars
<1>7. IdInv'
  BY NamesAssumption
  DEF IInv, TypeOK, IdInv, CallInv, Places, Merging, Renew, counterVars
<1> QED  BY <1>1, <1>2, <1>3, <1>4, <1>5, <1>6, <1>7 DEF IInv

\* The message is let through, refused, or the one that has to set the expiry: then the
\* counter was zero, so nothing looked after it.
LEMMA PostGatewayKeeps ==
  ASSUME IInv, NEW t \in Tabs, NEW c \in Chats, PostGateway(t, c)
  PROVE  IInv'
<1>1. TypeOK'
  BY NamesAssumption, LimitAssumption
  DEF IInv, TypeOK, CallInv, Places, Merging, PostGateway, Begin, Within,
      LetThrough
<1>2. CallInv'
  BY NamesAssumption
  DEF IInv, TypeOK, CallInv, Places, Merging, PostGateway, Begin, Within,
      LetThrough
<1>3. CounterInv'
  BY NamesAssumption, LimitAssumption
  DEF IInv, TypeOK, CounterInv, CallInv, Places, CounterInvOf, Merging,
      AtExpire, PostGateway, Begin, Within, LetThrough
<1>4. ClaimInv'
  BY NamesAssumption
  DEF IInv, TypeOK, CallInv, ClaimInv, Places, Merging, PostGateway, Begin,
      Within, LetThrough
<1>5. AloneInv'
  BY NamesAssumption
  DEF IInv, TypeOK, AloneInv, Places, Writing, PostGateway, Begin, Within,
      LetThrough
<1>6. SavedInv'
  BY NamesAssumption
  DEF IInv, TypeOK, CallInv, AloneInv, SavedInv, IdInv, Places, Merging,
      Writing, PostGateway, Begin, Within, LetThrough
<1>7. IdInv'
  BY NamesAssumption
  DEF IInv, TypeOK, IdInv, CallInv, Places, Merging, PostGateway, Begin,
      Within, LetThrough
<1> QED  BY <1>1, <1>2, <1>3, <1>4, <1>5, <1>6, <1>7 DEF IInv

\* The one pending request hands its counter over to the expiry.
LEMMA PostExpireKeeps ==
  ASSUME IInv, NEW t \in Tabs, PostExpire(t)
  PROVE  IInv'
<1>1. TypeOK'
  BY NamesAssumption, LimitAssumption
  DEF IInv, TypeOK, CallInv, Places, Merging, PostExpire, LetThrough, Goto
<1>2. CallInv'
  BY NamesAssumption
  DEF IInv, TypeOK, CallInv, Places, Merging, PostExpire, LetThrough, Goto
<1>3. CounterInv'
  BY NamesAssumption, LimitAssumption
  DEF IInv, TypeOK, CounterInv, CallInv, Places, CounterInvOf, Merging,
      AtExpire, PostExpire, LetThrough, Goto
<1>4. ClaimInv'
  BY NamesAssumption
  DEF IInv, TypeOK, CallInv, ClaimInv, Places, Merging, PostExpire,
      LetThrough, Goto
<1>5. AloneInv'
  BY NamesAssumption
  DEF IInv, TypeOK, AloneInv, Places, Writing, PostExpire, LetThrough, Goto
<1>6. SavedInv'
  BY NamesAssumption
  DEF IInv, TypeOK, CallInv, AloneInv, SavedInv, IdInv, Places, Merging,
      Writing, PostExpire, LetThrough, Goto
<1>7. IdInv'
  BY NamesAssumption
  DEF IInv, TypeOK, IdInv, CallInv, Places, Merging, PostExpire, LetThrough,
      Goto
<1> QED  BY <1>1, <1>2, <1>3, <1>4, <1>5, <1>6, <1>7 DEF IInv

\* The one pending request leaves its counter behind.
LEMMA PostCrashKeeps ==
  ASSUME IInv, NEW t \in Tabs, PostCrash(t)
  PROVE  IInv'
<1>1. TypeOK'
  BY NamesAssumption, LimitAssumption
  DEF IInv, TypeOK, CallInv, Places, Merging, PostCrash, Finish, Begin
<1>2. CallInv'
  BY NamesAssumption
  DEF IInv, TypeOK, CallInv, Places, Merging, PostCrash, Finish, Begin
<1>3. CounterInv'
  BY NamesAssumption, LimitAssumption
  DEF IInv, TypeOK, CounterInv, CallInv, Places, CounterInvOf, Merging,
      AtExpire, PostCrash, Finish, Begin
<1>4. ClaimInv'
  BY NamesAssumption
  DEF IInv, TypeOK, CallInv, ClaimInv, Places, Merging, PostCrash, Finish,
      Begin
<1>5. AloneInv'
  BY NamesAssumption
  DEF IInv, TypeOK, AloneInv, Places, Writing, PostCrash, Finish, Begin
<1>6. SavedInv'
  BY NamesAssumption
  DEF IInv, TypeOK, CallInv, AloneInv, SavedInv, IdInv, Places, Merging,
      Writing, PostCrash, Finish, Begin
<1>7. IdInv'
  BY NamesAssumption
  DEF IInv, TypeOK, IdInv, CallInv, Places, Merging, PostCrash, Finish, Begin
<1> QED  BY <1>1, <1>2, <1>3, <1>4, <1>5, <1>6, <1>7 DEF IInv

\* The call goes on or ends.
LEMMA PostLoadKeeps ==
  ASSUME IInv, NEW t \in Tabs, PostLoad(t)
  PROVE  IInv'
<1>1. TypeOK'
  BY NamesAssumption, LimitAssumption
  DEF IInv, TypeOK, CallInv, Places, Merging, PostLoad, Asking, Goto, Finish,
      counterVars, Begin
<1>2. CallInv'
  BY NamesAssumption
  DEF IInv, TypeOK, CallInv, Places, Merging, PostLoad, Asking, Goto, Finish,
      counterVars, Begin
<1>3. CounterInv'
  BY NamesAssumption, LimitAssumption
  DEF IInv, TypeOK, CounterInv, CallInv, Places, CounterInvOf, Merging,
      AtExpire, PostLoad, Asking, Goto, Finish, counterVars, Begin
<1>4. ClaimInv'
  BY NamesAssumption
  DEF IInv, TypeOK, CallInv, ClaimInv, Places, Merging, PostLoad, Asking,
      Goto, Finish, counterVars, Begin
<1>5. AloneInv'
  BY NamesAssumption
  DEF IInv, TypeOK, AloneInv, Places, Writing, PostLoad, Asking, Goto, Finish,
      counterVars, Begin
<1>6. SavedInv'
  BY NamesAssumption
  DEF IInv, TypeOK, CallInv, AloneInv, SavedInv, IdInv, Places, Merging,
      Writing, PostLoad, Asking, Goto, Finish, counterVars, Begin
<1>7. IdInv'
  BY NamesAssumption
  DEF IInv, TypeOK, IdInv, CallInv, Places, Merging, PostLoad, Asking, Goto,
      Finish, counterVars, Begin
<1> QED  BY <1>1, <1>2, <1>3, <1>4, <1>5, <1>6, <1>7 DEF IInv

\* The call ends.
LEMMA PostSaveKeeps ==
  ASSUME IInv, NEW t \in Tabs, PostSave(t)
  PROVE  IInv'
<1>1. TypeOK'
  BY NamesAssumption, LimitAssumption
  DEF IInv, TypeOK, CallInv, Places, Merging, PostSave, Finish, counterVars,
      Begin
<1>2. CallInv'
  BY NamesAssumption
  DEF IInv, TypeOK, CallInv, Places, Merging, PostSave, Finish, counterVars,
      Begin
<1>3. CounterInv'
  BY NamesAssumption, LimitAssumption
  DEF IInv, TypeOK, CounterInv, CallInv, Places, CounterInvOf, Merging,
      AtExpire, PostSave, Finish, counterVars, Begin
<1>4. ClaimInv'
  BY NamesAssumption
  DEF IInv, TypeOK, CallInv, ClaimInv, Places, Merging, PostSave, Finish,
      counterVars, Begin
<1>5. AloneInv'
  BY NamesAssumption
  DEF IInv, TypeOK, AloneInv, Places, Writing, PostSave, Finish, counterVars,
      Begin
<1>6. SavedInv'
  BY NamesAssumption
  DEF IInv, TypeOK, CallInv, AloneInv, SavedInv, IdInv, Places, Merging,
      Writing, PostSave, Finish, counterVars, Begin
<1>7. IdInv'
  BY NamesAssumption
  DEF IInv, TypeOK, IdInv, CallInv, Places, Merging, PostSave, Finish,
      counterVars, Begin
<1> QED  BY <1>1, <1>2, <1>3, <1>4, <1>5, <1>6, <1>7 DEF IInv

\* A chat that is deleted had an owner, so no claim is about to be written for it unless
\* it was raced.
LEMMA DeleteKeeps ==
  ASSUME IInv, NEW t \in Tabs, NEW c \in Chats, Delete(t, c)
  PROVE  IInv'
<1>1. TypeOK'
  BY NamesAssumption, LimitAssumption
  DEF IInv, TypeOK, CallInv, Places, Merging, Delete, Asking, counterVars
<1>2. CallInv'
  BY NamesAssumption
  DEF IInv, TypeOK, CallInv, Places, Merging, Delete, Asking, counterVars
<1>3. CounterInv'
  BY NamesAssumption, LimitAssumption
  DEF IInv, TypeOK, CounterInv, CallInv, Places, CounterInvOf, Merging,
      AtExpire, Delete, Asking, counterVars
<1>4. ClaimInv'
  BY NamesAssumption
  DEF IInv, TypeOK, CallInv, ClaimInv, Places, Merging, Delete, Asking,
      counterVars
<1>5. AloneInv'
  BY NamesAssumption
  DEF IInv, TypeOK, AloneInv, Places, Writing, Delete, Asking, counterVars
<1>6. SavedInv'
  BY NamesAssumption
  DEF IInv, TypeOK, CallInv, AloneInv, SavedInv, IdInv, Places, Merging,
      Writing, Delete, Asking, counterVars
<1>7. IdInv'
  BY NamesAssumption
  DEF IInv, TypeOK, IdInv, CallInv, Places, Merging, Delete, Asking,
      counterVars
<1> QED  BY <1>1, <1>2, <1>3, <1>4, <1>5, <1>6, <1>7 DEF IInv

\* A counter with an expiry has no pending request.
LEMMA CounterExpiresKeeps ==
  ASSUME IInv, NEW c \in Chats, CounterExpires(c)
  PROVE  IInv'
<1>1. TypeOK'
  BY NamesAssumption, LimitAssumption
  DEF IInv, TypeOK, CallInv, Places, Merging, CounterExpires
<1>2. CallInv'
  BY NamesAssumption
  DEF IInv, TypeOK, CallInv, Places, Merging, CounterExpires
<1>3. CounterInv'
  BY NamesAssumption, LimitAssumption
  DEF IInv, TypeOK, CounterInv, CallInv, Places, CounterInvOf, Merging,
      AtExpire, CounterExpires
<1>4. ClaimInv'
  BY NamesAssumption
  DEF IInv, TypeOK, CallInv, ClaimInv, Places, Merging, CounterExpires
<1>5. AloneInv'
  BY NamesAssumption
  DEF IInv, TypeOK, AloneInv, Places, Writing, CounterExpires
<1>6. SavedInv'
  BY NamesAssumption
  DEF IInv, TypeOK, CallInv, AloneInv, SavedInv, IdInv, Places, Merging,
      Writing, CounterExpires
<1>7. IdInv'
  BY NamesAssumption
  DEF IInv, TypeOK, IdInv, CallInv, Places, Merging, CounterExpires
<1> QED  BY <1>1, <1>2, <1>3, <1>4, <1>5, <1>6, <1>7 DEF IInv

-----------------------------------------------------------------------------
(* The theorems *)

LEMMA InitHolds == Init => IInv
<1> SUFFICES ASSUME Init PROVE IInv
  OBVIOUS
<1>1. count \in [Chats -> 0 .. MaxPosts] /\ passed \in [Chats -> Nat]
  BY LimitAssumption DEF Init
<1>2. TypeOK
  BY <1>1 DEF Init, TypeOK, Places
<1>3. CounterInv
  BY LimitAssumption DEF Init, CounterInv, CounterInvOf, AtExpire
<1>4. CallInv /\ ClaimInv /\ IdInv
  BY DEF Init, CallInv, ClaimInv, IdInv, Merging
<1>5. AloneInv /\ SavedInv
  BY DEF Init, AloneInv, SavedInv, Writing, Merging
<1> QED  BY <1>2, <1>3, <1>4, <1>5 DEF IInv

LEMMA StutterKeeps == ASSUME IInv, UNCHANGED vars PROVE IInv'
BY DEF vars, counterVars, IInv, TypeOK, CallInv, CounterInv, CounterInvOf, AtExpire,
       ClaimInv, AloneInv, SavedInv, IdInv, Writing

LEMMA NextKeeps == ASSUME IInv, [Next]_vars PROVE IInv'
<1>1. CASE UNCHANGED vars
  BY <1>1, StutterKeeps
<1>2. ASSUME NEW t \in Tabs,
             KickoffShell(t) \/ KickoffHome(t) \/ Created(t) \/ CreatedUnheard(t)
      PROVE  IInv'
  BY <1>2, KickoffShellKeeps, KickoffHomeKeeps, CreatedKeeps, CreatedUnheardKeeps
<1>3. ASSUME NEW t \in Tabs, NEW u \in Users, SignIn(t, u) PROVE IInv'
  BY <1>3, SignInKeeps
<1>4. ASSUME NEW t \in Tabs,
             MergeLoad(t) \/ MergeCommit(t) \/ Merged(t) \/ MergeUnheard(t)
      PROVE  IInv'
  BY <1>4, MergeLoadKeeps, MergeCommitKeeps, MergedKeeps, MergeUnheardKeeps
<1>5. ASSUME NEW t \in Tabs, Logout(t) \/ Expire(t) \/ Renew(t) PROVE IInv'
  BY <1>5, LogoutKeeps, ExpireKeeps, RenewKeeps
<1>6. ASSUME NEW t \in Tabs,
             PostExpire(t) \/ PostCrash(t) \/ PostLoad(t) \/ PostSave(t)
      PROVE  IInv'
  BY <1>6, PostExpireKeeps, PostCrashKeeps, PostLoadKeeps, PostSaveKeeps
<1>7. ASSUME NEW t \in Tabs, NEW c \in Chats, PostGateway(t, c) \/ Delete(t, c)
      PROVE  IInv'
  BY <1>7, PostGatewayKeeps, DeleteKeeps
<1>8. ASSUME NEW c \in Chats, CounterExpires(c) PROVE IInv'
  BY <1>8, CounterExpiresKeeps
<1> QED
  BY <1>1, <1>2, <1>3, <1>4, <1>5, <1>6, <1>7, <1>8 DEF Next

\* The inductive invariant holds in every reachable state: what the gateway, the chat
\* service and the browser's tabs know about guests' chats and their counters.
THEOREM GuestsInvariant == Spec => []IInv
<1>1. IInv /\ [Next]_vars => IInv'
  BY NextKeeps
<1> QED  BY <1>1, InitHolds, PTL DEF Spec

\* Types and ranges of the rows, counters, tokens and calls.
THEOREM GuestsTypes == Spec => []TypeOK
<1>1. IInv => TypeOK
  BY DEF IInv
<1> QED  BY <1>1, GuestsInvariant, PTL

\* The gateway lets at most AnonMessageLimit messages of guests through per window, and
\* every counter has something that resets it unless the gateway stopped in between.
THEOREM AllowanceKept == Spec => []AllowanceHolds
<1>1. IInv => AllowanceHolds
  BY DEF IInv, CounterInv, CounterInvOf, AtExpire, AllowanceHolds
<1> QED  BY <1>1, GuestsInvariant, PTL

\* A chat with an owner keeps that owner, whoever claims or posts, unless two claims
\* read it before either was written.
THEOREM OwnerKept == Spec => OwnerStaysUnlessRacing
<1> DEFINE Stays == \A c \in Chats \ raced' :
                      owner[c] \in Users => owner'[c] \in {owner[c], Deleted}
<1>1. IInv /\ [Next]_vars => [Stays]_vars
  <2> SUFFICES ASSUME IInv, Next, NEW c \in Chats \ raced', owner[c] \in Users,
                      owner'[c] # owner[c]
               PROVE  owner'[c] = Deleted
    OBVIOUS
  <2>1. ASSUME NEW t \in Tabs, NEW d \in Chats, Create(t, d) PROVE FALSE
    BY <2>1, NamesAssumption DEF Create, IInv, TypeOK
  <2>2. ASSUME NEW t \in Tabs, MergeCommit(t) PROVE FALSE
    <3>1. chat[t] = c /\ at[t] = "commit" /\ c \notin raced
      BY <2>2 DEF MergeCommit, IInv, TypeOK
    <3> QED  BY <3>1, NamesAssumption DEF IInv, ClaimInv
  <2>3. ASSUME NEW t \in Tabs, NEW d \in Chats, Delete(t, d) PROVE owner'[c] = Deleted
    BY <2>3 DEF Delete, IInv, TypeOK
  <2>4. \/ \E t \in Tabs, d \in Chats : Create(t, d) \/ Delete(t, d)
        \/ \E t \in Tabs : MergeCommit(t)
    BY DEF Next, KickoffShell, KickoffHome, Created, CreatedUnheard, SignIn,
           MergeLoad, Merged, MergeUnheard, Logout, Expire, Renew, PostGateway,
           PostExpire, PostCrash, PostLoad, PostSave, CounterExpires
  <2> QED  BY <2>1, <2>2, <2>3, <2>4
<1> QED  BY <1>1, GuestsInvariant, PTL DEF Spec, OwnerStaysUnlessRacing

\* A chat whose id the browser has kept is found by that id until it is claimed, as
\* long as no guest starts a second chat and no two tabs start or claim at once.
THEOREM ThreadsSaved == Spec => []GuestThreadsAreSavedUnlessMishap
<1>1. IInv => GuestThreadsAreSavedUnlessMishap
  BY DEF IInv, SavedInv, GuestThreadsAreSavedUnlessMishap, GuestThreadsAreSaved
<1> QED  BY <1>1, GuestsInvariant, PTL

=============================================================================
