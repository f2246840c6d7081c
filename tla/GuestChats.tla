----------------------------- MODULE GuestChats -----------------------------
(***************************************************************************)
(* Chats without an account.  One browser with several tabs starts chats,  *)
(* posts through the gateway, signs in and claims the guest chat whose id  *)
(* it keeps in localStorage; the gateway counts the messages of guests     *)
(* in Redis and tells the chat service who is asking; the chat service     *)
(* checks the owner and writes the chats.                                  *)
(*                                                                         *)
(* The access token lies in sessionStorage, so each tab has its own.  A    *)
(* tab does one thing at a time.                                           *)
(***************************************************************************)
EXTENDS Integers

CONSTANTS
  Tabs, Users, Chats,
  AnonMessageLimit,   \* anon_message_limit
  MaxPosts,           \* bound: requests counted per chat and window
  None,               \* no user, no chat
  Guest,              \* the owner of a chat with user_id NULL
  Absent, Deleted     \* a chat that is not there yet, or not any more

ASSUME LimitAssumption == AnonMessageLimit \in Nat \ {0} /\ MaxPosts \in Nat
ASSUME NamesAssumption ==
  /\ {Guest, Absent, Deleted} \cap Users = {}
  /\ Guest # Absent /\ Guest # Deleted /\ Absent # Deleted
  /\ None \notin Users \cup Chats

VARIABLES
  owner,    \* chat -> its row: user_id, or that there is none
  count,    \* chat -> the Redis counter anon:msgs:<chat>, 0 without one
  ttl,      \* chats whose counter expires
  anonId,   \* localStorage: pitchside_anon_chat_id
  token,    \* tab -> whose access token it has
  fresh,    \* tabs whose access token has not expired
  at,       \* tab -> where its request is
  chat,     \* tab -> the chat its request is about
  passed,   \* chat -> messages of guests let through in the counter's window
  crashed,  \* chats whose counter was left by a gateway that stopped
  raced,    \* chats that two claims read before either was written
  kept,     \* chats whose id the browser has once put into localStorage
  mishap    \* something has happened that may cost a guest their chat

counterVars == <<count, ttl, passed, crashed>>
vars == <<owner, count, ttl, anonId, token, fresh, at, chat, passed, crashed, raced, kept, mishap>>

There(c) == owner[c] \notin {Absent, Deleted}

\* optional_user_id_from_jwt: the X-User-ID that the gateway adds, from a token
\* that has not expired.
Asking(t) == IF t \in fresh THEN token[t] ELSE None

Init ==
  /\ owner = [c \in Chats |-> Absent]
  /\ count = [c \in Chats |-> 0]
  /\ ttl = {}
  /\ anonId = None
  /\ token = [t \in Tabs |-> None]
  /\ fresh = {}
  /\ at = [t \in Tabs |-> "idle"]
  /\ chat = [t \in Tabs |-> None]
  /\ passed = [c \in Chats |-> 0]
  /\ crashed = {}
  /\ raced = {}
  /\ kept = {}
  /\ mishap = FALSE

Goto(t, place) == at' = [at EXCEPT ![t] = place] /\ UNCHANGED chat
Begin(t, place, c) == at' = [at EXCEPT ![t] = place] /\ chat' = [chat EXCEPT ![t] = c]
Finish(t) == Begin(t, "idle", None)

-----------------------------------------------------------------------------
(* Starting a chat *)

\* Tabs that have written or are about to write the browser's chat id.
Writing == {t \in Tabs : at[t] \in {"created", "merge", "commit", "merged"}}

\* POST /chats: the row belongs to whom the gateway says is asking.
Create(t, c) ==
  /\ at[t] = "idle" /\ owner[c] = Absent
  /\ owner' = [owner EXCEPT ![c] = IF Asking(t) = None THEN Guest ELSE Asking(t)]
  /\ Begin(t, "created", c)
  /\ UNCHANGED <<anonId, token, fresh, counterVars, raced, kept>>

Overlap == Writing # {}

\* The button of the shell: a guest with a chat is taken to that one.
KickoffShell(t) ==
  /\ token[t] # None \/ anonId = None
  /\ \E c \in Chats : Create(t, c)
  /\ mishap' = (mishap \/ Overlap)

\* The composer of the home page starts a new chat for every message.
KickoffHome(t) ==
  /\ \E c \in Chats : Create(t, c)
  /\ mishap' = (mishap \/ Overlap \/ (token[t] = None /\ anonId # None))

\* The answer arrives: a tab without a token keeps the id in localStorage.
Created(t) ==
  /\ at[t] = "created"
  /\ Finish(t)
  /\ IF token[t] = None
     THEN anonId' = chat[t] /\ kept' = kept \cup {chat[t]}
     ELSE UNCHANGED <<anonId, kept>>
  /\ UNCHANGED <<owner, token, fresh, counterVars, raced, mishap>>

\* The answer is lost, and with it the id of the chat.
CreatedUnheard(t) ==
  /\ at[t] = "created"
  /\ Finish(t)
  /\ UNCHANGED <<owner, anonId, token, fresh, counterVars, raced, kept, mishap>>

-----------------------------------------------------------------------------
(* Signing in and claiming the guest chat *)

\* applyTokens: the tokens are stored, and the guest chat is claimed if there is one.
SignIn(t, u) ==
  /\ at[t] = "idle" /\ token[t] = None
  /\ token' = [token EXCEPT ![t] = u]
  /\ fresh' = fresh \cup {t}
  /\ IF anonId = None
     THEN UNCHANGED <<at, chat, mishap>>
     ELSE Begin(t, "merge", anonId) /\ mishap' = (mishap \/ Overlap)
  /\ UNCHANGED <<owner, anonId, counterVars, raced, kept>>

\* Mutant: whoever asks is made the owner.
MergeLoadAny(t) ==
  /\ at[t] = "merge"
  /\ IF Asking(t) # None /\ There(chat[t]) THEN Goto(t, "commit") ELSE Finish(t)
  /\ raced' = IF \E q \in Tabs \ {t} : at[q] = "commit" /\ chat[q] = chat[t]
              THEN raced \cup {chat[t]} ELSE raced
  /\ UNCHANGED <<owner, anonId, token, fresh, counterVars, kept, mishap>>

\* merge_chat up to its check: a chat without an owner is claimed, one's own is
\* answered as it is, and every other one is refused.  So is an expired token, by
\* the gateway.
MergeLoad(t) ==
  /\ at[t] = "merge"
  /\ IF Asking(t) # None /\ owner[chat[t]] = Guest THEN Goto(t, "commit")
     ELSE IF Asking(t) # None /\ owner[chat[t]] = Asking(t) THEN Goto(t, "merged")
     ELSE Finish(t)
  /\ raced' = IF \E q \in Tabs \ {t} : at[q] = "commit" /\ chat[q] = chat[t]
              THEN raced \cup {chat[t]} ELSE raced
  /\ UNCHANGED <<owner, anonId, token, fresh, counterVars, kept, mishap>>

\* Its UPDATE by id, which does not look at user_id again and raises if the row is
\* gone.
MergeCommit(t) ==
  /\ at[t] = "commit"
  /\ IF There(chat[t])
     THEN owner' = [owner EXCEPT ![chat[t]] = token[t]] /\ Goto(t, "merged")
     ELSE Finish(t) /\ UNCHANGED owner
  /\ UNCHANGED <<anonId, token, fresh, counterVars, raced, kept, mishap>>

\* The browser forgets the id, whichever chat it names by now.
Merged(t) ==
  /\ at[t] = "merged"
  /\ anonId' = None
  /\ Finish(t)
  /\ UNCHANGED <<owner, token, fresh, counterVars, raced, kept, mishap>>

\* Mutant: the id is forgotten although the claim has failed.
MergeUnheardForgets(t) ==
  /\ at[t] \in {"merge", "merged"}
  /\ anonId' = None
  /\ Finish(t)
  /\ UNCHANGED <<owner, token, fresh, counterVars, raced, kept, mishap>>

\* The request or its answer is lost: the id is kept for another attempt.
MergeUnheard(t) ==
  /\ at[t] \in {"merge", "merged"}
  /\ Finish(t)
  /\ UNCHANGED <<owner, anonId, token, fresh, counterVars, raced, kept, mishap>>

Logout(t) ==
  /\ at[t] = "idle" /\ token[t] # None
  /\ token' = [token EXCEPT ![t] = None]
  /\ fresh' = fresh \ {t}
  /\ UNCHANGED <<owner, anonId, at, chat, counterVars, raced, kept, mishap>>

\* An access token runs out.
Expire(t) ==
  /\ t \in fresh
  /\ fresh' = fresh \ {t}
  /\ UNCHANGED <<owner, anonId, token, at, chat, counterVars, raced, kept, mishap>>

\* refreshMe, when the tab is loaded again.
Renew(t) ==
  /\ at[t] = "idle" /\ token[t] # None /\ t \notin fresh
  /\ fresh' = fresh \cup {t}
  /\ UNCHANGED <<owner, anonId, token, at, chat, counterVars, raced, kept, mishap>>

-----------------------------------------------------------------------------
(* Posting and deleting *)

\* Mutant: the counter is compared before it is increased.
WithinOld(c) == count[c] <= AnonMessageLimit

\* INCR returns the new value.
Within(c) == count[c] + 1 <= AnonMessageLimit

LetThrough(c) == passed' = [passed EXCEPT ![c] = @ + 1]

\* AnonMessageLimitMiddleware.  A request with a bearer token, a valid one or not,
\* is not counted; the first one counted has to make the counter expire.
PostGateway(t, c) ==
  /\ at[t] = "idle" /\ owner[c] # Absent
  /\ IF token[t] # None
     THEN Begin(t, "post", c) /\ UNCHANGED <<count, passed>>
     ELSE /\ count[c] < MaxPosts
          /\ count' = [count EXCEPT ![c] = @ + 1]
          /\ CASE count[c] = 0 -> Begin(t, "expire", c) /\ UNCHANGED passed
               [] count[c] # 0 /\ Within(c) -> Begin(t, "post", c) /\ LetThrough(c)
               [] OTHER -> UNCHANGED <<at, chat, passed>>
  /\ UNCHANGED <<owner, ttl, anonId, token, fresh, crashed, raced, kept, mishap>>

\* EXPIRE, the second call to Redis.
PostExpire(t) ==
  /\ at[t] = "expire"
  /\ ttl' = ttl \cup {chat[t]}
  /\ LetThrough(chat[t]) /\ Goto(t, "post")
  /\ UNCHANGED <<owner, count, anonId, token, fresh, crashed, raced, kept, mishap>>

\* The gateway or its connection to Redis fails between the two calls.
PostCrash(t) ==
  /\ at[t] = "expire"
  /\ crashed' = crashed \cup {chat[t]}
  /\ Finish(t)
  /\ UNCHANGED <<owner, count, ttl, anonId, token, fresh, passed, raced, kept, mishap>>

\* A day after the first message.
CounterExpires(c) ==
  /\ c \in ttl
  /\ count' = [count EXCEPT ![c] = 0]
  /\ passed' = [passed EXCEPT ![c] = 0]
  /\ ttl' = ttl \ {c}
  /\ UNCHANGED <<owner, anonId, token, fresh, at, chat, crashed, raced, kept, mishap>>

\* post_message up to assert_chat_access: a guest may post to a chat of nobody, a
\* user to their own.
PostLoad(t) ==
  /\ at[t] = "post"
  /\ IF owner[chat[t]] = (IF Asking(t) = None THEN Guest ELSE Asking(t))
     THEN Goto(t, "save") ELSE Finish(t)
  /\ UNCHANGED <<owner, anonId, token, fresh, counterVars, raced, kept, mishap>>

\* The commit writes the message and updated_at, and leaves user_id alone.
PostSave(t) ==
  /\ at[t] = "save"
  /\ Finish(t)
  /\ UNCHANGED <<owner, anonId, token, fresh, counterVars, raced, kept, mishap>>

\* delete_chat, for which the gateway and the service require the owner.
Delete(t, c) ==
  /\ at[t] = "idle" /\ Asking(t) # None /\ owner[c] = Asking(t)
  /\ owner' = [owner EXCEPT ![c] = Deleted]
  /\ UNCHANGED <<anonId, token, fresh, at, chat, counterVars, raced, kept, mishap>>

-----------------------------------------------------------------------------
Next ==
  \/ \E t \in Tabs :
       \/ KickoffShell(t) \/ KickoffHome(t) \/ Created(t) \/ CreatedUnheard(t)
       \/ \E u \in Users : SignIn(t, u)
       \/ MergeLoad(t) \/ MergeCommit(t) \/ Merged(t) \/ MergeUnheard(t)
       \/ Logout(t) \/ Expire(t) \/ Renew(t)
       \/ PostExpire(t) \/ PostCrash(t) \/ PostLoad(t) \/ PostSave(t)
       \/ \E c \in Chats : PostGateway(t, c) \/ Delete(t, c)
  \/ \E c \in Chats : CounterExpires(c)

Spec == Init /\ [][Next]_vars

-----------------------------------------------------------------------------
(* Properties *)

Places == {"idle", "created", "merge", "commit", "merged", "expire", "post", "save"}

\* Types and ranges.
TypeOK ==
  /\ owner \in [Chats -> Users \cup {Guest, Absent, Deleted}]
  /\ count \in [Chats -> 0 .. MaxPosts]
  /\ ttl \subseteq Chats
  /\ anonId \in Chats \cup {None}
  /\ token \in [Tabs -> Users \cup {None}]
  /\ fresh \subseteq Tabs
  /\ at \in [Tabs -> Places]
  /\ chat \in [Tabs -> Chats \cup {None}]
  /\ passed \in [Chats -> Nat]
  /\ crashed \subseteq Chats
  /\ raced \subseteq Chats
  /\ kept \subseteq Chats
  /\ mishap \in BOOLEAN

\* Whoever has a chat keeps it: no claim, repeated or late, and no post that began
\* before the claim takes it away, except where two claims have read it before
\* either was written.
OwnerStaysUnlessRacing ==
  [][\A c \in Chats \ raced' :
       owner[c] \in Users => owner'[c] \in {owner[c], Deleted}]_vars

\* A guest lets at most AnonMessageLimit messages through per window, from however
\* many tabs; and whoever was counted is forgotten again some time, unless the
\* gateway has stopped between its two calls to Redis.
AllowanceHolds ==
  \A c \in Chats :
    /\ passed[c] <= AnonMessageLimit
    /\ count[c] > 0 => \/ c \in ttl \cup crashed
                       \/ \E t \in Tabs : at[t] = "expire" /\ chat[t] = c

\* "Guest threads are saved locally and merge into your account after sign-in": a
\* chat whose id the browser has kept is found by that id until it is claimed.
GuestThreadsAreSaved == \A c \in kept : owner[c] = Guest => anonId = c

\* That holds, through failed claims, lost answers, expired tokens and any number of
\* accounts, as long as no guest starts a second chat on the home page and no two
\* tabs start or claim at once.
GuestThreadsAreSavedUnlessMishap == ~mishap => GuestThreadsAreSaved
=============================================================================
