------------------------- MODULE ChatServiceProofs -------------------------
(***************************************************************************)
(* Proofs about one chat under overlapping posts, runs, crashes and a      *)
(* deletion, for any set of requests and any hot window; nothing is        *)
(* assumed about requests waiting for each other or about the model's      *)
(* replies.  The first invariant is a formula about the chat and one about *)
(* each request: what its session has loaded is old, but while the chat    *)
(* lives it is never ahead of the rows.  The second is about the order of  *)
(* the messages and what a run makes of the history it has read.           *)
(***************************************************************************)
EXTENDS ChatService, FiniteSetTheorems, TLAPS

\* A locked chat lives, a deleted one is empty, the turn count is within the messages.
ChatInv ==
    /\ IsFiniteSet(messages)
    /\ row_lock # NoOne => chat = "live"
    /\ chat = "deleted" => messages = {} /\ snapshot = EmptySnapshot
    /\ TurnsWithinAged

\* A session has loaded a part of the history and a turn count of the past, and a run
\* has been given the message it answers.
RequestInv(r) ==
    /\ IsFiniteSet(req[r].seen)
    /\ At(r, "post commit") <=> row_lock = r
    /\ chat = "live" =>
          /\ req[r].seen \subseteq messages
          /\ req[r].loaded.turns <= AgedCount(messages)
          /\ req[r].result.turns <= AgedCount(messages)
          /\ At(r, "scheduled") => User(r) \in messages
    /\ req[r].pc \in RunSteps => User(r) \in req[r].seen

IInv == TypeOK /\ ChatInv /\ \A r \in Requests : RequestInv(r)

USE HotWindowAssumption, LlmRepliesAssumption, RequestsAssumption

-----------------------------------------------------------------------------
\* The operators of ConversationContext.

\* More messages have as many or more that have left the hot window.
LEMMA AgedGrows ==
  ASSUME NEW big, IsFiniteSet(big), NEW small \in SUBSET big
  PROVE  /\ AgedCount(small) \in Nat
         /\ AgedCount(big) \in Nat
         /\ AgedCount(small) <= AgedCount(big)
<1>1. IsFiniteSet(small) /\ Cardinality(small) <= Cardinality(big)
  BY FS_Subset
<1>2. Cardinality(small) \in Nat /\ Cardinality(big) \in Nat
  BY <1>1, FS_CardinalityType
<1> QED
  BY <1>1, <1>2 DEF AgedCount

\* Compressing turns a snapshot of messages into one, with the count of the aged ones.
LEMMA CompressType ==
  ASSUME NEW snap \in Snapshot, NEW ms \in SUBSET Message, IsFiniteSet(ms), NEW reply
  PROVE  /\ Compress(snap, ms, reply) \in Snapshot
         /\ Compress(snap, ms, reply).turns = AgedCount(ms)
<1>1. AgedCount(ms) \in Nat
  BY AgedGrows
<1>2. Between(ms, snap.turns + 1, AgedCount(ms)) \subseteq Message
  BY DEF Between
<1> QED
  BY <1>1, <1>2 DEF Compress, Snapshot

\* A flush leaves each column as it is or as the session has it.
LEMMA WriteDirtyType ==
  ASSUME NEW old \in Snapshot, NEW loaded \in Snapshot, NEW new \in Snapshot
  PROVE  /\ WriteDirty(old, loaded, new) \in Snapshot
         /\ WriteDirty(old, loaded, new).turns \in {old.turns, new.turns}
  BY DEF WriteDirty, Snapshot

\* The messages of a request are messages of the chat.
LEMMA OwnMessages ==
  ASSUME NEW r \in Requests PROVE User(r) \in Message /\ Reply(r) \in Message
  BY DEF User, Reply, Message

-----------------------------------------------------------------------------
\* Frames: what a step of one request does not disturb.

\* The values a request may hold.
Request == [pc : Steps, seen : SUBSET Message, pending : BOOLEAN,
            loaded : Snapshot, result : Snapshot]

\* While the chat keeps its state and its messages only grow, a request that takes no
\* part in a step keeps its invariant.
LEMMA OtherRequest ==
  ASSUME TypeOK, NEW q \in Requests, RequestInv(q),
         req'[q] = req[q], row_lock' = q <=> row_lock = q, chat' = chat,
         messages \subseteq messages', IsFiniteSet(messages')
  PROVE  RequestInv(q)'
<1>1. /\ AgedCount(messages) \in Nat /\ AgedCount(messages') \in Nat
      /\ AgedCount(messages) <= AgedCount(messages')
  BY AgedGrows
<1>2. req[q].loaded.turns \in Nat /\ req[q].result.turns \in Nat
  BY DEF TypeOK, Snapshot
<1>3. (AgedCount(messages))' = AgedCount(messages')
  BY DEF AgedCount
<1>4. At(q, "post commit")' <=> row_lock' = q
  BY DEF RequestInv, At
<1>5. chat' = "live" =>
          /\ req'[q].loaded.turns <= AgedCount(messages')
          /\ req'[q].result.turns <= AgedCount(messages')
  <2>1. CASE chat' # "live"
    BY <2>1
  <2>2. CASE chat' = "live"
    <3>1. /\ req[q].loaded.turns <= AgedCount(messages)
          /\ req[q].result.turns <= AgedCount(messages)
      BY <2>2 DEF RequestInv
    <3>2. \A a, b, c \in Nat : a <= b /\ b <= c => a <= c
      OBVIOUS
    <3> QED
      BY <1>1, <1>2, <3>1, <3>2
  <2> QED
    BY <2>1, <2>2
<1>6. /\ IsFiniteSet(req'[q].seen)
      /\ chat' = "live" => /\ req'[q].seen \subseteq messages'
                           /\ At(q, "scheduled")' => User(q) \in messages'
      /\ req'[q].pc \in RunSteps => User(q) \in req'[q].seen
  BY DEF RequestInv, At
<1> QED
  BY <1>3, <1>4, <1>5, <1>6 DEF RequestInv

\* A step of one request alone, which changes nothing of the chat, keeps the invariant
\* when it keeps that request's.
LEMMA OneRequest ==
  ASSUME IInv, NEW r \in Requests, NEW new,
         req' = [req EXCEPT ![r] = new],
         new \in Request,
         new.pc # "post commit", req[r].pc # "post commit",
         IsFiniteSet(new.seen),
         chat = "live" => /\ new.seen \subseteq messages
                          /\ new.loaded.turns <= AgedCount(messages)
                          /\ new.result.turns <= AgedCount(messages)
                          /\ new.pc # "scheduled",
         new.pc \in RunSteps => User(r) \in new.seen,
         started' \in Seq(Message),
         UNCHANGED <<chat, compression_pending, messages, snapshot, row_lock>>
  PROVE  IInv'
<1> USE DEF IInv
<1>1. TypeOK'
  BY DEF TypeOK, Request
<1>2. ChatInv'
  BY DEF ChatInv, TurnsWithinAged, AgedCount
<1>3. RequestInv(r)'
  <2>1. req'[r] = new
    BY DEF TypeOK
  <2>2. row_lock # r
    BY DEF RequestInv, At
  <2> QED
    BY <2>1, <2>2 DEF RequestInv, At, AgedCount
<1>4. ASSUME NEW q \in Requests, q # r PROVE RequestInv(q)'
  <2>1. req'[q] = req[q] /\ IsFiniteSet(messages')
    BY <1>4 DEF TypeOK, ChatInv
  <2> QED
    BY <2>1, OtherRequest
<1> QED
  BY <1>1, <1>2, <1>3, <1>4

-----------------------------------------------------------------------------
\* The steps.

\* Reading the messages: what is seen is what is there.
LEMMA PostLoadMessagesStep ==
  ASSUME IInv, NEW r \in Requests, PostLoadMessages(r) PROVE IInv'
<1> DEFINE new == [Idle EXCEPT !.pc = "post snapshot", !.seen = messages,
                               !.pending = compression_pending]
<1>1. /\ req' = [req EXCEPT ![r] = new]
      /\ req[r].pc = "idle"
      /\ UNCHANGED <<chat, compression_pending, messages, snapshot, row_lock>>
  BY DEF PostLoadMessages, At
<1>2. /\ new \in Request
      /\ new.pc = "post snapshot" /\ new.seen = messages
      /\ new.loaded.turns = 0 /\ new.result.turns = 0
  BY DEF IInv, TypeOK, Request, Idle, EmptySnapshot, Snapshot, Steps, PostSteps
<1>3. AgedCount(messages) \in Nat /\ IsFiniteSet(messages)
  BY AgedGrows DEF IInv, ChatInv
<1>4. started' \in Seq(Message)
  BY OwnMessages DEF IInv, TypeOK, PostLoadMessages
<1> HIDE DEF new
<1>5. IsFiniteSet(new.seen) /\ new.pc \notin RunSteps \cup {"post commit", "scheduled"}
  BY <1>2, <1>3 DEF RunSteps
<1>6. new.seen \subseteq messages /\ new.loaded.turns <= AgedCount(messages)
      /\ new.result.turns <= AgedCount(messages)
  <2>1. 0 <= AgedCount(messages)
    BY <1>3
  <2> QED
    BY <1>2, <2>1
<1> QED
  BY <1>1, <1>2, <1>4, <1>5, <1>6, OneRequest

\* The snapshot is read after the messages: its count is still within them.
LEMMA LoadSnapshotStep ==
  ASSUME IInv, NEW r \in Requests, PostLoadSnapshot(r) \/ RunLoadSnapshot(r) PROVE IInv'
<1> USE DEF IInv
<1>3. req[r] \in Request /\ snapshot \in Snapshot /\ started \in Seq(Message)
  BY DEF TypeOK, Request
<1>4. PICK new \in Request :
        /\ req' = [req EXCEPT ![r] = new]
        /\ \/ req[r].pc = "post snapshot" /\ new.pc = "post flush"
           \/ req[r].pc = "run snapshot" /\ new.pc = "run compressor"
        /\ new.seen = req[r].seen
        /\ new.loaded.turns = snapshot.turns
        /\ new.result.turns \in {snapshot.turns, req[r].result.turns}
        /\ UNCHANGED <<chat, compression_pending, started, messages, snapshot, row_lock>>
  <2>1. CASE PostLoadSnapshot(r)
    <3> DEFINE new == [req[r] EXCEPT !.pc = "post flush", !.loaded = snapshot]
    <3>1. new \in Request
      BY <1>3 DEF Request, Steps, PostSteps
    <3>2. req' = [req EXCEPT ![r] = new] /\ req[r].pc = "post snapshot"
      BY <2>1 DEF PostLoadSnapshot, At, TypeOK
    <3> QED
      BY <1>3, <2>1, <3>1, <3>2 DEF PostLoadSnapshot, Request
  <2>2. CASE RunLoadSnapshot(r)
    <3> DEFINE new == [req[r] EXCEPT !.pc = "run compressor", !.loaded = snapshot,
                                     !.result = snapshot]
    <3>1. new \in Request
      BY <1>3 DEF Request, Steps, RunSteps
    <3>2. req' = [req EXCEPT ![r] = new] /\ req[r].pc = "run snapshot"
      BY <2>2 DEF RunLoadSnapshot, At, TypeOK
    <3> QED
      BY <1>3, <2>2, <3>1, <3>2 DEF RunLoadSnapshot, Request
  <2> QED
    BY <2>1, <2>2
<1>5. RequestInv(r) /\ snapshot.turns <= AgedCount(messages)
  BY DEF ChatInv, TurnsWithinAged
<1>6. new.pc \in RunSteps => User(r) \in new.seen
  BY <1>4, <1>5 DEF RequestInv, RunSteps
<1>7. chat = "live" => /\ new.seen \subseteq messages
                       /\ new.loaded.turns <= AgedCount(messages)
                       /\ new.result.turns <= AgedCount(messages)
  BY <1>4, <1>5 DEF RequestInv
<1> QED
  BY <1>3, <1>4, <1>5, <1>6, <1>7, OneRequest DEF RequestInv

\* A request that only moves on, or gives up, without the lock.
LEMMA GotoStep ==
  ASSUME IInv, NEW r \in Requests, NEW step \in Steps,
         Goto(r, step), req[r].pc # "post commit", step \notin {"post commit", "scheduled"},
         step \in RunSteps => req[r].pc \in RunSteps,
         UNCHANGED <<chat, compression_pending, started, messages, snapshot, row_lock>>
  PROVE  IInv'
<1> USE DEF IInv
<1> DEFINE new == [req[r] EXCEPT !.pc = step]
<1>1. req[r] \in Request /\ started \in Seq(Message) /\ req' = [req EXCEPT ![r] = new]
  BY DEF TypeOK, Request, Goto
<1>2. /\ new \in Request
      /\ new.pc = step
      /\ new.seen = req[r].seen /\ new.loaded = req[r].loaded /\ new.result = req[r].result
  BY <1>1 DEF Request
<1>3. RequestInv(r)
  OBVIOUS
<1> HIDE DEF new
<1> QED
  BY <1>1, <1>2, <1>3, OneRequest DEF Request, RequestInv

\* A run reads messages that hold its question, since they only grow while the chat lives.
LEMMA RunLoadMessagesStep ==
  ASSUME IInv, NEW r \in Requests, RunLoadMessages(r) PROVE IInv'
<1>1. CASE chat = "live"
  <2> DEFINE new == [req[r] EXCEPT !.pc = "run snapshot", !.seen = messages]
  <2>1. /\ req' = [req EXCEPT ![r] = new]
        /\ req[r].pc = "scheduled"
        /\ UNCHANGED <<chat, compression_pending, messages, snapshot, row_lock>>
    BY <1>1 DEF IInv, TypeOK, RunLoadMessages, At
  <2>2. req[r] \in Request
    BY DEF IInv, TypeOK, Request
  <2>3. /\ new \in Request
        /\ new.pc = "run snapshot" /\ new.seen = messages
        /\ new.loaded = req[r].loaded /\ new.result = req[r].result
    BY <2>2 DEF IInv, TypeOK, Request, Steps, RunSteps
  <2>4. started' \in Seq(Message)
    <3>1. started' = Append(started, Reply(r))
      BY <1>1 DEF RunLoadMessages
    <3> QED
      BY <3>1, OwnMessages DEF IInv, TypeOK
  <2>5. RequestInv(r) /\ IsFiniteSet(messages)
    BY DEF IInv, ChatInv
  <2>6. User(r) \in messages
    BY <1>1, <2>1, <2>5 DEF RequestInv, At
  <2> HIDE DEF new
  <2> QED
    BY <1>1, <2>1, <2>3, <2>4, <2>5, <2>6, OneRequest DEF Request, RequestInv
<1>2. CASE chat # "live"
  <2>1. /\ Goto(r, "closed") /\ req[r].pc = "scheduled"
        /\ UNCHANGED <<chat, compression_pending, started, messages, snapshot, row_lock>>
    BY <1>2 DEF RunLoadMessages, At
  <2> QED
    BY <2>1, GotoStep DEF Steps, Settled, RunSteps
<1> QED
  BY <1>1, <1>2

\* What the orchestrator hands back is the snapshot as loaded, or one with the count of
\* messages that had aged when the run began.
LEMMA ResultStep ==
  ASSUME IInv, NEW r \in Requests,
         (\E reply \in LlmReplies : RunCompressor(r, reply)) \/ RunFails(r)
  PROVE  IInv'
<1> USE DEF IInv
<1>1. req[r] \in Request /\ started \in Seq(Message) /\ RequestInv(r)
  BY DEF TypeOK, Request
<1>2. PICK step \in {"run rewriter", "run save"}, result \in Snapshot :
        /\ req' = [req EXCEPT ![r].pc = step, ![r].result = result]
        /\ req[r].pc \in {"run compressor", "run rewriter"}
        /\ result.turns \in {req[r].loaded.turns, AgedCount(req[r].seen)}
        /\ UNCHANGED <<chat, compression_pending, started, messages, snapshot, row_lock>>
  <2>1. CASE RunFails(r)
    BY <1>1, <2>1 DEF RunFails, Request
  <2>2. ASSUME NEW reply \in LlmReplies, RunCompressor(r, reply)
        PROVE  \E result \in Snapshot :
                  /\ req' = [req EXCEPT ![r].pc = "run rewriter", ![r].result = result]
                  /\ req[r].pc = "run compressor"
                  /\ result.turns \in {req[r].loaded.turns, AgedCount(req[r].seen)}
                  /\ UNCHANGED <<chat, compression_pending, started, messages, snapshot,
                                 row_lock>>
    <3> DEFINE result == IF AgedCount(req[r].seen) = req[r].loaded.turns
                         THEN req[r].loaded
                         ELSE Compress(req[r].loaded, req[r].seen, reply)
    <3>1. /\ result \in Snapshot
          /\ result.turns \in {req[r].loaded.turns, AgedCount(req[r].seen)}
      BY <1>1, CompressType DEF Request, RequestInv
    <3>2. /\ req' = [req EXCEPT ![r].pc = "run rewriter", ![r].result = result]
          /\ req[r].pc = "run compressor"
          /\ UNCHANGED <<chat, compression_pending, started, messages, snapshot, row_lock>>
      BY <2>2 DEF RunCompressor, At
    <3> HIDE DEF result
    <3> QED
      BY <3>1, <3>2
  <2> QED
    BY <2>1, <2>2
<1> DEFINE new == [req[r] EXCEPT !.pc = step, !.result = result]
<1>3. req' = [req EXCEPT ![r] = new]
  BY <1>2 DEF TypeOK
<1>4. /\ new \in Request
      /\ new.pc = step
      /\ new.seen = req[r].seen /\ new.loaded = req[r].loaded /\ new.result = result
  BY <1>1, <1>2 DEF Request, Steps, RunSteps
<1>5. chat = "live" => AgedCount(req[r].seen) <= AgedCount(messages)
  BY <1>1, AgedGrows DEF RequestInv, ChatInv
<1>6. chat = "live" => result.turns <= AgedCount(messages)
  BY <1>1, <1>2, <1>5 DEF RequestInv
<1>7. User(r) \in req[r].seen
  BY <1>1, <1>2 DEF RequestInv, RunSteps
<1> HIDE DEF new
<1>8. /\ IsFiniteSet(new.seen) /\ User(r) \in new.seen
      /\ new.pc \notin {"post commit", "scheduled"} /\ req[r].pc # "post commit"
  BY <1>1, <1>2, <1>4, <1>7 DEF RequestInv
<1>9. chat = "live" => /\ new.seen \subseteq messages
                       /\ new.loaded.turns <= AgedCount(messages)
                       /\ new.result.turns <= AgedCount(messages)
  BY <1>1, <1>4, <1>6 DEF RequestInv
<1> QED
  BY <1>1, <1>2, <1>3, <1>4, <1>8, <1>9, OneRequest

\* The flush locks the row of a living chat, once nobody else holds it.
LEMMA PostFlushStep ==
  ASSUME IInv, NEW r \in Requests, PostFlush(r) PROVE IInv'
<1>1. CASE chat = "live"
  <2> USE DEF IInv
  <2>1. /\ row_lock = NoOne /\ row_lock' = r
        /\ req' = [req EXCEPT ![r].pc = "post commit"]
        /\ UNCHANGED <<chat, compression_pending, started, messages, snapshot>>
    BY <1>1 DEF PostFlush, Goto
  <2>2. TypeOK'
    BY <2>1 DEF TypeOK, Steps, PostSteps
  <2>3. ChatInv'
    BY <1>1, <2>1 DEF ChatInv, TurnsWithinAged, AgedCount
  <2>4. RequestInv(r)'
    BY <2>1 DEF TypeOK, RequestInv, At, AgedCount, RunSteps
  <2>5. ASSUME NEW q \in Requests, q # r PROVE RequestInv(q)'
    <3>1. /\ req'[q] = req[q] /\ row_lock' # q /\ row_lock # q
          /\ messages' = messages /\ chat' = chat /\ IsFiniteSet(messages')
      BY <2>1, <2>5 DEF TypeOK, ChatInv
    <3> QED
      BY <3>1, OtherRequest
  <2> QED
    BY <2>2, <2>3, <2>4, <2>5
<1>2. CASE chat # "live"
  <2>1. /\ Goto(r, "failed") /\ req[r].pc = "post flush"
        /\ UNCHANGED <<chat, compression_pending, started, messages, snapshot, row_lock>>
    BY <1>2 DEF PostFlush, At
  <2> QED
    BY <2>1, GotoStep DEF Steps, Settled, RunSteps
<1> QED
  BY <1>1, <1>2

\* A commit adds one message to a living chat and writes a turn count that was within
\* the messages already, or is the one of messages that are all committed now.
LEMMA CommitStep ==
  ASSUME IInv, NEW r \in Requests, NEW m \in Message, NEW new \in Snapshot,
         NEW step \in {"scheduled", "closed", "answered"},
         chat = "live",
         step = "scheduled" => m = User(r),
         row_lock \in {r, NoOne}, row_lock' = NoOne,
         messages' = messages \cup {m},
         new.turns <= AgedCount(messages'),
         snapshot' = WriteDirty(snapshot, req[r].loaded, new),
         compression_pending' \in BOOLEAN,
         Goto(r, step),
         UNCHANGED <<chat, started>>
  PROVE  IInv'
<1> USE DEF IInv
<1>1. IsFiniteSet(messages') /\ messages \subseteq messages'
  BY FS_AddElement DEF ChatInv
<1>2. /\ AgedCount(messages) \in Nat /\ AgedCount(messages') \in Nat
      /\ AgedCount(messages) <= AgedCount(messages')
  BY <1>1, AgedGrows
<1>3. req[r] \in Request /\ snapshot \in Snapshot /\ req' = [req EXCEPT ![r].pc = step]
  BY DEF TypeOK, Request, Goto
<1>4. snapshot' \in Snapshot /\ snapshot'.turns \in {snapshot.turns, new.turns}
  BY <1>3, WriteDirtyType DEF Request
<1>5. TypeOK'
  BY <1>3, <1>4 DEF TypeOK, Steps, Settled
<1>6. ChatInv'
  <2>1. snapshot.turns <= AgedCount(messages) /\ snapshot.turns \in Nat /\ new.turns \in Nat
    BY <1>3 DEF ChatInv, TurnsWithinAged, Snapshot
  <2>2. \A a, b, c \in Nat : a <= b /\ b <= c => a <= c
    OBVIOUS
  <2>3. snapshot.turns <= AgedCount(messages')
    BY <1>2, <2>1, <2>2
  <2>4. snapshot'.turns <= AgedCount(messages')
    BY <1>4, <2>3
  <2> QED
    BY <1>1, <2>4 DEF ChatInv, TurnsWithinAged, AgedCount
<1>7. RequestInv(r)'
  <2>1. RequestInv(r)
    OBVIOUS
  <2>2. req'[r] = [req[r] EXCEPT !.pc = step]
    BY <1>3 DEF TypeOK
  <2>3. /\ req'[r].pc = step /\ req'[r].seen = req[r].seen
        /\ req'[r].loaded = req[r].loaded /\ req'[r].result = req[r].result
    BY <1>3, <2>2 DEF Request
  <2>4. req[r].loaded.turns \in Nat /\ req[r].result.turns \in Nat
    BY <1>3 DEF Request, Snapshot
  <2>5. \A a, b, c \in Nat : a <= b /\ b <= c => a <= c
    OBVIOUS
  <2>6. /\ req'[r].loaded.turns <= AgedCount(messages')
        /\ req'[r].result.turns <= AgedCount(messages')
    BY <1>2, <2>1, <2>3, <2>4, <2>5 DEF RequestInv
  <2>7. (AgedCount(messages))' = AgedCount(messages')
    BY DEF AgedCount
  <2> QED
    BY <1>1, <2>1, <2>3, <2>6, <2>7 DEF RequestInv, At, RunSteps
<1>8. ASSUME NEW q \in Requests, q # r PROVE RequestInv(q)'
  <2>1. req'[q] = req[q] /\ row_lock # q /\ row_lock' # q /\ chat' = chat
    BY <1>3, <1>8 DEF TypeOK
  <2> QED
    BY <1>1, <2>1, OtherRequest
<1> QED
  BY <1>5, <1>6, <1>7, <1>8

\* The commit of a post, with or without compression.
LEMMA PostCommitStep ==
  ASSUME IInv, NEW r \in Requests, NEW over \in BOOLEAN, NEW reply \in LlmReplies,
         NEW fromUser \in BOOLEAN, PostCommit(r, over, reply, fromUser)
  PROVE  IInv'
<1> USE DEF IInv
<1> DEFINE own == req[r].seen \cup {User(r)}
           updates == /\ over
                      /\ AgedCount(own) > req[r].loaded.turns
                      /\ reply # "http error"
           new == IF updates THEN Compress(req[r].loaded, own, reply) ELSE req[r].loaded
<1>1. RequestInv(r) /\ row_lock = r /\ chat = "live"
  BY DEF PostCommit, RequestInv, ChatInv
<1>2. /\ req[r] \in Request /\ User(r) \in Message
      /\ own \in SUBSET Message /\ IsFiniteSet(own)
  <2>1. req[r] \in Request /\ User(r) \in Message
    BY OwnMessages DEF TypeOK, Request
  <2>2. own \in SUBSET Message
    BY <2>1 DEF Request
  <2>3. IsFiniteSet(req[r].seen)
    BY <1>1 DEF RequestInv
  <2>4. IsFiniteSet(own)
    BY <2>3, FS_AddElement
  <2> QED
    BY <2>1, <2>2, <2>4
<1>3. /\ messages' = messages \cup {User(r)}
      /\ snapshot' = WriteDirty(snapshot, req[r].loaded, new)
      /\ row_lock' = NoOne
      /\ UNCHANGED <<chat, started>>
  BY DEF PostCommit
<1>4. \E step \in {"scheduled", "closed"} : Goto(r, step)
  BY DEF PostCommit
<1>5. compression_pending' \in BOOLEAN
  BY DEF PostCommit, TypeOK
<1>6. new \in Snapshot /\ new.turns \in {req[r].loaded.turns, AgedCount(own)}
  BY <1>2, CompressType DEF Request
<1>7. new.turns <= AgedCount(messages')
  <2>1. IsFiniteSet(messages') /\ own \subseteq messages' /\ messages \subseteq messages'
    BY <1>1, <1>3, FS_AddElement DEF ChatInv, RequestInv
  <2>2. /\ AgedCount(messages) \in Nat /\ AgedCount(messages') \in Nat
        /\ AgedCount(own) <= AgedCount(messages')
        /\ AgedCount(messages) <= AgedCount(messages')
    BY <2>1, AgedGrows
  <2>3. req[r].loaded.turns \in Nat /\ req[r].loaded.turns <= AgedCount(messages)
    BY <1>1, <1>2 DEF Request, Snapshot, RequestInv
  <2>4. req[r].loaded.turns <= AgedCount(messages')
    BY <2>2, <2>3
  <2> QED
    BY <1>6, <2>2, <2>4
<1> HIDE DEF own, updates, new
<1> QED
  BY <1>1, <1>2, <1>3, <1>4, <1>5, <1>6, <1>7, CommitStep

\* The commit of a run.
LEMMA RunSaveStep ==
  ASSUME IInv, NEW r \in Requests, RunSave(r) PROVE IInv'
<1> USE DEF IInv
<1>1. RequestInv(r) /\ req[r] \in Request /\ Reply(r) \in Message
  BY OwnMessages DEF TypeOK, Request
<1>2. /\ chat = "live" /\ row_lock = NoOne /\ row_lock' = NoOne
      /\ messages' = messages \cup {Reply(r)}
      /\ snapshot' = WriteDirty(snapshot, req[r].loaded, req[r].result)
      /\ Goto(r, "answered")
      /\ UNCHANGED <<chat, compression_pending, started>>
  BY DEF RunSave
<1>3. req[r].result.turns <= AgedCount(messages')
  <2>1. IsFiniteSet(messages') /\ messages \subseteq messages'
    BY <1>2, FS_AddElement DEF ChatInv
  <2>2. /\ AgedCount(messages) \in Nat /\ AgedCount(messages') \in Nat
        /\ AgedCount(messages) <= AgedCount(messages')
    BY <2>1, AgedGrows
  <2>3. req[r].result.turns \in Nat /\ req[r].result.turns <= AgedCount(messages)
    BY <1>1, <1>2 DEF Request, Snapshot, RequestInv
  <2> QED
    BY <2>2, <2>3
<1>4. req[r].result \in Snapshot /\ compression_pending' \in BOOLEAN
  BY <1>1, <1>2 DEF Request, TypeOK
<1> QED
  BY <1>1, <1>2, <1>3, <1>4, CommitStep

\* A post that raises rolls back and lets go of the row.
LEMMA PostFailsStep ==
  ASSUME IInv, NEW r \in Requests, PostFails(r) PROVE IInv'
<1> USE DEF IInv
<1>1. /\ req' = [req EXCEPT ![r].pc = "failed"]
      /\ row_lock' = IF row_lock = r THEN NoOne ELSE row_lock
      /\ UNCHANGED <<chat, compression_pending, started, messages, snapshot>>
  BY DEF PostFails, Goto
<1>2. TypeOK'
  BY <1>1 DEF TypeOK, Steps, Settled
<1>3. ChatInv'
  BY <1>1 DEF ChatInv, TurnsWithinAged, AgedCount
<1>4. RequestInv(r)'
  BY <1>1 DEF TypeOK, RequestInv, At, AgedCount, RunSteps
<1>5. ASSUME NEW q \in Requests, q # r PROVE RequestInv(q)'
  <2>1. /\ req'[q] = req[q] /\ (row_lock' = q <=> row_lock = q)
        /\ messages' = messages /\ chat' = chat /\ IsFiniteSet(messages')
    BY <1>1, <1>5 DEF TypeOK, ChatInv
  <2> QED
    BY <2>1, OtherRequest
<1> QED
  BY <1>2, <1>3, <1>4, <1>5

\* Deleting the chat takes messages and snapshot with it; nobody holds the row.
LEMMA DeleteStep == ASSUME IInv, DeleteChat PROVE IInv'
<1> USE DEF IInv, DeleteChat
<1>1. TypeOK'
  BY DEF TypeOK, EmptySnapshot, Snapshot
<1>2. ChatInv'
  <2>1. IsFiniteSet({}) /\ AgedCount({}) = 0
    BY FS_EmptySet DEF AgedCount
  <2> QED
    BY <2>1 DEF ChatInv, TurnsWithinAged, EmptySnapshot, AgedCount
<1>3. ASSUME NEW q \in Requests PROVE RequestInv(q)'
  BY DEF RequestInv, At
<1> QED
  BY <1>1, <1>2, <1>3

\* A crash lets go of the row and of every request under way.
LEMMA CrashStep == ASSUME IInv, Crash PROVE IInv'
<1> USE DEF IInv, Crash
<1>1. \A q \in Requests :
         /\ req'[q] = IF q \in Open THEN [req[q] EXCEPT !.pc = "crashed"] ELSE req[q]
         /\ req[q] \in Request
  BY DEF TypeOK, Request
<1>2. TypeOK'
  <2>1. \A q \in Requests : req'[q] \in Request
    BY <1>1 DEF Request, Steps, Settled
  <2> QED
    BY <2>1 DEF TypeOK, Request
<1>3. ChatInv'
  BY DEF ChatInv, TurnsWithinAged, AgedCount
<1>4. ASSUME NEW q \in Requests PROVE RequestInv(q)'
  <2>1. /\ req'[q].seen = req[q].seen /\ req'[q].loaded = req[q].loaded
        /\ req'[q].result = req[q].result
        /\ req'[q].pc \in {"crashed", req[q].pc}
        /\ req'[q].pc # "post commit"
    BY <1>1 DEF Request, Open, Settled
  <2> QED
    BY <2>1 DEF RequestInv, At, AgedCount, RunSteps
<1> QED
  BY <1>2, <1>3, <1>4

-----------------------------------------------------------------------------
\* The invariant of the chat.

\* A new chat is empty and no request has loaded anything.
LEMMA IInvInit == Init => IInv
<1> SUFFICES ASSUME Init PROVE IInv
  OBVIOUS
<1>1. IsFiniteSet({}) /\ AgedCount({}) = 0
  BY FS_EmptySet DEF AgedCount
<1>2. TypeOK
  <2>1. EmptySnapshot \in Snapshot
    BY DEF EmptySnapshot, Snapshot
  <2>2. Idle \in Request
    BY <2>1 DEF Idle, Request, Steps
  <2>3. req \in [Requests -> Request]
    BY <2>2 DEF Init
  <2>4. started \in Seq(Message) /\ messages \subseteq Message
    BY DEF Init
  <2> QED
    BY <2>1, <2>3, <2>4 DEF Init, TypeOK, Request
<1>3. ChatInv
  BY <1>1 DEF Init, ChatInv, TurnsWithinAged, EmptySnapshot
<1>4. ASSUME NEW q \in Requests PROVE RequestInv(q)
  <2>1. /\ req[q].pc = "idle" /\ req[q].seen = {}
        /\ req[q].loaded.turns = 0 /\ req[q].result.turns = 0
        /\ messages = {} /\ row_lock = NoOne
    BY DEF Init, Idle, EmptySnapshot
  <2>2. AgedCount(messages) = 0
    BY <1>1, <2>1
  <2> QED
    BY <1>1, <2>1, <2>2 DEF RequestInv, At, RunSteps
<1> QED
  BY <1>2, <1>3, <1>4 DEF IInv

\* Every step of a request, a deletion and a crash keep the invariant.
LEMMA IInvStep == IInv /\ [Next]_vars => IInv'
<1> SUFFICES ASSUME IInv, [Next]_vars PROVE IInv'
  OBVIOUS
<1>1. ASSUME NEW r \in Requests, PostLoadMessages(r) PROVE IInv'
  BY <1>1, PostLoadMessagesStep
<1>2. ASSUME NEW r \in Requests, Proceed(r) PROVE IInv'
  <2>1. CASE PostLoadSnapshot(r) \/ RunLoadSnapshot(r)
    BY <2>1, LoadSnapshotStep
  <2>2. CASE PostFlush(r)
    BY <2>2, PostFlushStep
  <2>3. CASE \E over \in BOOLEAN, reply \in LlmReplies, fromUser \in BOOLEAN :
                PostCommit(r, over, reply, fromUser)
    BY <2>3, PostCommitStep
  <2>4. CASE RunLoadMessages(r)
    BY <2>4, RunLoadMessagesStep
  <2>5. CASE (\E reply \in LlmReplies : RunCompressor(r, reply)) \/ RunFails(r)
    BY <2>5, ResultStep
  <2>6. CASE RunAnswers(r)
    BY <2>6, GotoStep DEF RunAnswers, At, RunSteps, Steps
  <2>7. CASE RunSave(r)
    BY <2>7, RunSaveStep
  <2>8. CASE RunChatGone(r)
    BY <2>8, GotoStep DEF RunChatGone, At, RunSteps, Steps, Settled
  <2> QED
    BY <1>2, <2>1, <2>2, <2>3, <2>4, <2>5, <2>6, <2>7, <2>8 DEF Proceed
<1>3. ASSUME NEW r \in Requests, PostFails(r) PROVE IInv'
  BY <1>3, PostFailsStep
<1>4. ASSUME NEW r \in Requests, RunSaveFails(r) PROVE IInv'
  BY <1>4, GotoStep DEF RunSaveFails, At, RunSteps, Steps, Settled
<1>5. CASE DeleteChat
  BY <1>5, DeleteStep
<1>6. CASE Crash
  BY <1>6, CrashStep
<1>7. CASE UNCHANGED vars
  BY <1>7 DEF vars, IInv, TypeOK, ChatInv, TurnsWithinAged, RequestInv, At, AgedCount
<1> QED
  BY <1>1, <1>2, <1>3, <1>4, <1>5, <1>6, <1>7 DEF Next, Quiet

\* What sessions have loaded is never ahead of a living chat's rows, a locked chat
\* lives, and a deleted one is empty.
THEOREM ChatInvariant == Spec => []IInv
  BY IInvInit, IInvStep, PTL DEF Spec

\* The chat's rows and what requests hold in memory stay in range.
THEOREM ChatTypes == Spec => []TypeOK
<1>1. IInv => TypeOK
  BY DEF IInv
<1> QED
  BY <1>1, ChatInvariant, PTL

\* snapshot_turn_count never runs ahead of the messages that left the hot window,
\* however many posts and runs overlap.
THEOREM TurnCountBounded == Spec => []TurnsWithinAged
<1>1. IInv => TurnsWithinAged
  BY DEF IInv, ChatInv
<1> QED
  BY <1>1, ChatInvariant, PTL

\* A run sends the orchestrator a history that holds the message it is to answer.
THEOREM QuestionSent == Spec => []QuestionInHistory
<1>1. IInv => QuestionInHistory
  BY DEF IInv, RequestInv, QuestionInHistory
<1> QED
  BY <1>1, ChatInvariant, PTL

\* Nothing under way when the chat is deleted leaves anything in it.
THEOREM DeletedForGood == Spec => []DeletedStaysEmpty
<1>1. IInv => DeletedStaysEmpty
  BY DEF IInv, ChatInv, DeletedStaysEmpty
<1> QED
  BY <1>1, ChatInvariant, PTL

-----------------------------------------------------------------------------
\* The order of the conversation and what is summarised of it.

\* The order of the conversation, of any list of started messages.
Entries(s) == {s[i] : i \in DOMAIN s}
Distinct(s) == \A i, j \in DOMAIN s : s[i] = s[j] => i = j
BeforeIn(s, m, n) == \E i, j \in DOMAIN s : i < j /\ s[i] = m /\ s[j] = n
PlaceIn(s, m, ms) == 1 + Cardinality({n \in ms : BeforeIn(s, n, m)})
BetweenIn(s, ms, first, last) == {m \in ms : PlaceIn(s, m, ms) \in first..last}

\* Every message starts once and is in the order before it is committed or read.
OrderInv ==
    /\ Distinct(started)
    /\ messages \subseteq Entries(started)
    /\ \A r \in Requests :
          /\ req[r].seen \subseteq Entries(started)
          /\ At(r, "idle") => User(r) \notin Entries(started)
          /\ req[r].pc \in {"idle", "scheduled"} \cup PostSteps
                => Reply(r) \notin Entries(started)
          /\ req[r].pc \in PostSteps => User(r) \in Entries(started)
          /\ req[r].pc \in RunSteps => Reply(r) \in Entries(started)

\* Where a run has a snapshot, and what it has made of it: nothing, or one with the
\* count of the aged messages, those not counted before added to the text or not.
RunHasSnapshot == {"run compressor", "run rewriter", "run save"}

WorkOf(s, q) ==
    \/ q.result = q.loaded
    \/ /\ q.result.turns = AgedCount(q.seen)
       /\ q.result.covers \in
            {q.loaded.covers,
             q.loaded.covers \cup BetweenIn(s, q.seen, q.loaded.turns + 1, AgedCount(q.seen))}

\* What a request holds: the message it is about to write comes after all it has read,
\* and the rewriter's snapshot has caught up with the history.
HoldsFor(s, r, q) ==
    /\ q.pc \in PostSteps => \A m \in q.seen : BeforeIn(s, m, User(r))
    /\ q.pc \in RunSteps => \A m \in q.seen : BeforeIn(s, m, Reply(r))
    /\ q.pc \in RunHasSnapshot => WorkOf(s, q)
    /\ q.pc = "run rewriter" => q.result.turns = AgedCount(q.seen)

HistoryInv == OrderInv /\ \A r \in Requests : HoldsFor(started, r, req[r])

\* The order: nothing comes before itself, and what starts later comes last and leaves
\* the order of the rest as it was.
LEMMA NotBeforeItself ==
  ASSUME NEW s \in Seq(Message), Distinct(s), NEW m PROVE ~BeforeIn(s, m, m)
  BY DEF Distinct, BeforeIn

LEMMA OneDirection ==
  ASSUME NEW s \in Seq(Message), Distinct(s), NEW m, NEW n, BeforeIn(s, m, n)
  PROVE  ~BeforeIn(s, n, m)
  BY DEF Distinct, BeforeIn

LEMMA StartsLast ==
  ASSUME NEW s \in Seq(Message), Distinct(s), NEW e \in Message, e \notin Entries(s)
  PROVE  /\ Entries(Append(s, e)) = Entries(s) \cup {e}
         /\ Distinct(Append(s, e))
         /\ \A m \in Entries(s) : BeforeIn(Append(s, e), m, e)
         /\ \A m, n \in Entries(s) : BeforeIn(Append(s, e), m, n) <=> BeforeIn(s, m, n)
<1> DEFINE t == Append(s, e)
<1>1. /\ Len(s) \in Nat /\ DOMAIN s = 1..Len(s) /\ DOMAIN t = 1..(Len(s) + 1)
      /\ t[Len(s) + 1] = e
      /\ \A i \in 1..Len(s) : t[i] = s[i]
  OBVIOUS
<1> HIDE DEF t
<1>2. \A i \in DOMAIN t : i \in DOMAIN s \/ i = Len(s) + 1
  BY <1>1
<1>3. \A i \in DOMAIN s : s[i] \in Entries(s) /\ s[i] # e /\ i \in DOMAIN t /\ i < Len(s) + 1
  BY <1>1 DEF Entries
<1>4. Entries(t) = Entries(s) \cup {e}
  BY <1>1, <1>2, <1>3 DEF Entries
<1>5. Distinct(t)
  BY <1>1, <1>2, <1>3 DEF Distinct
<1>6. ASSUME NEW m \in Entries(s) PROVE BeforeIn(t, m, e)
  <2>1. PICK i \in DOMAIN s : s[i] = m
    BY DEF Entries
  <2> QED
    BY <1>1, <1>3, <2>1 DEF BeforeIn
<1>7. ASSUME NEW m \in Entries(s), NEW n \in Entries(s)
      PROVE  BeforeIn(t, m, n) <=> BeforeIn(s, m, n)
  <2>1. m # e /\ n # e
    OBVIOUS
  <2>2. ASSUME BeforeIn(t, m, n) PROVE BeforeIn(s, m, n)
    <3>1. PICK i, j \in DOMAIN t : i < j /\ t[i] = m /\ t[j] = n
      BY <2>2 DEF BeforeIn
    <3>2. i \in DOMAIN s /\ j \in DOMAIN s
      BY <1>1, <1>2, <2>1, <3>1
    <3> QED
      BY <1>1, <3>1, <3>2 DEF BeforeIn
  <2>3. ASSUME BeforeIn(s, m, n) PROVE BeforeIn(t, m, n)
    <3>1. PICK i, j \in DOMAIN s : i < j /\ s[i] = m /\ s[j] = n
      BY <2>3 DEF BeforeIn
    <3> QED
      BY <1>1, <1>3, <3>1 DEF BeforeIn
  <2> QED
    BY <2>2, <2>3
<1> QED
  BY <1>4, <1>5, <1>6, <1>7 DEF t

\* A message of a history has one of its places.
LEMMA PlaceRange ==
  ASSUME NEW s \in Seq(Message), Distinct(s), NEW ms, IsFiniteSet(ms), NEW m \in ms
  PROVE  PlaceIn(s, m, ms) \in 1..Cardinality(ms)
<1> DEFINE earlier == {n \in ms : BeforeIn(s, n, m)}
<1>1. earlier \subseteq ms \ {m}
  BY NotBeforeItself
<1>2. IsFiniteSet(ms \ {m}) /\ Cardinality(ms \ {m}) = Cardinality(ms) - 1
  BY FS_RemoveElement
<1>3. IsFiniteSet(earlier) /\ Cardinality(earlier) <= Cardinality(ms \ {m})
  BY <1>1, <1>2, FS_Subset
<1>4. Cardinality(earlier) \in Nat /\ Cardinality(ms) \in Nat
  BY <1>3, FS_CardinalityType
<1> QED
  BY <1>2, <1>3, <1>4 DEF PlaceIn

\* The places of a history do not depend on what has started since.
LEMMA SameHistory ==
  ASSUME NEW s \in Seq(Message), Distinct(s), NEW e \in Message, e \notin Entries(s),
         NEW ms \in SUBSET Entries(s), NEW first, NEW last
  PROVE  BetweenIn(Append(s, e), ms, first, last) = BetweenIn(s, ms, first, last)
<1>1. \A m, n \in ms : BeforeIn(Append(s, e), m, n) <=> BeforeIn(s, m, n)
  BY StartsLast
<1>2. ASSUME NEW m \in ms PROVE PlaceIn(Append(s, e), m, ms) = PlaceIn(s, m, ms)
  <2>1. {n \in ms : BeforeIn(Append(s, e), n, m)} = {n \in ms : BeforeIn(s, n, m)}
    BY <1>1
  <2> QED
    BY <2>1 DEF PlaceIn
<1> QED
  BY <1>2 DEF BetweenIn

\* A message that comes last takes the place after all others.
LEMMA CommitsLast ==
  ASSUME NEW s \in Seq(Message), Distinct(s), NEW ms, IsFiniteSet(ms), NEW e,
         \A m \in ms : BeforeIn(s, m, e)
  PROVE  /\ e \notin ms
         /\ \A m \in ms : PlaceIn(s, m, ms \cup {e}) = PlaceIn(s, m, ms)
         /\ PlaceIn(s, e, ms \cup {e}) = 1 + Cardinality(ms)
<1> DEFINE more == ms \cup {e}
<1>1. ~BeforeIn(s, e, e) /\ \A m \in ms : ~BeforeIn(s, e, m)
  BY NotBeforeItself, OneDirection
<1>2. e \notin ms
  BY <1>1
<1>3. ASSUME NEW m \in ms PROVE PlaceIn(s, m, more) = PlaceIn(s, m, ms)
  <2>1. {n \in more : BeforeIn(s, n, m)} = {n \in ms : BeforeIn(s, n, m)}
    BY <1>1
  <2> QED
    BY <2>1 DEF PlaceIn
<1>4. PlaceIn(s, e, more) = 1 + Cardinality(ms)
  <2>1. {n \in more : BeforeIn(s, n, e)} = ms
    BY <1>1
  <2> QED
    BY <2>1 DEF PlaceIn
<1> QED
  BY <1>2, <1>3, <1>4

\* The aged messages are some of the messages, and what is after them is hot.
LEMMA AgedRange ==
  ASSUME NEW ms, IsFiniteSet(ms)
  PROVE  /\ AgedCount(ms) \in Nat /\ Cardinality(ms) \in Nat
         /\ AgedCount(ms) <= Cardinality(ms)
<1>1. Cardinality(ms) \in Nat
  BY FS_CardinalityType
<1> QED
  BY <1>1 DEF AgedCount

\* The names of the model are those of the lemmas about the order.
LEMMA BetweenIsIn ==
  ASSUME NEW ms, NEW first, NEW last
  PROVE  Between(ms, first, last) = BetweenIn(started, ms, first, last)
  BY DEF Between, BetweenIn, Place, PlaceIn, Before, BeforeIn

\* What a snapshot has lost of a history, what it covers early, and what a new one only
\* counts.
LostIn(s, ms, snap) == BetweenIn(s, ms, 1, snap.turns) \ snap.covers
EarlyIn(s, ms, snap) == snap.covers \ BetweenIn(s, ms, 1, snap.turns)
OnlyCounted(s, ms, old, new) ==
    IF new.covers = old.covers THEN BetweenIn(s, ms, old.turns + 1, new.turns) ELSE {}

-----------------------------------------------------------------------------
\* Frames.

\* A step of a request keeps the order when it starts a message of its own, or none.
LEMMA OrderStep ==
  ASSUME TypeOK, OrderInv, NEW r \in Requests, NEW new \in Request,
         req' = [req EXCEPT ![r] = new],
         \/ /\ started' = started
            /\ new.pc \in {"scheduled"} \cup PostSteps => req[r].pc \in PostSteps
            /\ new.pc \in RunSteps => req[r].pc \in RunSteps
         \/ /\ started' = Append(started, User(r))
            /\ At(r, "idle") /\ new.pc = "post snapshot"
         \/ /\ started' = Append(started, Reply(r))
            /\ At(r, "scheduled") /\ new.pc = "run snapshot",
         new.pc # "idle",
         new.seen \in {req[r].seen, messages},
         messages' \subseteq Entries(started)
  PROVE  OrderInv' /\ Entries(started) \subseteq Entries(started')
<1>1. started \in Seq(Message) /\ req'[r] = new /\ \A q \in Requests : q # r => req'[q] = req[q]
  BY DEF TypeOK
<1>2. \A q \in Requests : /\ User(q) \in Message /\ Reply(q) \in Message
                          /\ User(q) # Reply(r) /\ Reply(q) # User(r)
                          /\ q # r => User(q) # User(r) /\ Reply(q) # Reply(r)
  BY DEF User, Reply, Message
<1>3. PICK own \in {{}, {User(r)}, {Reply(r)}} :
        /\ Entries(started') = Entries(started) \cup own
        /\ Distinct(started')
        /\ own = {} => /\ new.pc \in {"scheduled"} \cup PostSteps => req[r].pc \in PostSteps
                       /\ new.pc \in RunSteps => req[r].pc \in RunSteps
        /\ own = {User(r)} => At(r, "idle") /\ new.pc = "post snapshot"
        /\ own = {Reply(r)} => At(r, "scheduled") /\ new.pc = "run snapshot"
  <2>1. CASE /\ started' = started
             /\ new.pc \in {"scheduled"} \cup PostSteps => req[r].pc \in PostSteps
             /\ new.pc \in RunSteps => req[r].pc \in RunSteps
    <3>1. Entries(started') = Entries(started) \cup {} /\ Distinct(started')
      BY <2>1 DEF OrderInv
    <3> QED
      BY <1>2, <2>1, <3>1
  <2>2. CASE /\ started' = Append(started, User(r))
             /\ At(r, "idle") /\ new.pc = "post snapshot"
    <3>1. User(r) \notin Entries(started) /\ Distinct(started)
      BY <2>2 DEF OrderInv
    <3> QED
      BY <1>1, <1>2, <2>2, <3>1, StartsLast
  <2>3. CASE /\ started' = Append(started, Reply(r))
             /\ At(r, "scheduled") /\ new.pc = "run snapshot"
    <3>1. Reply(r) \notin Entries(started) /\ Distinct(started)
      BY <2>3 DEF OrderInv, At
    <3> QED
      BY <1>1, <1>2, <2>3, <3>1, StartsLast
  <2> QED
    BY <2>1, <2>2, <2>3
<1>4. ASSUME NEW q \in Requests, q # r
      PROVE  /\ req'[q].seen \subseteq Entries(started')
             /\ At(q, "idle")' => User(q) \notin Entries(started')
             /\ req'[q].pc \in {"idle", "scheduled"} \cup PostSteps
                   => Reply(q) \notin Entries(started')
             /\ req'[q].pc \in PostSteps => User(q) \in Entries(started')
             /\ req'[q].pc \in RunSteps => Reply(q) \in Entries(started')
  BY <1>1, <1>2, <1>3, <1>4 DEF OrderInv, At
<1>5. /\ req'[r].seen \subseteq Entries(started')
      /\ ~At(r, "idle")'
      /\ req'[r].pc \in {"idle", "scheduled"} \cup PostSteps
            => Reply(r) \notin Entries(started')
      /\ req'[r].pc \in PostSteps => User(r) \in Entries(started')
      /\ req'[r].pc \in RunSteps => Reply(r) \in Entries(started')
  <2>1. req'[r].seen \subseteq Entries(started') /\ ~At(r, "idle")'
    BY <1>1, <1>3 DEF OrderInv, At
  <2>2. CASE own = {}
    BY <1>1, <1>3, <2>1, <2>2 DEF OrderInv, At
  <2>3. CASE own = {User(r)}
    <3>1. Reply(r) \notin Entries(started')
      BY <1>2, <1>3, <2>3 DEF OrderInv, At
    <3> QED
      BY <1>1, <1>3, <2>1, <2>3, <3>1 DEF PostSteps, RunSteps
  <2>4. CASE own = {Reply(r)}
    BY <1>1, <1>3, <2>1, <2>4 DEF PostSteps, RunSteps
  <2> QED
    BY <2>2, <2>3, <2>4
<1>6. Entries(started') = (Entries(started))'
  BY DEF Entries
<1>7. Distinct(started') = Distinct(started)'
  BY DEF Distinct
<1> QED
  BY <1>3, <1>4, <1>5, <1>6, <1>7 DEF OrderInv

\* What a request holds stays true of it while others start messages.
LEMMA StillHolds ==
  ASSUME NEW s \in Seq(Message), Distinct(s), NEW e \in Message, e \notin Entries(s),
         NEW r \in Requests, NEW q \in Request, q.seen \subseteq Entries(s),
         q.pc \in PostSteps => User(r) \in Entries(s),
         q.pc \in RunSteps => Reply(r) \in Entries(s),
         HoldsFor(s, r, q)
  PROVE  HoldsFor(Append(s, e), r, q)
<1>1. \A m, n \in Entries(s) : BeforeIn(Append(s, e), m, n) <=> BeforeIn(s, m, n)
  BY StartsLast
<1>2. \A first, last : BetweenIn(Append(s, e), q.seen, first, last)
                         = BetweenIn(s, q.seen, first, last)
  BY SameHistory
<1>3. WorkOf(s, q) => WorkOf(Append(s, e), q)
  BY <1>2 DEF WorkOf
<1> QED
  BY <1>1, <1>3 DEF HoldsFor

\* Priming what a request holds primes its parts.
LEMMA HoldsPrimed ==
  ASSUME NEW r \in Requests
  PROVE  HoldsFor(started', r, req'[r]) <=> HoldsFor(started, r, req[r])'
  BY DEF HoldsFor, WorkOf, BetweenIn, PlaceIn, BeforeIn, AgedCount

\* A step of one request that leaves it holding what it should.
LEMMA HistoryStep ==
  ASSUME TypeOK, HistoryInv, NEW r \in Requests, NEW new \in Request,
         req' = [req EXCEPT ![r] = new],
         \/ /\ started' = started
            /\ new.pc \in {"scheduled"} \cup PostSteps => req[r].pc \in PostSteps
            /\ new.pc \in RunSteps => req[r].pc \in RunSteps
         \/ /\ started' = Append(started, User(r))
            /\ At(r, "idle") /\ new.pc = "post snapshot"
         \/ /\ started' = Append(started, Reply(r))
            /\ At(r, "scheduled") /\ new.pc = "run snapshot",
         new.pc # "idle",
         new.seen \in {req[r].seen, messages},
         messages' \subseteq Entries(started),
         HoldsFor(started', r, new)
  PROVE  HistoryInv'
<1>1. OrderInv' /\ Entries(started) \subseteq Entries(started')
  BY OrderStep DEF HistoryInv
<1>2. req'[r] = new /\ \A q \in Requests : q # r => req'[q] = req[q]
  BY DEF TypeOK
<1>3. \/ started' = started
      \/ \E e \in Message : e \notin Entries(started) /\ started' = Append(started, e)
  BY OwnMessages DEF HistoryInv, OrderInv, At
<1>4. ASSUME NEW q \in Requests, q # r PROVE HoldsFor(started', q, req'[q])
  <2>1. HoldsFor(started, q, req[q]) /\ req'[q] = req[q]
    BY <1>2, <1>4 DEF HistoryInv
  <2>2. CASE started' = started
    BY <2>1, <2>2
  <2>3. ASSUME NEW e \in Message, e \notin Entries(started), started' = Append(started, e)
        PROVE  HoldsFor(started', q, req'[q])
    <3>1. /\ req[q] \in Request /\ started \in Seq(Message) /\ Distinct(started)
          /\ req[q].seen \subseteq Entries(started)
          /\ req[q].pc \in PostSteps => User(q) \in Entries(started)
          /\ req[q].pc \in RunSteps => Reply(q) \in Entries(started)
      BY DEF TypeOK, HistoryInv, OrderInv, Request
    <3> QED
      BY <2>1, <2>3, <3>1, StillHolds
  <2> QED
    BY <1>3, <2>2, <2>3
<1>5. \A q \in Requests : HoldsFor(started', q, req'[q])
  BY <1>2, <1>4
<1> QED
  BY <1>1, <1>5, HoldsPrimed DEF HistoryInv

\* A request that only moves on, to a place where it need not hold more.
LEMMA MovesOn ==
  ASSUME TypeOK, HistoryInv, NEW r \in Requests, NEW step \in Steps, Goto(r, step),
         step \notin {"idle", "run rewriter"},
         step \in {"scheduled"} \cup PostSteps => req[r].pc \in PostSteps,
         step \in RunSteps => req[r].pc \in RunSteps,
         step \in RunHasSnapshot => req[r].pc \in RunHasSnapshot,
         UNCHANGED started,
         messages' \subseteq Entries(started)
  PROVE  HistoryInv'
<1> DEFINE new == [req[r] EXCEPT !.pc = step]
<1>1. req[r] \in Request
  BY DEF TypeOK, Request
<1>2. /\ new \in Request /\ new.pc = step /\ new.seen = req[r].seen
      /\ new.loaded = req[r].loaded /\ new.result = req[r].result
  BY <1>1 DEF Request
<1>3. req' = [req EXCEPT ![r] = new]
  BY DEF Goto, TypeOK
<1>4. HoldsFor(started, r, req[r])
  BY DEF HistoryInv
<1> HIDE DEF new
<1>5. WorkOf(started, req[r]) => WorkOf(started, new)
  BY <1>2 DEF WorkOf
<1>6. HoldsFor(started', r, new)
  BY <1>2, <1>4, <1>5 DEF HoldsFor, PostSteps
<1> QED
  BY <1>2, <1>3, <1>6, HistoryStep

-----------------------------------------------------------------------------
\* The steps.

\* A message starts after all that its session then reads.
LEMMA StartsHistory ==
  ASSUME IInv, HistoryInv, NEW r \in Requests,
         PostLoadMessages(r) \/ (RunLoadMessages(r) /\ chat = "live")
  PROVE  HistoryInv'
<1>1. /\ started \in Seq(Message) /\ Distinct(started) /\ messages \subseteq Entries(started)
      /\ req[r] \in Request /\ messages' = messages /\ messages \subseteq Message
  BY DEF IInv, TypeOK, HistoryInv, OrderInv, Request, PostLoadMessages, RunLoadMessages
<1>2. CASE PostLoadMessages(r)
  <2> DEFINE new == [Idle EXCEPT !.pc = "post snapshot", !.seen = messages,
                                 !.pending = compression_pending]
  <2>1. /\ new \in Request /\ new.pc = "post snapshot" /\ new.seen = messages
    BY <1>1 DEF Idle, Request, IInv, TypeOK, Steps, PostSteps, EmptySnapshot, Snapshot
  <2>2. /\ req' = [req EXCEPT ![r] = new] /\ started' = Append(started, User(r))
        /\ At(r, "idle") /\ User(r) \notin Entries(started)
    BY <1>2 DEF PostLoadMessages, HistoryInv, OrderInv
  <2> HIDE DEF new
  <2>3. \A m \in messages : BeforeIn(started', m, User(r))
    BY <1>1, <2>2, StartsLast, OwnMessages
  <2>4. HoldsFor(started', r, new)
    BY <2>1, <2>3 DEF HoldsFor, RunSteps, RunHasSnapshot
  <2> QED
    BY <1>1, <2>1, <2>2, <2>4, HistoryStep DEF IInv
<1>3. CASE RunLoadMessages(r) /\ chat = "live"
  <2> DEFINE new == [req[r] EXCEPT !.pc = "run snapshot", !.seen = messages]
  <2>1. /\ new \in Request /\ new.pc = "run snapshot" /\ new.seen = messages
    BY <1>1 DEF Request, Steps, RunSteps
  <2>2. /\ req' = [req EXCEPT ![r] = new] /\ started' = Append(started, Reply(r))
        /\ At(r, "scheduled") /\ Reply(r) \notin Entries(started)
    BY <1>3 DEF RunLoadMessages, HistoryInv, OrderInv, IInv, TypeOK, At
  <2> HIDE DEF new
  <2>3. \A m \in messages : BeforeIn(started', m, Reply(r))
    BY <1>1, <2>2, StartsLast, OwnMessages
  <2>4. HoldsFor(started', r, new)
    BY <2>1, <2>3 DEF HoldsFor, PostSteps, RunHasSnapshot
  <2> QED
    BY <1>1, <2>1, <2>2, <2>4, HistoryStep DEF IInv
<1> QED
  BY <1>2, <1>3

\* A session reads the snapshot; a run hands it on as it is until it is compressed.
LEMMA ReadsHistory ==
  ASSUME IInv, HistoryInv, NEW r \in Requests, PostLoadSnapshot(r) \/ RunLoadSnapshot(r)
  PROVE  HistoryInv'
<1>1. /\ req[r] \in Request /\ snapshot \in Snapshot /\ messages' = messages
      /\ started' = started /\ messages \subseteq Entries(started)
      /\ HoldsFor(started, r, req[r])
  BY DEF IInv, TypeOK, HistoryInv, OrderInv, Request, PostLoadSnapshot, RunLoadSnapshot
<1>2. CASE PostLoadSnapshot(r)
  <2> DEFINE new == [req[r] EXCEPT !.pc = "post flush", !.loaded = snapshot]
  <2>1. /\ new \in Request /\ new.pc = "post flush" /\ new.seen = req[r].seen
    BY <1>1 DEF Request, Steps, PostSteps
  <2>2. req' = [req EXCEPT ![r] = new] /\ req[r].pc = "post snapshot"
    BY <1>2 DEF PostLoadSnapshot, IInv, TypeOK, At
  <2> HIDE DEF new
  <2>3. HoldsFor(started', r, new)
    BY <1>1, <2>1, <2>2 DEF HoldsFor, PostSteps, RunSteps, RunHasSnapshot
  <2> QED
    BY <1>1, <2>1, <2>2, <2>3, HistoryStep DEF IInv, PostSteps, RunSteps
<1>3. CASE RunLoadSnapshot(r)
  <2> DEFINE new == [req[r] EXCEPT !.pc = "run compressor", !.loaded = snapshot,
                                   !.result = snapshot]
  <2>1. /\ new \in Request /\ new.pc = "run compressor" /\ new.seen = req[r].seen
        /\ new.result = new.loaded
    BY <1>1 DEF Request, Steps, RunSteps
  <2>2. req' = [req EXCEPT ![r] = new] /\ req[r].pc = "run snapshot"
    BY <1>3 DEF RunLoadSnapshot, IInv, TypeOK, At
  <2> HIDE DEF new
  <2>3. HoldsFor(started', r, new)
    BY <1>1, <2>1, <2>2 DEF HoldsFor, WorkOf, PostSteps, RunSteps
  <2> QED
    BY <1>1, <2>1, <2>2, <2>3, HistoryStep DEF IInv, PostSteps, RunSteps
<1> QED
  BY <1>2, <1>3

\* The compressor leaves the snapshot alone when the count is right, and otherwise adds
\* the aged messages or, told nothing of use, only counts them; a failure takes the
\* loaded one back.
LEMMA WorksOnHistory ==
  ASSUME IInv, HistoryInv, NEW r \in Requests,
         (\E reply \in LlmReplies : RunCompressor(r, reply)) \/ RunFails(r)
  PROVE  HistoryInv'
<1>1. /\ req[r] \in Request /\ messages' = messages
      /\ started' = started /\ messages \subseteq Entries(started)
      /\ HoldsFor(started, r, req[r]) /\ IsFiniteSet(req[r].seen)
  BY DEF IInv, TypeOK, HistoryInv, OrderInv, Request, RequestInv, RunCompressor, RunFails
<1>2. ASSUME NEW reply \in LlmReplies, RunCompressor(r, reply) PROVE HistoryInv'
  <2> DEFINE result == IF AgedCount(req[r].seen) = req[r].loaded.turns
                       THEN req[r].loaded
                       ELSE Compress(req[r].loaded, req[r].seen, reply)
             new == [req[r] EXCEPT !.pc = "run rewriter", !.result = result]
  <2>1. Compress(req[r].loaded, req[r].seen, reply) \in Snapshot
    BY <1>1, CompressType DEF Request
  <2>2. result \in Snapshot
    BY <1>1, <2>1 DEF Request
  <2>3. /\ result.turns = AgedCount(req[r].seen)
        /\ \/ result = req[r].loaded
           \/ result.covers \in
                {req[r].loaded.covers,
                 req[r].loaded.covers \cup BetweenIn(started, req[r].seen,
                                          req[r].loaded.turns + 1, AgedCount(req[r].seen))}
    <3>1. CASE AgedCount(req[r].seen) = req[r].loaded.turns
      BY <3>1
    <3>2. CASE AgedCount(req[r].seen) # req[r].loaded.turns
      <4>1. result = Compress(req[r].loaded, req[r].seen, reply)
        BY <3>2
      <4> HIDE DEF result
      <4> QED
        BY <4>1, BetweenIsIn DEF Compress
    <3> QED
      BY <3>1, <3>2
  <2>4. req' = [req EXCEPT ![r] = new] /\ req[r].pc = "run compressor"
    BY <1>2 DEF RunCompressor, IInv, TypeOK, At
  <2> HIDE DEF result
  <2>5. /\ new \in Request /\ new.pc = "run rewriter" /\ new.seen = req[r].seen
        /\ new.loaded = req[r].loaded /\ new.result = result
    BY <1>1, <2>2 DEF Request, Steps, RunSteps
  <2> HIDE DEF new
  <2>6. WorkOf(started, new) /\ new.result.turns = AgedCount(new.seen)
    BY <2>3, <2>5 DEF WorkOf
  <2>7. HoldsFor(started', r, new)
    BY <1>1, <2>4, <2>5, <2>6 DEF HoldsFor, PostSteps, RunSteps
  <2> QED
    BY <1>1, <2>4, <2>5, <2>7, HistoryStep DEF IInv, PostSteps, RunSteps
<1>3. CASE RunFails(r)
  <2> DEFINE new == [req[r] EXCEPT !.pc = "run save", !.result = req[r].loaded]
  <2>1. /\ new \in Request /\ new.pc = "run save" /\ new.seen = req[r].seen
        /\ new.result = new.loaded
    BY <1>1 DEF Request, Steps, RunSteps
  <2>2. req' = [req EXCEPT ![r] = new] /\ req[r].pc \in {"run compressor", "run rewriter"}
    BY <1>3 DEF RunFails, IInv, TypeOK
  <2> HIDE DEF new
  <2>3. HoldsFor(started', r, new)
    BY <1>1, <2>1, <2>2 DEF HoldsFor, WorkOf, PostSteps, RunSteps
  <2> QED
    BY <1>1, <2>1, <2>2, <2>3, HistoryStep DEF IInv, PostSteps, RunSteps
<1> QED
  BY <1>2, <1>3

\* Every step of a request keeps what the requests hold.
LEMMA ProceedHistory ==
  ASSUME IInv, HistoryInv, NEW r \in Requests, Proceed(r) PROVE HistoryInv'
<1>1. /\ messages \subseteq Entries(started) /\ TypeOK
      /\ req[r].pc \in PostSteps => User(r) \in Entries(started)
      /\ req[r].pc \in RunSteps => Reply(r) \in Entries(started)
  BY DEF HistoryInv, OrderInv, IInv
<1> USE DEF At, Steps, PostSteps, RunSteps, RunHasSnapshot, Settled
<1>2. CASE PostLoadSnapshot(r) \/ RunLoadSnapshot(r)
  BY <1>2, ReadsHistory
<1>3. CASE PostFlush(r)
  <2>1. Goto(r, "post commit") \/ Goto(r, "failed")
    BY <1>3 DEF PostFlush
  <2>2. req[r].pc = "post flush" /\ UNCHANGED <<started, messages>>
    BY <1>3 DEF PostFlush
  <2> QED
    BY <1>1, <2>1, <2>2, MovesOn
<1>4. ASSUME NEW over \in BOOLEAN, NEW reply \in LlmReplies, NEW fromUser \in BOOLEAN,
             PostCommit(r, over, reply, fromUser)
      PROVE  HistoryInv'
  <2>1. /\ Goto(r, "scheduled") \/ Goto(r, "closed")
        /\ req[r].pc = "post commit" /\ started' = started
        /\ messages' = messages \cup {User(r)}
    BY <1>4 DEF PostCommit
  <2> QED
    BY <1>1, <2>1, MovesOn
<1>5. CASE RunLoadMessages(r)
  <2>1. CASE chat = "live"
    BY <1>5, <2>1, StartsHistory
  <2>2. CASE chat # "live"
    <3>1. Goto(r, "closed") /\ UNCHANGED <<started, messages>> /\ req[r].pc = "scheduled"
      BY <1>5, <2>2 DEF RunLoadMessages
    <3> QED
      BY <1>1, <3>1, MovesOn
  <2> QED
    BY <2>1, <2>2
<1>6. CASE (\E reply \in LlmReplies : RunCompressor(r, reply)) \/ RunFails(r)
  BY <1>6, WorksOnHistory
<1>7. CASE RunAnswers(r)
  <2>1. Goto(r, "run save") /\ UNCHANGED <<started, messages>> /\ req[r].pc = "run rewriter"
    BY <1>7 DEF RunAnswers
  <2> QED
    BY <1>1, <2>1, MovesOn
<1>8. CASE RunSave(r)
  <2>1. /\ Goto(r, "answered") /\ started' = started /\ req[r].pc = "run save"
        /\ messages' = messages \cup {Reply(r)}
    BY <1>8 DEF RunSave
  <2> QED
    BY <1>1, <2>1, MovesOn
<1>9. CASE RunChatGone(r)
  <2>1. Goto(r, "closed") /\ UNCHANGED <<started, messages>> /\ req[r].pc = "run save"
    BY <1>9 DEF RunChatGone
  <2> QED
    BY <1>1, <2>1, MovesOn
<1> QED
  BY <1>2, <1>3, <1>4, <1>5, <1>6, <1>7, <1>8, <1>9 DEF Proceed

\* A deletion and a crash take messages and requests away and start nothing.
LEMMA DeletesHistory == ASSUME IInv, HistoryInv, DeleteChat PROVE HistoryInv'
<1>1. UNCHANGED <<started, req>> /\ messages' = {}
  BY DEF DeleteChat
<1>2. OrderInv'
  BY <1>1 DEF HistoryInv, OrderInv, At
<1>3. \A r \in Requests : HoldsFor(started, r, req[r])'
  BY <1>1, HoldsPrimed DEF HistoryInv
<1> QED
  BY <1>2, <1>3 DEF HistoryInv

LEMMA CrashHistory == ASSUME IInv, HistoryInv, Crash PROVE HistoryInv'
<1>1. UNCHANGED <<started, messages>> /\ req \in [Requests -> Request]
  BY DEF Crash, IInv, TypeOK, Request
<1>2. ASSUME NEW r \in Requests
      PROVE  /\ req'[r].seen = req[r].seen
             /\ req'[r] = req[r] \/ req'[r].pc = "crashed"
  BY <1>1 DEF Crash, Request
<1>3. OrderInv'
  BY <1>1, <1>2 DEF HistoryInv, OrderInv, At, PostSteps, RunSteps
<1>4. ASSUME NEW r \in Requests PROVE HoldsFor(started, r, req[r])'
  <2>1. CASE req'[r] = req[r]
    BY <1>1, <2>1, HoldsPrimed DEF HistoryInv
  <2>2. CASE req'[r].pc = "crashed"
    BY <2>2 DEF HoldsFor, PostSteps, RunSteps, RunHasSnapshot
  <2> QED
    BY <1>2, <2>1, <2>2
<1> QED
  BY <1>3, <1>4 DEF HistoryInv

LEMMA HistoryInit == Init => HistoryInv
<1> SUFFICES ASSUME Init PROVE HistoryInv
  OBVIOUS
<1>1. Entries(started) = {} /\ Distinct(started)
  BY DEF Init, Entries, Distinct
<1>2. \A r \in Requests : req[r].pc = "idle" /\ req[r].seen = {}
  BY DEF Init, Idle
<1>3. OrderInv
  BY <1>1, <1>2 DEF Init, OrderInv, At, PostSteps, RunSteps
<1> QED
  BY <1>2, <1>3 DEF HistoryInv, HoldsFor, PostSteps, RunSteps, RunHasSnapshot

LEMMA HistoryNext == ASSUME IInv, HistoryInv, [Next]_vars PROVE HistoryInv'
<1>1. ASSUME NEW r \in Requests, PostLoadMessages(r) PROVE HistoryInv'
  BY <1>1, StartsHistory
<1>2. ASSUME NEW r \in Requests, Proceed(r) PROVE HistoryInv'
  BY <1>2, ProceedHistory
<1>3. ASSUME NEW r \in Requests, PostFails(r) \/ RunSaveFails(r) PROVE HistoryInv'
  <2>1. /\ Goto(r, "failed") \/ Goto(r, "lost")
        /\ UNCHANGED <<started, messages>>
    BY <1>3 DEF PostFails, RunSaveFails
  <2>2. messages \subseteq Entries(started) /\ TypeOK
    BY DEF HistoryInv, OrderInv, IInv
  <2> QED
    BY <2>1, <2>2, MovesOn DEF Steps, Settled, PostSteps, RunSteps, RunHasSnapshot
<1>4. CASE DeleteChat
  BY <1>4, DeletesHistory
<1>5. CASE Crash
  BY <1>5, CrashHistory
<1>6. CASE UNCHANGED vars
  <2>1. UNCHANGED <<started, messages, req>>
    BY <1>6 DEF vars
  <2>2. OrderInv'
    BY <2>1 DEF HistoryInv, OrderInv, At
  <2>3. \A r \in Requests : HoldsFor(started, r, req[r])'
    BY <2>1, HoldsPrimed DEF HistoryInv
  <2> QED
    BY <2>2, <2>3 DEF HistoryInv
<1> QED
  BY <1>1, <1>2, <1>3, <1>4, <1>5, <1>6 DEF Next, Quiet

\* Every message starts once, a session writes its message after all it has read, and a
\* run's snapshot is the loaded one, or that with the aged messages counted and added to
\* the text or not.
THEOREM HistoryInvariant == Spec => []HistoryInv
<1>1. Init => HistoryInv
  BY HistoryInit
<1>2. IInv /\ HistoryInv /\ [Next]_vars => HistoryInv'
  BY HistoryNext
<1> QED
  BY <1>1, <1>2, ChatInvariant, PTL DEF Spec

-----------------------------------------------------------------------------
\* What commits write.

\* A flush of a session that has loaded the row as it is writes what the session has.
LEMMA WriteThrough ==
  ASSUME NEW row \in Snapshot, NEW new \in Snapshot PROVE WriteDirty(row, row, new) = new
  BY DEF WriteDirty, Snapshot

\* A step that writes the snapshot of a living chat.
Commit(r) ==
    \/ \E over \in BOOLEAN, reply \in LlmReplies, fromUser \in BOOLEAN :
          PostCommit(r, over, reply, fromUser)
    \/ RunSave(r)

\* A session that nobody has overtaken writes a summary of the rows as they are.
LEMMA CommitWrites ==
  ASSUME IInv, HistoryInv, NEW r \in Requests, Commit(r),
         req[r].seen = messages, req[r].loaded = snapshot
  PROVE  \E e \in Message :
           /\ messages' = messages \cup {e} /\ started' = started
           /\ \A m \in messages : BeforeIn(started, m, e)
           /\ snapshot' \in Snapshot
           /\ \/ snapshot' = snapshot
              \/ \E h \in {messages, messages \cup {e}} :
                   /\ snapshot'.turns = AgedCount(h)
                   /\ snapshot'.covers \in
                        {snapshot.covers,
                         snapshot.covers \cup
                           BetweenIn(started, h, snapshot.turns + 1, AgedCount(h))}
<1>1. /\ snapshot \in Snapshot /\ messages \subseteq Message /\ IsFiniteSet(messages)
      /\ req[r].result \in Snapshot /\ HoldsFor(started, r, req[r])
  BY DEF IInv, TypeOK, ChatInv, HistoryInv
<1>2. ASSUME NEW over \in BOOLEAN, NEW reply \in LlmReplies, NEW fromUser \in BOOLEAN,
             PostCommit(r, over, reply, fromUser)
      PROVE  /\ messages' = messages \cup {User(r)} /\ started' = started
             /\ \A m \in messages : BeforeIn(started, m, User(r))
             /\ snapshot' \in Snapshot
             /\ \/ snapshot' = snapshot
                \/ LET h == messages \cup {User(r)}
                   IN  /\ snapshot'.turns = AgedCount(h)
                       /\ snapshot'.covers \in
                            {snapshot.covers,
                             snapshot.covers \cup
                               BetweenIn(started, h, snapshot.turns + 1, AgedCount(h))}
  <2> DEFINE own == messages \cup {User(r)}
             updates == over /\ AgedCount(own) > snapshot.turns /\ reply # "http error"
             new == IF updates THEN Compress(snapshot, own, reply) ELSE snapshot
  <2>1. /\ messages' = own /\ started' = started /\ req[r].pc = "post commit"
        /\ snapshot' = WriteDirty(snapshot, snapshot, new)
    BY <1>2 DEF PostCommit, At
  <2>2. IsFiniteSet(own) /\ own \in SUBSET Message
    BY <1>1, FS_AddElement, OwnMessages
  <2>3. Compress(snapshot, own, reply) \in Snapshot
    BY <1>1, <2>2, CompressType
  <2>4. new \in Snapshot /\ (new = snapshot \/ new = Compress(snapshot, own, reply))
    BY <1>1, <2>3
  <2> HIDE DEF new, updates
  <2>5. snapshot' = new
    BY <1>1, <2>1, <2>4, WriteThrough
  <2>6. \A m \in messages : BeforeIn(started, m, User(r))
    BY <1>1, <2>1 DEF HoldsFor, PostSteps
  <2>7. new = Compress(snapshot, own, reply) =>
          /\ new.turns = AgedCount(own)
          /\ new.covers \in {snapshot.covers,
                             snapshot.covers \cup
                               BetweenIn(started, own, snapshot.turns + 1, AgedCount(own))}
    BY BetweenIsIn DEF Compress
  <2> QED
    BY <2>1, <2>4, <2>5, <2>6, <2>7
<1>3. ASSUME RunSave(r)
      PROVE  /\ messages' = messages \cup {Reply(r)} /\ started' = started
             /\ \A m \in messages : BeforeIn(started, m, Reply(r))
             /\ snapshot' \in Snapshot
             /\ \/ snapshot' = snapshot
                \/ /\ snapshot'.turns = AgedCount(messages)
                   /\ snapshot'.covers \in
                        {snapshot.covers,
                         snapshot.covers \cup
                           BetweenIn(started, messages, snapshot.turns + 1, AgedCount(messages))}
  <2>1. /\ messages' = messages \cup {Reply(r)} /\ started' = started
        /\ req[r].pc = "run save"
        /\ snapshot' = WriteDirty(snapshot, snapshot, req[r].result)
    BY <1>3 DEF RunSave, At
  <2>2. snapshot' = req[r].result
    BY <1>1, <2>1, WriteThrough
  <2>3. WorkOf(started, req[r]) /\ \A m \in messages : BeforeIn(started, m, Reply(r))
    BY <1>1, <2>1 DEF HoldsFor, RunSteps, RunHasSnapshot
  <2> QED
    BY <1>1, <2>1, <2>2, <2>3 DEF WorkOf
<1>4. CASE RunSave(r)
  BY <1>3, <1>4, OwnMessages
<1>5. CASE \E over \in BOOLEAN, reply \in LlmReplies, fromUser \in BOOLEAN :
             PostCommit(r, over, reply, fromUser)
  BY <1>2, <1>5, OwnMessages
<1> QED
  BY <1>4, <1>5 DEF Commit

LEMMA LostAndEarly ==
  /\ Early = EarlyIn(started, messages, snapshot)
  /\ Lost = LostIn(started, messages, snapshot)
  /\ Early' = EarlyIn(started', messages', snapshot')
  /\ Lost' = LostIn(started', messages', snapshot')
  BY DEF Early, Lost, EarlyIn, LostIn, Between, BetweenIn, Place, PlaceIn, Before, BeforeIn

\* A commit by a session that nobody has overtaken forgets nothing and loses nothing, a
\* count that moves on alone apart.
LEMMA CommitKeeps ==
  ASSUME IInv, HistoryInv, NEW r \in Requests, Commit(r),
         req[r].seen = messages, req[r].loaded = snapshot
  PROVE  /\ snapshot.covers \subseteq snapshot'.covers
         /\ snapshot.turns <= snapshot'.turns
         /\ Early' \subseteq Early
         /\ Lost' \subseteq Lost \cup
              IF snapshot'.covers = snapshot.covers
              THEN Between(messages', snapshot.turns + 1, snapshot'.turns)
              ELSE {}
<1>1. PICK e \in Message :
        /\ messages' = messages \cup {e} /\ started' = started
        /\ \A m \in messages : BeforeIn(started, m, e)
        /\ snapshot' \in Snapshot
        /\ \/ snapshot' = snapshot
           \/ \E h \in {messages, messages \cup {e}} :
                /\ snapshot'.turns = AgedCount(h)
                /\ snapshot'.covers \in
                     {snapshot.covers,
                      snapshot.covers \cup
                        BetweenIn(started, h, snapshot.turns + 1, AgedCount(h))}
  BY CommitWrites
<1>2. PICK h \in {messages, messages \cup {e}} :
        \/ snapshot' = snapshot
        \/ /\ snapshot'.turns = AgedCount(h)
           /\ snapshot'.covers \in
                {snapshot.covers,
                 snapshot.covers \cup BetweenIn(started, h, snapshot.turns + 1, AgedCount(h))}
  BY <1>1
<1>3. /\ started \in Seq(Message) /\ Distinct(started) /\ messages \in SUBSET Message
      /\ IsFiniteSet(messages) /\ snapshot \in Snapshot
      /\ snapshot.turns <= AgedCount(messages)
  BY DEF IInv, TypeOK, ChatInv, TurnsWithinAged, HistoryInv, OrderInv
<1>4. /\ IsFiniteSet(messages') /\ Cardinality(messages') = Cardinality(messages) + 1
      /\ Cardinality(messages) \in Nat /\ e \notin messages
  BY <1>1, <1>3, FS_AddElement, FS_CardinalityType, NotBeforeItself
<1>5. /\ AgedCount(messages) \in Nat /\ AgedCount(messages') \in Nat
      /\ AgedCount(messages) <= AgedCount(messages')
      /\ AgedCount(messages') <= Cardinality(messages)
  BY <1>4 DEF AgedCount
<1>6. /\ snapshot.turns \in Nat /\ snapshot'.turns \in Nat
      /\ snapshot.turns <= snapshot'.turns /\ snapshot'.turns <= Cardinality(messages)
  <2>1. snapshot.turns \in Nat /\ snapshot'.turns \in Nat
    BY <1>1, <1>3 DEF Snapshot
  <2>2. \/ snapshot'.turns = snapshot.turns
        \/ snapshot'.turns = AgedCount(messages)
        \/ snapshot'.turns = AgedCount(messages')
    BY <1>1, <1>2
  <2> QED
    BY <1>3, <1>4, <1>5, <2>1, <2>2
<1>7. /\ \A m \in messages : PlaceIn(started, m, messages') = PlaceIn(started, m, messages)
      /\ PlaceIn(started, e, messages') = 1 + Cardinality(messages)
  <2>1. /\ \A m \in messages :
                PlaceIn(started, m, messages \cup {e}) = PlaceIn(started, m, messages)
        /\ PlaceIn(started, e, messages \cup {e}) = 1 + Cardinality(messages)
    BY <1>1, <1>3, CommitsLast
  <2> QED
    BY <1>1, <2>1
<1>8. \A m \in messages : PlaceIn(started, m, messages) \in Nat
  <2>1. ASSUME NEW m \in messages
        PROVE  PlaceIn(started, m, messages) \in 1..Cardinality(messages)
    BY <1>3, PlaceRange
  <2> QED
    BY <1>4, <2>1
<1>9. \A m \in messages' : /\ m \in messages \/ m = e
                           /\ PlaceIn(started, m, messages') \in Nat
                           /\ PlaceIn(started, m, messages') <= snapshot'.turns
                                => m \in messages
  <2>1. 1 + Cardinality(messages) \in Nat /\ ~(1 + Cardinality(messages) <= snapshot'.turns)
    BY <1>4, <1>6
  <2>2. ASSUME NEW m \in messages'
        PROVE  /\ m \in messages \/ m = e
               /\ PlaceIn(started, m, messages') \in Nat
               /\ PlaceIn(started, m, messages') <= snapshot'.turns => m \in messages
    <3>1. CASE m \in messages
      BY <1>7, <1>8, <3>1
    <3>2. CASE m = e
      BY <1>7, <2>1, <3>2
    <3> QED
      BY <1>1, <3>1, <3>2
  <2> QED
    BY <2>2
<1>10. \/ snapshot' = snapshot
       \/ snapshot'.covers = snapshot.covers
       \/ snapshot'.covers = snapshot.covers \cup
             BetweenIn(started, messages, snapshot.turns + 1, snapshot'.turns)
  <2>1. CASE h = messages
    BY <1>2, <2>1
  <2>2. CASE h # messages
    <3>1. h = messages'
      BY <1>1, <2>2
    <3>2. BetweenIn(started, messages', snapshot.turns + 1, snapshot'.turns)
            = BetweenIn(started, messages, snapshot.turns + 1, snapshot'.turns)
      BY <1>1, <1>6, <1>7, <1>8, <1>9 DEF BetweenIn
    <3> QED
      BY <1>2, <3>1, <3>2
  <2> QED
    BY <2>1, <2>2
<1>11. /\ snapshot.covers \subseteq snapshot'.covers
       /\ EarlyIn(started, messages', snapshot') \subseteq EarlyIn(started, messages, snapshot)
       /\ LostIn(started, messages', snapshot')
            \subseteq LostIn(started, messages, snapshot)
                        \cup OnlyCounted(started, messages', snapshot, snapshot')
  <2>1. CASE snapshot' = snapshot
    BY <1>1, <1>6, <1>7, <1>8, <1>9, <2>1 DEF EarlyIn, LostIn, OnlyCounted, BetweenIn
  <2>2. CASE snapshot'.covers = snapshot.covers
    BY <1>1, <1>6, <1>7, <1>8, <1>9, <2>2 DEF EarlyIn, LostIn, OnlyCounted, BetweenIn
  <2>3. CASE snapshot'.covers = snapshot.covers \cup
               BetweenIn(started, messages, snapshot.turns + 1, snapshot'.turns)
    BY <1>1, <1>6, <1>7, <1>8, <1>9, <2>3 DEF EarlyIn, LostIn, OnlyCounted, BetweenIn
  <2> QED
    BY <1>10, <2>1, <2>2, <2>3
<1>12. OnlyCounted(started, messages', snapshot, snapshot')
         = IF snapshot'.covers = snapshot.covers
           THEN Between(messages', snapshot.turns + 1, snapshot'.turns)
           ELSE {}
  BY BetweenIsIn DEF OnlyCounted
<1> QED
  BY <1>1, <1>6, <1>11, <1>12, LostAndEarly

\* What a step does: it commits, deletes the chat, or leaves snapshot and messages alone
\* and may start a message.
LEMMA StepKinds ==
  ASSUME IInv, HistoryInv, [Next]_vars
  PROVE  \/ \E r \in Requests : Commit(r)
         \/ chat' = "deleted"
         \/ /\ UNCHANGED <<messages, snapshot>>
            /\ \/ started' = started
               \/ \E e \in Message : e \notin Entries(started) /\ started' = Append(started, e)
<1>1. ASSUME NEW r \in Requests, PostLoadMessages(r)
      PROVE  /\ UNCHANGED <<messages, snapshot>>
             /\ \E e \in Message : e \notin Entries(started) /\ started' = Append(started, e)
  BY <1>1, OwnMessages DEF PostLoadMessages, HistoryInv, OrderInv
<1>2. ASSUME NEW r \in Requests, RunLoadMessages(r)
      PROVE  /\ UNCHANGED <<messages, snapshot>>
             /\ \/ started' = started
                \/ \E e \in Message : e \notin Entries(started) /\ started' = Append(started, e)
  BY <1>2, OwnMessages DEF RunLoadMessages, HistoryInv, OrderInv, At
<1>3. ASSUME NEW r \in Requests,
             \/ PostLoadSnapshot(r) \/ PostFlush(r) \/ RunLoadSnapshot(r)
             \/ \E reply \in LlmReplies : RunCompressor(r, reply)
             \/ RunAnswers(r) \/ RunFails(r) \/ RunChatGone(r)
             \/ PostFails(r) \/ RunSaveFails(r)
      PROVE  UNCHANGED <<messages, snapshot, started>>
  BY <1>3 DEF PostLoadSnapshot, PostFlush, RunLoadSnapshot, RunCompressor, RunAnswers, RunFails,
              RunChatGone, PostFails, RunSaveFails
<1>4. CASE DeleteChat
  BY <1>4 DEF DeleteChat
<1>5. CASE Crash \/ Quiet \/ UNCHANGED vars
  BY <1>5 DEF Crash, Quiet, vars
<1> QED
  BY <1>1, <1>2, <1>3, <1>4, <1>5 DEF Next, Proceed, Commit

\* A commit whose session has not been overtaken is not stale.
LEMMA NotStale ==
  ASSUME IInv, NEW r \in Requests, Commit(r), ~StaleCommit
  PROVE  req[r].seen = messages /\ req[r].loaded = snapshot
<1>1. /\ req[r].pc \in {"post commit", "run save"}
      /\ req'[r].pc \in {"scheduled", "closed", "answered"}
  <2>1. ASSUME NEW over \in BOOLEAN, NEW reply \in LlmReplies, NEW fromUser \in BOOLEAN,
               PostCommit(r, over, reply, fromUser)
        PROVE  /\ req[r].pc = "post commit"
               /\ Goto(r, "scheduled") \/ Goto(r, "closed")
    BY <2>1 DEF PostCommit, At
  <2>2. ASSUME RunSave(r) PROVE req[r].pc = "run save" /\ Goto(r, "answered")
    BY <2>2 DEF RunSave, At
  <2> QED
    BY <2>1, <2>2 DEF Commit, Goto, IInv, TypeOK
<1> QED
  BY <1>1 DEF StaleCommit

\* compress_incremental, called by overlapping posts and runs and answered by anything:
\* text and turn count come apart by the commit of an overtaken session or by a count
\* that moves on without its text, and in no other way.
THEOREM LossesExplained == Spec => LossesHaveACulprit
<1> DEFINE Explained == chat' = "live" /\ ~StaleCommit =>
                          /\ Early' \subseteq Early
                          /\ Lost' \subseteq Lost \cup
                               IF snapshot'.covers = snapshot.covers
                               THEN Between(messages', snapshot.turns + 1, snapshot'.turns)
                               ELSE {}
<1>1. IInv /\ HistoryInv /\ [Next]_vars => [Explained]_vars
  <2> SUFFICES ASSUME IInv, HistoryInv, [Next]_vars, chat' = "live", ~StaleCommit
               PROVE  /\ Early' \subseteq Early
                      /\ Lost' \subseteq Lost \cup
                           IF snapshot'.covers = snapshot.covers
                           THEN Between(messages', snapshot.turns + 1, snapshot'.turns)
                           ELSE {}
    OBVIOUS
  <2>1. ASSUME NEW r \in Requests, Commit(r)
        PROVE  /\ Early' \subseteq Early
               /\ Lost' \subseteq Lost \cup
                    IF snapshot'.covers = snapshot.covers
                    THEN Between(messages', snapshot.turns + 1, snapshot'.turns)
                    ELSE {}
    BY <2>1, NotStale, CommitKeeps
  <2>2. ASSUME UNCHANGED <<messages, snapshot>>,
               \/ started' = started
               \/ \E e \in Message : e \notin Entries(started) /\ started' = Append(started, e)
        PROVE  Early' = Early /\ Lost' = Lost
    <3>1. started \in Seq(Message) /\ Distinct(started) /\ messages \in SUBSET Entries(started)
      BY DEF IInv, TypeOK, HistoryInv, OrderInv
    <3>2. ASSUME NEW e \in Message, e \notin Entries(started), started' = Append(started, e)
          PROVE  BetweenIn(started', messages, 1, snapshot.turns)
                   = BetweenIn(started, messages, 1, snapshot.turns)
      BY <3>1, <3>2, SameHistory
    <3>3. BetweenIn(started', messages, 1, snapshot.turns)
            = BetweenIn(started, messages, 1, snapshot.turns)
      BY <2>2, <3>2
    <3> QED
      BY <2>2, <3>3, LostAndEarly DEF LostIn, EarlyIn
  <2> QED
    BY <2>1, <2>2, StepKinds
<1> QED
  BY <1>1, ChatInvariant, HistoryInvariant, PTL DEF Spec, LossesHaveACulprit

LEMMA Split ==
  ASSUME NEW low \in Nat, NEW high \in Nat, NEW i \in 1..high, i \notin (low + 1)..high
  PROVE  i \in 1..low
  OBVIOUS

\* maintain_snapshot leaves no gap of its own: what the rewriter is not given was counted
\* before without being summarised, or by this run for a reply of no use.
THEOREM RewriterMissesLittle == Spec => []RewriterMissesOnlyLosses
<1>1. IInv /\ HistoryInv => RewriterMissesOnlyLosses
  <2> SUFFICES ASSUME IInv, HistoryInv, NEW r \in Requests, At(r, "run rewriter"),
                      NEW m \in req[r].seen \ (req[r].result.covers \cup Hot(req[r].seen))
               PROVE  m \in Between(req[r].seen, 1,
                                    IF req[r].result.covers = req[r].loaded.covers
                                    THEN req[r].result.turns
                                    ELSE req[r].loaded.turns)
    BY DEF RewriterMissesOnlyLosses
  <2> DEFINE q == req[r]
             place == PlaceIn(started, m, q.seen)
  <2>1. WorkOf(started, q) /\ q.result.turns = AgedCount(q.seen)
    BY DEF HistoryInv, HoldsFor, At, RunHasSnapshot
  <2>2. /\ IsFiniteSet(q.seen) /\ started \in Seq(Message) /\ Distinct(started)
        /\ q.loaded.turns \in Nat
    BY DEF IInv, TypeOK, RequestInv, HistoryInv, OrderInv, Snapshot
  <2>3. place \in 1..Cardinality(q.seen)
    BY <2>2, PlaceRange
  <2>4. AgedCount(q.seen) \in Nat /\ Cardinality(q.seen) \in Nat
    BY <2>2, AgedRange
  <2>5. place \notin (AgedCount(q.seen) + 1)..Cardinality(q.seen)
    BY BetweenIsIn DEF Hot, BetweenIn
  <2> HIDE DEF place
  <2>6. place \in 1..AgedCount(q.seen)
    BY <2>3, <2>4, <2>5, Split
  <2>7. CASE q.result.covers = q.loaded.covers
    <3>1. m \in BetweenIn(started, q.seen, 1, q.result.turns)
      BY <2>1, <2>6 DEF place, BetweenIn
    <3> QED
      BY <2>7, <3>1, BetweenIsIn
  <2>8. CASE q.result.covers # q.loaded.covers
    <3>1. q.result.covers
            = q.loaded.covers \cup
                BetweenIn(started, q.seen, q.loaded.turns + 1, AgedCount(q.seen))
      BY <2>1, <2>8 DEF WorkOf
    <3>2. place \notin (q.loaded.turns + 1)..AgedCount(q.seen)
      BY <3>1 DEF place, BetweenIn
    <3>3. place \in 1..q.loaded.turns
      BY <2>2, <2>4, <2>6, <3>2, Split
    <3>4. m \in BetweenIn(started, q.seen, 1, q.loaded.turns)
      BY <3>3 DEF place, BetweenIn
    <3> QED
      BY <2>8, <3>4, BetweenIsIn
  <2> QED
    BY <2>7, <2>8
<1> QED
  BY <1>1, ChatInvariant, HistoryInvariant, PTL

\* No commit of a post or a run takes a message out of the summary or turns its count
\* back while the chat lives, except that of a session another one has overtaken.
THEOREM ForgetsOnlyOvertaken == Spec => SnapshotNeverForgets
<1> DEFINE Grows == chat' = "live" /\ ~StaleCommit =>
                      /\ snapshot.covers \subseteq snapshot'.covers
                      /\ snapshot.turns <= snapshot'.turns
<1>1. IInv /\ HistoryInv /\ [Next]_vars => [Grows]_vars
  <2> SUFFICES ASSUME IInv, HistoryInv, [Next]_vars, chat' = "live", ~StaleCommit
               PROVE  /\ snapshot.covers \subseteq snapshot'.covers
                      /\ snapshot.turns <= snapshot'.turns
    OBVIOUS
  <2>1. ASSUME NEW r \in Requests, Commit(r)
        PROVE  /\ snapshot.covers \subseteq snapshot'.covers
               /\ snapshot.turns <= snapshot'.turns
    BY <2>1, NotStale, CommitKeeps
  <2>2. snapshot.turns \in Nat /\ snapshot.turns <= snapshot.turns
    BY DEF IInv, TypeOK, Snapshot
  <2> QED
    BY <2>1, <2>2, StepKinds
<1> QED
  BY <1>1, ChatInvariant, HistoryInvariant, PTL DEF Spec, SnapshotNeverForgets
=============================================================================
