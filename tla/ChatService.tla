---------------------------- MODULE ChatService -----------------------------
(***************************************************************************)
(* One chat of the chat service: messages posted to it, the background     *)
(* runs that answer them, and the snapshot that stands for the messages    *)
(* older than the hot window.                                              *)
(*                                                                         *)
(* A post and a run are database transactions that overlap freely.  Rows   *)
(* are read when the transaction starts and written when it commits; the   *)
(* ORM writes only the attributes that differ from what it read.  A        *)
(* message's created_at is the start of its transaction, so "started", the *)
(* order in which transactions began, is the order of the conversation.    *)
(***************************************************************************)
EXTENDS Naturals, Sequences, FiniteSets

CONSTANTS Requests,     \* POST /chats/{id}/messages calls
          HotWindow,    \* HOT_CONTEXT_WINDOW
          MaxOpen,      \* how many posts may be under way at once
          LlmReplies    \* what the compressing model may do, of AllReplies

AllReplies == {"summary", "not json", "http error"}

ASSUME HotWindowAssumption == HotWindow \in Nat \ {0}
ASSUME MaxOpenAssumption == MaxOpen \in Nat \ {0}
ASSUME LlmRepliesAssumption == LlmReplies \subseteq AllReplies /\ LlmReplies # {}

VARIABLES
    chat,                 \* the chats row: "live" or "deleted"
    compression_pending,
    started,              \* messages in the order their transactions started
    messages,             \* the committed ones
    snapshot,             \* the chat_snapshots row: [covers, turns]
    row_lock,             \* who has updated the chats row and not committed
    req                   \* per post: where it is and what its session has loaded

vars == <<chat, compression_pending, started, messages, snapshot, row_lock, req>>

NoOne == "no one"
ASSUME RequestsAssumption == NoOne \notin Requests

User(r) == <<r, "user">>
Reply(r) == <<r, "assistant">>
Message == Requests \X {"user", "assistant"}

\* snapshot_text is the set of messages it summarises, turns is snapshot_turn_count.
Snapshot == [covers : SUBSET Message, turns : Nat]
EmptySnapshot == [covers |-> {}, turns |-> 0]

PostSteps == {"post snapshot", "post flush", "post commit"}
RunSteps == {"run snapshot", "run compressor", "run rewriter", "run save"}
Settled == {"answered", "closed", "failed", "lost", "crashed"}
Steps == {"idle", "scheduled"} \cup PostSteps \cup RunSteps \cup Settled

Idle == [pc |-> "idle", seen |-> {}, pending |-> FALSE,
         loaded |-> EmptySnapshot, result |-> EmptySnapshot]

\* create_chat: a chat without messages, with an empty snapshot.
Init ==
    /\ chat = "live"
    /\ compression_pending = FALSE
    /\ started = <<>>
    /\ messages = {}
    /\ snapshot = EmptySnapshot
    /\ row_lock = NoOne
    /\ req = [r \in Requests |-> Idle]

----------------------------------------------------------------------------
\* ConversationContext.

\* Messages are sorted by created_at: the place of one of them in the history ms.
Before(m, n) == \E i, j \in DOMAIN started : i < j /\ started[i] = m /\ started[j] = n
Place(m, ms) == 1 + Cardinality({n \in ms : Before(n, m)})

AgedCount(ms) ==
    IF Cardinality(ms) <= HotWindow THEN 0 ELSE Cardinality(ms) - HotWindow

Between(ms, first, last) == {m \in ms : Place(m, ms) \in first..last}
Hot(ms) == Between(ms, AgedCount(ms) + 1, Cardinality(ms))

\* Mutants: the turn count of the whole history, and a message skipped.
CompressCountsAll(snap, ms, reply) ==
    [covers |-> IF reply = "summary" THEN ms ELSE snap.covers, turns |-> Cardinality(ms)]
CompressSkipsOne(snap, ms, reply) ==
    [covers |-> IF reply = "summary"
                THEN snap.covers \cup Between(ms, snap.turns + 2, AgedCount(ms))
                ELSE snap.covers,
     turns |-> AgedCount(ms)]

\* compress_incremental on the messages aged past the turn count.  A reply that is not
\* JSON, an outage message of invoke_llm included, keeps the old text.
Compress(snap, ms, reply) ==
    [covers |-> IF reply = "summary"
                THEN snap.covers \cup Between(ms, snap.turns + 1, AgedCount(ms))
                ELSE snap.covers,
     turns |-> AgedCount(ms)]

\* A flush writes the attributes that differ from the loaded ones.
WriteDirty(row, loaded, new) ==
    [covers |-> IF new.covers # loaded.covers THEN new.covers ELSE row.covers,
     turns |-> IF new.turns # loaded.turns THEN new.turns ELSE row.turns]

At(r, step) == req[r].pc = step
Goto(r, step) == req' = [req EXCEPT ![r].pc = step]
Open == {r \in Requests : req[r].pc \notin Settled \cup {"idle"}}

----------------------------------------------------------------------------
\* post_message.

\* load_chat_with_messages reads the chat and its messages, then, in another
\* statement, the snapshot.
PostLoadMessages(r) ==
    /\ At(r, "idle")
    /\ Cardinality(Open) < MaxOpen
    /\ chat = "live"
    /\ started' = Append(started, User(r))
    /\ req' = [req EXCEPT ![r] = [Idle EXCEPT !.pc = "post snapshot", !.seen = messages,
                                              !.pending = compression_pending]]
    /\ UNCHANGED <<chat, compression_pending, messages, snapshot, row_lock>>

PostLoadSnapshot(r) ==
    /\ At(r, "post snapshot")
    /\ req' = [req EXCEPT ![r].pc = "post flush", ![r].loaded = snapshot]
    /\ UNCHANGED <<chat, compression_pending, started, messages, snapshot, row_lock>>

\* The flush updates the chats row, which locks it until the commit; a row deleted
\* meanwhile makes it raise.
PostFlush(r) ==
    /\ At(r, "post flush")
    /\ row_lock = NoOne
    /\ IF chat = "live"
       THEN row_lock' = r /\ Goto(r, "post commit")
       ELSE UNCHANGED row_lock /\ Goto(r, "failed")
    /\ UNCHANGED <<chat, compression_pending, started, messages, snapshot>>

\* The commit of a post: run_auto_compress when the context is over the threshold, and
\* the background run when the message is the user's.
PostCommit(r, overThreshold, reply, fromUser) ==
    LET own == req[r].seen \cup {User(r)}
        updates == /\ overThreshold
                   /\ AgedCount(own) > req[r].loaded.turns
                   /\ reply # "http error"
        new == IF updates THEN Compress(req[r].loaded, own, reply) ELSE req[r].loaded
    IN  /\ At(r, "post commit")
        /\ messages' = messages \cup {User(r)}
        /\ snapshot' = WriteDirty(snapshot, req[r].loaded, new)
        /\ compression_pending' =
             CASE updates -> FALSE
               [] overThreshold /\ ~updates /\ ~req[r].pending -> TRUE
               [] OTHER -> compression_pending
        /\ row_lock' = NoOne
        /\ Goto(r, IF fromUser THEN "scheduled" ELSE "closed")
        /\ UNCHANGED <<chat, started>>

\* Mutant: the rollback forgets the row lock.
PostFailsLocked(r) ==
    /\ req[r].pc \in PostSteps
    /\ Goto(r, "failed")
    /\ UNCHANGED <<chat, compression_pending, started, messages, snapshot, row_lock>>

\* Anything else that raises in the handler rolls the transaction back.
PostFails(r) ==
    /\ req[r].pc \in PostSteps
    /\ row_lock' = IF row_lock = r THEN NoOne ELSE row_lock
    /\ Goto(r, "failed")
    /\ UNCHANGED <<chat, compression_pending, started, messages, snapshot>>

----------------------------------------------------------------------------
\* run_pipeline_for_chat, the background task of a committed user message.

\* Mutant: the task works on the history the post had loaded.
RunReusesHistory(r) ==
    /\ At(r, "scheduled")
    /\ started' = Append(started, Reply(r))
    /\ Goto(r, "run snapshot")
    /\ UNCHANGED <<chat, compression_pending, messages, snapshot, row_lock>>

RunLoadMessages(r) ==
    /\ At(r, "scheduled")
    /\ IF chat = "live"
       THEN /\ started' = Append(started, Reply(r))
            /\ req' = [req EXCEPT ![r].pc = "run snapshot", ![r].seen = messages]
       ELSE UNCHANGED started /\ Goto(r, "closed")
    /\ UNCHANGED <<chat, compression_pending, messages, snapshot, row_lock>>

RunLoadSnapshot(r) ==
    /\ At(r, "run snapshot")
    /\ req' = [req EXCEPT ![r].pc = "run compressor", ![r].loaded = snapshot,
                          ![r].result = snapshot]
    /\ UNCHANGED <<chat, compression_pending, started, messages, snapshot, row_lock>>

\* Mutant: compresses only when two messages have aged.
RunCompressorLazy(r, reply) ==
    /\ At(r, "run compressor")
    /\ reply # "http error"
    /\ req' = [req EXCEPT
                 ![r].pc = "run rewriter",
                 ![r].result = IF AgedCount(req[r].seen) <= req[r].loaded.turns + 1
                               THEN req[r].loaded
                               ELSE Compress(req[r].loaded, req[r].seen, reply)]
    /\ UNCHANGED <<chat, compression_pending, started, messages, snapshot, row_lock>>

\* compressor_node of the orchestrator: maintain_snapshot on what the chat sent.
RunCompressor(r, reply) ==
    /\ At(r, "run compressor")
    /\ reply # "http error"
    /\ req' = [req EXCEPT
                 ![r].pc = "run rewriter",
                 ![r].result = IF AgedCount(req[r].seen) = req[r].loaded.turns
                               THEN req[r].loaded
                               ELSE Compress(req[r].loaded, req[r].seen, reply)]
    /\ UNCHANGED <<chat, compression_pending, started, messages, snapshot, row_lock>>

\* The rest of the run, which changes nothing of the chat.
RunAnswers(r) ==
    /\ At(r, "run rewriter")
    /\ Goto(r, "run save")
    /\ UNCHANGED <<chat, compression_pending, started, messages, snapshot, row_lock>>

\* Mutant: the error reply comes with an empty snapshot, which is saved.
RunFailsEmpty(r) ==
    /\ req[r].pc \in {"run compressor", "run rewriter"}
    /\ req' = [req EXCEPT ![r].pc = "run save", ![r].result = EmptySnapshot]
    /\ UNCHANGED <<chat, compression_pending, started, messages, snapshot, row_lock>>

\* A failed or unreachable orchestrator: an error text is the reply, and the snapshot
\* stays as it was loaded.
RunFails(r) ==
    /\ req[r].pc \in {"run compressor", "run rewriter"}
    /\ req' = [req EXCEPT ![r].pc = "run save", ![r].result = req[r].loaded]
    /\ UNCHANGED <<chat, compression_pending, started, messages, snapshot, row_lock>>

\* Mutant: the reply is inserted without looking for the chat.
RunSaveBlind(r) ==
    /\ At(r, "run save")
    /\ row_lock = NoOne
    /\ messages' = messages \cup {Reply(r)}
    /\ snapshot' = WriteDirty(snapshot, req[r].loaded, req[r].result)
    /\ Goto(r, "answered")
    /\ UNCHANGED <<chat, compression_pending, started, row_lock>>

\* _save_pipeline_outcome.  Its ensure_snapshot finds the session's own copy of the
\* snapshot, as loaded when the run began.
RunSave(r) ==
    /\ At(r, "run save")
    /\ chat = "live"
    /\ row_lock = NoOne
    /\ messages' = messages \cup {Reply(r)}
    /\ snapshot' = WriteDirty(snapshot, req[r].loaded, req[r].result)
    /\ Goto(r, "answered")
    /\ UNCHANGED <<chat, compression_pending, started, row_lock>>

RunChatGone(r) ==
    /\ At(r, "run save")
    /\ chat = "deleted"
    /\ Goto(r, "closed")
    /\ UNCHANGED <<chat, compression_pending, started, messages, snapshot, row_lock>>

\* The commit fails: rolled back and logged, nothing retries it.
RunSaveFails(r) ==
    /\ At(r, "run save")
    /\ Goto(r, "lost")
    /\ UNCHANGED <<chat, compression_pending, started, messages, snapshot, row_lock>>

----------------------------------------------------------------------------
\* delete_chat waits for the row; messages and snapshot go with it.
DeleteChat ==
    /\ chat = "live"
    /\ row_lock = NoOne
    /\ chat' = "deleted"
    /\ messages' = {}
    /\ snapshot' = EmptySnapshot
    /\ compression_pending' = FALSE
    /\ UNCHANGED <<started, row_lock, req>>

\* The process dies: open transactions roll back and the tasks in memory are gone.
Crash ==
    /\ Open # {}
    /\ req' = [r \in Requests |-> IF r \in Open THEN [req[r] EXCEPT !.pc = "crashed"]
                                  ELSE req[r]]
    /\ row_lock' = NoOne
    /\ UNCHANGED <<chat, compression_pending, started, messages, snapshot>>

Quiet ==
    /\ \A r \in Requests : req[r].pc \in Settled \cup {"idle"}
    /\ UNCHANGED vars

\* The steps the event loop takes for a request once it is under way.
Proceed(r) ==
    \/ PostLoadSnapshot(r)
    \/ PostFlush(r)
    \/ \E over \in BOOLEAN, reply \in LlmReplies, fromUser \in BOOLEAN :
          PostCommit(r, over, reply, fromUser)
    \/ RunLoadMessages(r)
    \/ RunLoadSnapshot(r)
    \/ \E reply \in LlmReplies : RunCompressor(r, reply)
    \/ RunAnswers(r)
    \/ RunFails(r)
    \/ RunSave(r)
    \/ RunChatGone(r)

Next ==
    \/ \E r \in Requests :
          PostLoadMessages(r) \/ Proceed(r) \/ PostFails(r) \/ RunSaveFails(r)
    \/ DeleteChat
    \/ Crash
    \/ Quiet

\* Every await of a request ends: calls have timeouts and a lock holder commits.
Spec == Init /\ [][Next]_vars /\ \A r \in Requests : WF_vars(Proceed(r))

----------------------------------------------------------------------------
\* Properties.

\* The chat's rows and what the requests hold in memory stay in range.
TypeOK ==
    /\ chat \in {"live", "deleted"}
    /\ compression_pending \in BOOLEAN
    /\ started \in Seq(Message)
    /\ messages \subseteq Message
    /\ snapshot \in Snapshot
    /\ row_lock \in Requests \cup {NoOne}
    /\ req \in [Requests -> [pc : Steps, seen : SUBSET Message, pending : BOOLEAN,
                             loaded : Snapshot, result : Snapshot]]

\* snapshot_turn_count never runs ahead of the messages that have left the hot window,
\* whichever of two overlapping posts and runs wrote it last.
TurnsWithinAged == snapshot.turns <= AgedCount(messages)

\* The history a run sends to the orchestrator holds the message the run is to answer,
\* before everything the run itself writes.
QuestionInHistory ==
    \A r \in Requests : req[r].pc \in RunSteps => User(r) \in req[r].seen

\* A deleted chat stays empty: a post or a run under way leaves nothing behind.
DeletedStaysEmpty ==
    chat = "deleted" => messages = {} /\ snapshot = EmptySnapshot /\ row_lock = NoOne

\* Every user message that was accepted ends with a reply in the chat, unless the chat
\* is deleted, the process dies or saving the reply fails.
EveryMessageSettles ==
    \A r \in Requests :
        At(r, "scheduled") ~> \/ Reply(r) \in messages
                              \/ chat = "deleted"
                              \/ req[r].pc \in {"lost", "crashed"}

\* What the turn count accounts for and the text does not, and the other way round.
Lost == Between(messages, 1, snapshot.turns) \ snapshot.covers
Early == snapshot.covers \ Between(messages, 1, snapshot.turns)

\* A post or a run commits although the rows are no longer what its session has loaded.
StaleCommit ==
    \E r \in Requests :
        /\ req[r].pc \in {"post commit", "run save"}
        /\ req'[r].pc \in {"scheduled", "closed", "answered"}
        /\ req[r].seen # messages \/ req[r].loaded # snapshot

\* However posts, runs, failures and crashes mix, the snapshot comes to stand for other
\* messages than its turn count says in two ways only: by the commit of a session that
\* another one has overtaken, or by a reply that is not JSON, which moves the count on
\* and leaves the text alone.  Any other step skips no message and covers none early.
LossesHaveACulprit ==
    [][chat' = "live" /\ ~StaleCommit =>
          /\ Early' \subseteq Early
          /\ Lost' \subseteq Lost \cup
                IF snapshot'.covers = snapshot.covers
                THEN Between(messages', snapshot.turns + 1, snapshot'.turns)
                ELSE {}]_vars

\* The rewriter is given every message of the history, in the snapshot or in the hot
\* window, except those the loaded snapshot had lost before and those whose compression
\* in this very run came back as no JSON.
RewriterMissesOnlyLosses ==
    \A r \in Requests :
        At(r, "run rewriter") =>
            req[r].seen \ (req[r].result.covers \cup Hot(req[r].seen)) \subseteq
                Between(req[r].seen, 1,
                        IF req[r].result.covers = req[r].loaded.covers
                        THEN req[r].result.turns
                        ELSE req[r].loaded.turns)

\* Only a commit of a session that has been overtaken takes anything out of the stored
\* snapshot or turns its count back, as long as the chat lives.
SnapshotNeverForgets ==
    [][chat' = "live" /\ ~StaleCommit => /\ snapshot.covers \subseteq snapshot'.covers
                                         /\ snapshot.turns <= snapshot'.turns]_vars

\* docs/ENHANCEMENTS.md guarantees the rewriter a fully current snapshot: every message
\* of the history is in the snapshot or in the hot window it is given.
RewriterSeesWholeChat ==
    \A r \in Requests :
        At(r, "run rewriter") => req[r].seen \subseteq req[r].result.covers \cup Hot(req[r].seen)
=============================================================================
