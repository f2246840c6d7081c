--------------------------- MODULE PipelineEvents ---------------------------
(***************************************************************************)
(* The live events of one chat: the bounded queue that the orchestrator    *)
(* keeps for the chat's session, the runs that write to it, and the        *)
(* browser pages that read it over WebSockets and wait for the closing     *)
(* event.                                                                  *)
(*                                                                         *)
(* A page is one mounted chat view (HomeKickoff or ChatThread) with its    *)
(* socket, which is relayed by the gateway to a reader in the              *)
(* orchestrator.  All readers of the session take from the one queue.      *)
(* When the gateway cannot reach the orchestrator, or loses it, it closes  *)
(* the page's socket; the page opens another one only when it sends a      *)
(* message.  The reader of a page that was left, or whose connection       *)
(* broke, is left behind: it goes on taking events, which are lost, until  *)
(* it finds out.                                                           *)
(***************************************************************************)
EXTENDS Naturals, Sequences, FiniteSets

CONSTANTS
  Pages,      \* mounted chat views
  MaxRuns,    \* bound: messages accepted, each with its run
  Stages,     \* stage_update events of a run
  QueueSize,  \* maxsize of the queue, 500 in the code
  MaxOrphans  \* bound: readers left behind at a time

ASSUME EventBoundsAssumption == MaxRuns \in Nat /\ Stages \in Nat /\ MaxOrphans \in Nat
ASSUME QueueSizeAssumption == QueueSize \in Nat \ {0}

VARIABLES
  queue,     \* the session's queue.Queue
  posts,     \* number of accepted messages; message r is answered by run r
  run,       \* run[r]: where the run is, and the number of its next event
  before,    \* before[r]: the runs that were over when r found the queue empty, and
             \* the events of theirs that readers had in hand then
  inFlight,  \* the last of the chat's messages is the user's
  page,      \* page[p]: "unopened", "open" or "left"
  posting,   \* pages whose POST is under way
  pending,   \* pages that show "Analyzing" and take no input
  syncs,     \* syncs[p]: calls of finishPipeline under way
  reader,    \* reader[p]: the reader of the page's socket; "broken" once the gateway
             \* has closed that socket
  held,      \* held[p]: the event it has taken from the queue
  orphans    \* number of readers left behind

runVars == <<queue, run, before>>
chatVars == <<posts, inFlight>>
pageVars == <<page, posting, pending, syncs>>
socketVars == <<reader, held, orphans>>
vars == <<runVars, chatVars, pageVars, socketVars>>

Runs == 1 .. MaxRuns
\* pipeline_start is event 0; the stages follow; pipeline_complete or
\* pipeline_error closes; tool_notice may come after it.
EndEvent == Stages + 1
Event == [run : Runs, n : 0 .. Stages + 2]
Nothing == [run |-> 0, n |-> 0]

Init ==
  /\ queue = <<>>
  /\ posts = 0
  /\ run = [r \in Runs |-> [at |-> "none", n |-> 0]]
  /\ before = [r \in Runs |-> [over |-> {}, hands |-> {}]]
  /\ inFlight = FALSE
  /\ page = [p \in Pages |-> "unopened"]
  /\ posting = {}
  /\ pending = {}
  /\ syncs = [p \in Pages |-> 0]
  /\ reader = [p \in Pages |-> "none"]
  /\ held = [p \in Pages |-> Nothing]
  /\ orphans = 0

-----------------------------------------------------------------------------
(* The orchestrator: POST /pipeline/run *)

Goto(r, at) == run' = [run EXCEPT ![r].at = at]

\* The runs that will emit nothing any more, and what readers have in hand of them.
Over == {r \in Runs : run[r].at \in {"returned", "crashed"}}
AtHand == {e \in {held[p] : p \in Pages} : e.run \in Over}
FindEmpty(r) == before' = [before EXCEPT ![r] = [over |-> Over, hands |-> AtHand]]

\* run_pipeline_for_chat calls the orchestrator once the post is answered.
CallRun(r) ==
  /\ run[r].at = "posted"
  /\ Goto(r, "clearing")
  /\ UNCHANGED <<queue, before, chatVars, pageVars, socketVars>>

\* Mutant: a run starts over what the last one has left.
ClearNothing(r) ==
  /\ run[r].at = "clearing"
  /\ Goto(r, "emitting")
  /\ FindEmpty(r)
  /\ UNCHANGED <<queue, chatVars, pageVars, socketVars>>

\* clear_session_events: get_nowait until the queue is empty.
Clear(r) ==
  /\ run[r].at = "clearing"
  /\ IF queue = <<>>
     THEN /\ Goto(r, "emitting")
          /\ FindEmpty(r)
          /\ UNCHANGED queue
     ELSE /\ queue' = Tail(queue)
          /\ UNCHANGED <<run, before>>
  /\ UNCHANGED <<chatVars, pageVars, socketVars>>

\* emit_event: a full queue drops the new event.
Put(e) == queue' = IF Len(queue) < QueueSize THEN Append(queue, e) ELSE queue

\* pipeline_start and the stage updates.
Emit(r) ==
  /\ run[r].at = "emitting"
  /\ run[r].n < EndEvent
  /\ Put([run |-> r, n |-> run[r].n])
  /\ run' = [run EXCEPT ![r].n = @ + 1]
  /\ UNCHANGED <<before, chatVars, pageVars, socketVars>>

\* pipeline_complete after the last stage, or pipeline_error as soon as a node
\* raises; a run that completes with a notice has one more event to emit.
End(r) ==
  /\ run[r].at = "emitting"
  /\ run[r].n > 0
  /\ Put([run |-> r, n |-> EndEvent])
  /\ run' = [run EXCEPT ![r].n = Stages + 2, ![r].at = "ended"]
  /\ UNCHANGED <<before, chatVars, pageVars, socketVars>>

EmitNotice(r) ==
  /\ run[r].at = "ended"
  /\ Put([run |-> r, n |-> Stages + 2])
  /\ Goto(r, "returned")
  /\ UNCHANGED <<before, chatVars, pageVars, socketVars>>

Return(r) ==
  /\ run[r].at = "ended"
  /\ Goto(r, "returned")
  /\ UNCHANGED <<queue, before, chatVars, pageVars, socketVars>>

\* The process dies and comes back: the queue was in its memory, and so were the runs
\* and the readers.  The gateway closes the sockets of the pages that were connected.
Crash ==
  /\ run' = [r \in Runs |-> IF run[r].at \in {"clearing", "emitting", "ended"}
                            THEN [at |-> "crashed", n |-> 0] ELSE run[r]]
  /\ queue' = <<>>
  /\ reader' = [p \in Pages |-> IF reader[p] = "none" THEN "none" ELSE "broken"]
  /\ held' = [p \in Pages |-> Nothing]
  /\ orphans' = 0
  /\ UNCHANGED <<before, chatVars, pageVars>>

-----------------------------------------------------------------------------
(* The chat service *)

\* _save_pipeline_outcome: the reply to message r is committed, and stands right
\* after it.
Reply(r) == inFlight' = (inFlight /\ r # posts)

Save(r) ==
  /\ run[r].at = "returned"
  /\ Reply(r)
  /\ UNCHANGED <<posts, runVars, pageVars, socketVars>>

\* The orchestrator is out of reach: an error reply and no event at all.
Unreachable(r) ==
  /\ run[r].at = "posted"
  /\ Goto(r, "unreachable")
  /\ Reply(r)
  /\ UNCHANGED <<queue, before, posts, pageVars, socketVars>>

\* The call takes longer than 300 s, while the run goes on, or the orchestrator is gone:
\* an error reply.
CallFails(r) ==
  /\ run[r].at \in {"clearing", "emitting", "ended", "crashed"}
  /\ Reply(r)
  /\ UNCHANGED <<posts, runVars, pageVars, socketVars>>

-----------------------------------------------------------------------------
(* The readers: /ws/pipeline of the orchestrator, relayed by the gateway *)

\* Mutant: the event stays in the queue for the other readers.
PeekEvent(p) ==
  /\ reader[p] = "waiting"
  /\ queue # <<>>
  /\ held' = [held EXCEPT ![p] = Head(queue)]
  /\ reader' = [reader EXCEPT ![p] = "holding"]
  /\ UNCHANGED <<runVars, chatVars, pageVars, orphans>>


\* event_queue.get: whoever of the session's readers comes first.  30 s without an event
\* send a ping, and the reader goes on.
Take(p) ==
  /\ reader[p] = "waiting"
  /\ queue # <<>>
  /\ held' = [held EXCEPT ![p] = Head(queue)]
  /\ queue' = Tail(queue)
  /\ reader' = [reader EXCEPT ![p] = "holding"]
  /\ UNCHANGED <<run, before, chatVars, pageVars, orphans>>

\* onmessage: applyEvent, and finishPipeline for the closing event.
Deliver(p) ==
  /\ reader[p] = "holding"
  /\ syncs' = IF held[p].n = EndEvent THEN [syncs EXCEPT ![p] = @ + 1] ELSE syncs
  /\ reader' = [reader EXCEPT ![p] = "waiting"]
  /\ held' = [held EXCEPT ![p] = Nothing]
  /\ UNCHANGED <<runVars, chatVars, page, posting, pending, orphans>>

\* The connection of page p is gone on one side, and what its reader had in hand is lost;
\* the reader may stay behind.
Abandon(p, at) ==
  /\ reader' = [reader EXCEPT ![p] = at]
  /\ held' = [held EXCEPT ![p] = Nothing]
  /\ orphans' \in {orphans, orphans + 1} \cap 0 .. MaxOrphans

\* The gateway's connection to the orchestrator is refused, or breaks later: it closes
\* the page's socket.
Disconnect(p) ==
  /\ reader[p] \in {"waiting", "holding"}
  /\ Abandon(p, "broken")
  /\ UNCHANGED <<runVars, chatVars, pageVars>>

\* A reader that was left behind takes an event, or has 30 s without one and sends its
\* ping; what it sends is lost, and it ends as soon as it finds out.
Astray ==
  /\ orphans > 0
  /\ queue' = IF queue = <<>> THEN queue ELSE Tail(queue)
  /\ orphans' \in {orphans - 1, orphans}
  /\ UNCHANGED <<run, before, chatVars, pageVars, reader, held>>

-----------------------------------------------------------------------------
(* The pages *)

\* ensureWs keeps a socket that is connecting or open, and opens one in the place of
\* none or of a closed one.  How long the connection takes is how long the reader's
\* first get is put off; Disconnect is also a connection that fails.
EnsureWs(p) ==
  reader' = [reader EXCEPT ![p] = IF @ \in {"none", "broken"} THEN "waiting" ELSE @]

\* A chat view is mounted and lists the messages: if the last one is the user's,
\* a run is in flight and the page waits for it.
Open(p) ==
  /\ page[p] = "unopened"
  /\ page' = [page EXCEPT ![p] = "open"]
  /\ IF inFlight
     THEN pending' = pending \union {p} /\ EnsureWs(p)
     ELSE UNCHANGED <<pending, reader>>
  /\ UNCHANGED <<runVars, chatVars, posting, syncs, held, orphans>>

\* onSend: the socket is opened before the message is posted.
Send(p) ==
  /\ page[p] = "open"
  /\ p \notin pending \union posting
  /\ posting' = posting \union {p}
  /\ pending' = pending \union {p}
  /\ EnsureWs(p)
  /\ UNCHANGED <<runVars, chatVars, page, syncs, held, orphans>>

\* post_message commits the message and schedules its run.  The answer,
\* PIPELINE_RUNNING, leaves the page waiting if it still is.
Accept(p) ==
  /\ p \in posting
  /\ posts < MaxRuns
  /\ posts' = posts + 1
  /\ inFlight' = TRUE
  /\ Goto(posts + 1, "posted")
  /\ posting' = posting \ {p}
  /\ UNCHANGED <<queue, before, page, pending, syncs, socketVars>>

\* The message is refused, by the gateway or the chat service.
PostFails(p) ==
  /\ p \in posting
  /\ posting' = posting \ {p}
  /\ pending' = pending \ {p}
  /\ UNCHANGED <<runVars, chatVars, page, syncs, socketVars>>

\* finishPipeline: the messages are listed again, then the page is ready.
Synced(p) ==
  /\ page[p] = "open"
  /\ syncs[p] > 0
  /\ syncs' = [syncs EXCEPT ![p] = @ - 1]
  /\ pending' = pending \ {p}
  /\ UNCHANGED <<runVars, chatVars, page, posting, socketVars>>

\* The view is unmounted: another chat, another screen, a reload.
Leave(p) ==
  /\ page[p] = "open"
  /\ page' = [page EXCEPT ![p] = "left"]
  /\ pending' = pending \ {p}
  /\ syncs' = [syncs EXCEPT ![p] = 0]
  /\ IF reader[p] \in {"waiting", "holding"}
     THEN Abandon(p, "none")
     ELSE reader' = [reader EXCEPT ![p] = "none"] /\ UNCHANGED <<held, orphans>>
  /\ UNCHANGED <<runVars, chatVars, posting>>

-----------------------------------------------------------------------------
Orchestrate(r) ==
  \/ CallRun(r) \/ Unreachable(r) \/ Clear(r) \/ Emit(r) \/ End(r)
  \/ EmitNotice(r) \/ Return(r)

Relay(p) == Take(p) \/ Deliver(p)

Next ==
  \/ \E r \in Runs : Orchestrate(r) \/ Save(r) \/ CallFails(r)
  \/ Crash \/ Astray
  \/ \E p \in Pages : \/ Relay(p) \/ Disconnect(p)
                     \/ Open(p) \/ Send(p) \/ Accept(p) \/ PostFails(p)
                     \/ Synced(p) \/ Leave(p)

\* Every node of a run ends or raises and every HTTP call has a timeout, so runs,
\* readers and calls go on; nobody has to send, open or leave.
Fairness ==
  /\ \A r \in Runs : WF_vars(Orchestrate(r))
  /\ \A p \in Pages : WF_vars(Relay(p)) /\ WF_vars(Synced(p))

Spec == Init /\ [][Next]_vars /\ Fairness

-----------------------------------------------------------------------------
(* Properties *)

\* Types; the queue never grows past its maxsize.
TypeOK ==
  /\ queue \in Seq(Event) /\ Len(queue) \leq QueueSize
  /\ posts \in 0 .. MaxRuns
  /\ run \in [Runs -> [at : {"none", "posted", "clearing", "emitting", "ended",
                             "returned", "crashed", "unreachable"}, n : 0 .. Stages + 2]]
  /\ before \in [Runs -> [over : SUBSET Runs, hands : SUBSET Event]]
  /\ inFlight \in BOOLEAN
  /\ page \in [Pages -> {"unopened", "open", "left"}]
  /\ posting \subseteq Pages
  /\ pending \subseteq Pages
  /\ syncs \in [Pages -> Nat]
  /\ reader \in [Pages -> {"none", "waiting", "holding", "broken"}]
  /\ held \in [Pages -> Event \union {Nothing}]
  /\ orphans \in 0 .. MaxOrphans

\* Once a run has emptied the queue, no reader takes an event of a run that was over by
\* then: of an earlier run that has ended, pages are shown at most what a reader had in
\* hand already.  What a reader took between the send and the clearing is shown, be it
\* the closing event of an earlier run; and runs that overlap are another matter.
NothingStale ==
  \A r \in Runs :
    /\ \A i \in 1 .. Len(queue) : queue[i].run \notin before[r].over
    /\ \A p \in Pages : held[p].run \in before[r].over => held[p] \in before[r].hands

\* An event is in one place, in the queue or in one reader's hands: the tabs of a chat
\* share the events of a run between them, whatever readers, runs and clearing do at once.
OnePlaceEach ==
  /\ \A i, j \in 1 .. Len(queue) : queue[i] = queue[j] => i = j
  /\ \A p \in Pages : \A i \in 1 .. Len(queue) : held[p] # queue[i]
  /\ \A p, q \in Pages : held[p] = held[q] => p = q \/ held[p] = Nothing

\* The closing event of run r is not where page p could still get it from, and has
\* not just reached it either.
EndMissed(p, r) ==
  LET end == [run |-> r, n |-> EndEvent]
  IN  \/ run[r].at \in {"unreachable", "crashed"}
      \/ reader[p] = "broken"
      \/ /\ run[r].at \in {"ended", "returned"}
         /\ held[p] # end
         /\ syncs[p] = 0
         /\ \A i \in 1 .. Len(queue) : queue[i] # end

=============================================================================
