------------------------ MODULE PipelineEventsProofs -------------------------
(***************************************************************************)
(* What the session's queue does for its readers, for any number of pages, *)
(* runs and stages and any size of the queue.                              *)
(*                                                                         *)
(* A run emits its events in the order of their numbers, each once, so an  *)
(* event that is somewhere has been emitted, and an event about to be      *)
(* emitted is nowhere.                                                     *)
(***************************************************************************)
EXTENDS PipelineEvents, TLAPS

\* Run e.run has emitted e.
Emitted(e) ==
  \/ e.n < run[e.run].n
  \/ e.n = Stages + 2 /\ run[e.run].at = "returned"

\* The conjuncts of TypeOK.
QueueType == queue \in Seq(Event) /\ Len(queue) \leq QueueSize
RunType ==
  /\ posts \in 0 .. MaxRuns
  /\ run \in [Runs -> [at : {"none", "posted", "clearing", "emitting", "ended",
                             "returned", "crashed", "unreachable"}, n : 0 .. Stages + 2]]
  /\ before \in [Runs -> [over : SUBSET Runs, hands : SUBSET Event]]
PageType ==
  /\ inFlight \in BOOLEAN
  /\ page \in [Pages -> {"unopened", "open", "left"}]
  /\ posting \subseteq Pages
  /\ pending \subseteq Pages
  /\ syncs \in [Pages -> Nat]
  /\ reader \in [Pages -> {"none", "waiting", "holding", "broken"}]
  /\ orphans \in 0 .. MaxOrphans
HeldType == held \in [Pages -> Event \union {Nothing}]

\* The closing event, and what comes after it, is emitted last; runs are posted in
\* their order, and whoever was found to be over is over.
RunInv ==
  \A r \in Runs :
    /\ run[r].at \in {"none", "posted", "clearing", "emitting"} => run[r].n <= EndEvent
    /\ r > posts => run[r].at = "none"
    /\ before[r].over \subseteq Over

\* What is in the queue or in a reader's hands has been emitted.
EmittedInv ==
  /\ \A i \in 1 .. Len(queue) : Emitted(queue[i])
  /\ \A p \in Pages : held[p] # Nothing => Emitted(held[p])

IInv ==
  /\ QueueType /\ RunType /\ PageType /\ HeldType
  /\ RunInv /\ EmittedInv /\ NothingStale /\ OnePlaceEach

-----------------------------------------------------------------------------
\* Taking takes the first event and leaves the others in their order.
LEMMA TailFacts ==
  ASSUME QueueType, queue # <<>>
  PROVE  /\ Head(queue) = queue[1] /\ 1 \in 1 .. Len(queue) /\ queue[1] \in Event
         /\ Tail(queue) \in Seq(Event) /\ Len(Tail(queue)) = Len(queue) - 1
         /\ \A i \in 1 .. Len(Tail(queue)) :
              i + 1 \in 1 .. Len(queue) /\ Tail(queue)[i] = queue[i + 1]
  BY DEF QueueType

\* put_nowait adds an event at the end, if at all.
LEMMA PutFacts ==
  ASSUME QueueType, NEW e \in Event, Put(e)
  PROVE  /\ QueueType'
         /\ Len(queue') \in {Len(queue), Len(queue) + 1}
         /\ \A i \in 1 .. Len(queue) : i \in 1 .. Len(queue') /\ queue'[i] = queue[i]
         /\ Len(queue') = Len(queue) + 1 => queue'[Len(queue) + 1] = e
  BY QueueSizeAssumption DEF QueueType, Put

\* clear_session_events, as far as the run is concerned.
LEMMA ClearCases ==
  ASSUME NEW r, Clear(r)
  PROVE  /\ run[r].at = "clearing" /\ UNCHANGED <<chatVars, pageVars, socketVars>>
         /\ \/ /\ queue = <<>> /\ queue' = queue
               /\ run' = [run EXCEPT ![r].at = "emitting"]
               /\ before' = [before EXCEPT ![r] = [over |-> Over, hands |-> AtHand]]
            \/ /\ queue # <<>> /\ queue' = Tail(queue)
               /\ UNCHANGED <<run, before>>
  BY DEF Clear, Goto, FindEmpty

\* The numbers of the events.
LEMMA EventFacts ==
  /\ Nothing \notin Event
  /\ \A r \in Runs, n \in 0 .. Stages + 2 : [run |-> r, n |-> n] \in Event
  BY EventBoundsAssumption DEF Event, Nothing, Runs

-----------------------------------------------------------------------------
\* No event anywhere.
LEMMA InitIInv == Init => IInv
<1> SUFFICES ASSUME Init PROVE IInv
  OBVIOUS
<1>1. QueueType /\ PageType /\ HeldType
  <2>1. QueueType
    BY QueueSizeAssumption DEF Init, QueueType
  <2>2. PageType
    <3>1. orphans \in 0 .. MaxOrphans
      BY EventBoundsAssumption DEF Init
    <3>2. reader \in [Pages -> {"none", "waiting", "holding", "broken"}]
      BY DEF Init
    <3> QED
      BY <3>1, <3>2 DEF Init, PageType
  <2>3. HeldType
    BY DEF Init, HeldType
  <2> QED
    BY <2>1, <2>2, <2>3
<1>2. RunType
  BY EventBoundsAssumption DEF Init, RunType
<1>3. RunInv /\ EmittedInv /\ NothingStale /\ OnePlaceEach
  BY EventBoundsAssumption DEF Init, RunInv, EmittedInv, NothingStale, OnePlaceEach, EndEvent
<1> QED
  BY <1>1, <1>2, <1>3 DEF IInv

\* The runs.
LEMMA RunTypeStep == IInv /\ [Next]_vars => RunType'
<1> SUFFICES ASSUME IInv, [Next]_vars PROVE RunType'
  OBVIOUS
<1> USE EventBoundsAssumption DEF IInv, RunType, EndEvent, Runs
<1>1. ASSUME NEW r \in Runs, Save(r) PROVE RunType'
  BY <1>1 DEF Save, runVars, pageVars, socketVars
<1>2. ASSUME NEW r \in Runs, CallFails(r) PROVE RunType'
  BY <1>2 DEF CallFails, runVars, pageVars, socketVars
<1>3. ASSUME NEW r \in Runs, CallRun(r) PROVE RunType'
  BY <1>3 DEF CallRun, Goto, chatVars, pageVars, socketVars
<1>4. ASSUME NEW r \in Runs, Unreachable(r) PROVE RunType'
  BY <1>4 DEF Unreachable, Goto, pageVars, socketVars
<1>5. ASSUME NEW r \in Runs, Clear(r) PROVE RunType'
  <2>1. CASE UNCHANGED <<run, before>>
    BY <1>5, <2>1, ClearCases DEF chatVars
  <2>2. CASE /\ run' = [run EXCEPT ![r].at = "emitting"]
             /\ before' = [before EXCEPT ![r] = [over |-> Over, hands |-> AtHand]]
    <3>1. Over \in SUBSET Runs /\ AtHand \in SUBSET Event
      BY DEF Over, AtHand, HeldType, Nothing
    <3>2. [over |-> Over, hands |-> AtHand] \in [over : SUBSET Runs, hands : SUBSET Event]
      BY <3>1
    <3>3. before' \in [Runs -> [over : SUBSET Runs, hands : SUBSET Event]]
      BY <2>2, <3>2
    <3>4. posts' = posts
      BY <1>5, ClearCases DEF chatVars
    <3>5. run' \in [Runs -> [at : {"none", "posted", "clearing", "emitting", "ended",
                                   "returned", "crashed", "unreachable"}, n : 0 .. Stages + 2]]
      BY <2>2
    <3> QED
      BY <3>3, <3>4, <3>5
  <2> QED
    BY <1>5, <2>1, <2>2, ClearCases
<1>6. ASSUME NEW r \in Runs, Emit(r) PROVE RunType'
  BY <1>6 DEF Emit, chatVars, pageVars, socketVars
<1>7. ASSUME NEW r \in Runs, End(r) PROVE RunType'
  BY <1>7 DEF End, chatVars, pageVars, socketVars
<1>8. ASSUME NEW r \in Runs, EmitNotice(r) PROVE RunType'
  BY <1>8 DEF EmitNotice, Goto, chatVars, pageVars, socketVars
<1>9. ASSUME NEW r \in Runs, Return(r) PROVE RunType'
  BY <1>9 DEF Return, Goto, chatVars, pageVars, socketVars
<1>10. ASSUME NEW p \in Pages, Take(p) PROVE RunType'
  BY <1>10 DEF Take, chatVars, pageVars
<1>11. ASSUME NEW p \in Pages, Deliver(p) PROVE RunType'
  BY <1>11 DEF Deliver, runVars, chatVars
<1>12. ASSUME NEW p \in Pages, Disconnect(p) PROVE RunType'
  BY <1>12 DEF Disconnect, Abandon, runVars, chatVars, pageVars
<1>13. CASE Astray
  BY <1>13 DEF Astray, chatVars, pageVars
<1>14. ASSUME NEW p \in Pages, Open(p) PROVE RunType'
  BY <1>14 DEF Open, EnsureWs, runVars, chatVars
<1>15. ASSUME NEW p \in Pages, Send(p) PROVE RunType'
  BY <1>15 DEF Send, EnsureWs, runVars, chatVars
<1>16. ASSUME NEW p \in Pages, Accept(p) PROVE RunType'
  <2>1. posts < MaxRuns /\ posts' = posts + 1 /\ before' = before
    BY <1>16 DEF Accept
  <2>2. posts + 1 \in Runs /\ run' = [run EXCEPT ![posts + 1].at = "posted"]
    BY <1>16, <2>1 DEF Accept, Goto
  <2>3. run' \in [Runs -> [at : {"none", "posted", "clearing", "emitting", "ended",
                                 "returned", "crashed", "unreachable"}, n : 0 .. Stages + 2]]
    BY <2>2
  <2> QED
    BY <2>1, <2>3
<1>17. ASSUME NEW p \in Pages, PostFails(p) PROVE RunType'
  BY <1>17 DEF PostFails, runVars, chatVars, socketVars
<1>18. ASSUME NEW p \in Pages, Synced(p) PROVE RunType'
  BY <1>18 DEF Synced, runVars, chatVars, socketVars
<1>19. ASSUME NEW p \in Pages, Leave(p) PROVE RunType'
  BY <1>19 DEF Leave, Abandon, runVars, chatVars
<1>20. CASE UNCHANGED vars
  BY <1>20 DEF vars, runVars, chatVars, pageVars, socketVars
<1>21. CASE Crash
  BY <1>21 DEF Crash, chatVars, pageVars
<1> QED
  BY <1>1, <1>2, <1>3, <1>4, <1>5, <1>6, <1>7, <1>8, <1>9, <1>10, <1>11, <1>12, <1>13,
     <1>14, <1>15, <1>16, <1>17, <1>18, <1>19, <1>20, <1>21 DEF Next, Orchestrate, Relay

\* The pages.
LEMMA PageTypeStep == IInv /\ [Next]_vars => PageType'
<1> SUFFICES ASSUME IInv, [Next]_vars PROVE PageType'
  OBVIOUS
<1> USE EventBoundsAssumption DEF IInv, PageType, Reply
<1>1. ASSUME NEW r \in Runs, Save(r) PROVE PageType'
  BY <1>1 DEF Save, runVars, pageVars, socketVars
<1>2. ASSUME NEW r \in Runs, CallFails(r) PROVE PageType'
  BY <1>2 DEF CallFails, runVars, pageVars, socketVars
<1>3. ASSUME NEW r \in Runs, CallRun(r) PROVE PageType'
  BY <1>3 DEF CallRun, Goto, chatVars, pageVars, socketVars
<1>4. ASSUME NEW r \in Runs, Unreachable(r) PROVE PageType'
  BY <1>4 DEF Unreachable, Goto, pageVars, socketVars
<1>5. ASSUME NEW r \in Runs, Clear(r) PROVE PageType'
  BY <1>5, ClearCases DEF chatVars, pageVars, socketVars
<1>6. ASSUME NEW r \in Runs, Emit(r) PROVE PageType'
  BY <1>6 DEF Emit, chatVars, pageVars, socketVars
<1>7. ASSUME NEW r \in Runs, End(r) PROVE PageType'
  BY <1>7 DEF End, chatVars, pageVars, socketVars
<1>8. ASSUME NEW r \in Runs, EmitNotice(r) PROVE PageType'
  BY <1>8 DEF EmitNotice, Goto, chatVars, pageVars, socketVars
<1>9. ASSUME NEW r \in Runs, Return(r) PROVE PageType'
  BY <1>9 DEF Return, Goto, chatVars, pageVars, socketVars
<1>10. ASSUME NEW p \in Pages, Take(p) PROVE PageType'
  BY <1>10 DEF Take, chatVars, pageVars
<1>11. ASSUME NEW p \in Pages, Deliver(p) PROVE PageType'
  BY <1>11 DEF Deliver, runVars, chatVars
<1>12. ASSUME NEW p \in Pages, Disconnect(p) PROVE PageType'
  BY <1>12 DEF Disconnect, Abandon, runVars, chatVars, pageVars
<1>13. CASE Astray
  BY <1>13 DEF Astray, chatVars, pageVars
<1>14. ASSUME NEW p \in Pages, Open(p) PROVE PageType'
  BY <1>14 DEF Open, EnsureWs, runVars, chatVars
<1>15. ASSUME NEW p \in Pages, Send(p) PROVE PageType'
  BY <1>15 DEF Send, EnsureWs, runVars, chatVars
<1>16. ASSUME NEW p \in Pages, Accept(p) PROVE PageType'
  BY <1>16 DEF Accept, Goto, socketVars
<1>17. ASSUME NEW p \in Pages, PostFails(p) PROVE PageType'
  BY <1>17 DEF PostFails, runVars, chatVars, socketVars
<1>18. ASSUME NEW p \in Pages, Synced(p) PROVE PageType'
  BY <1>18 DEF Synced, runVars, chatVars, socketVars
<1>19. ASSUME NEW p \in Pages, Leave(p) PROVE PageType'
  BY <1>19 DEF Leave, Abandon, runVars, chatVars
<1>20. CASE UNCHANGED vars
  BY <1>20 DEF vars, runVars, chatVars, pageVars, socketVars
<1>21. CASE Crash
  BY <1>21 DEF Crash, chatVars, pageVars
<1> QED
  BY <1>1, <1>2, <1>3, <1>4, <1>5, <1>6, <1>7, <1>8, <1>9, <1>10, <1>11, <1>12, <1>13,
     <1>14, <1>15, <1>16, <1>17, <1>18, <1>19, <1>20, <1>21 DEF Next, Orchestrate, Relay

\* The order of a run.
LEMMA RunStep == IInv /\ [Next]_vars => RunInv'
<1> SUFFICES ASSUME IInv, [Next]_vars PROVE RunInv'
  OBVIOUS
<1> USE EventBoundsAssumption DEF IInv, RunType, RunInv, Over, EndEvent, Runs
<1>1. ASSUME NEW r \in Runs, Save(r) PROVE RunInv'
  BY <1>1 DEF Save, runVars, pageVars, socketVars
<1>2. ASSUME NEW r \in Runs, CallFails(r) PROVE RunInv'
  BY <1>2 DEF CallFails, runVars, pageVars, socketVars
<1>3. ASSUME NEW r \in Runs, CallRun(r) PROVE RunInv'
  BY <1>3 DEF CallRun, Goto, chatVars, pageVars, socketVars
<1>4. ASSUME NEW r \in Runs, Unreachable(r) PROVE RunInv'
  BY <1>4 DEF Unreachable, Goto, pageVars, socketVars
<1>5. ASSUME NEW r \in Runs, Clear(r) PROVE RunInv'
  <2>1. CASE UNCHANGED <<run, before>>
    BY <1>5, <2>1, ClearCases DEF chatVars
  <2>2. CASE /\ run' = [run EXCEPT ![r].at = "emitting"]
             /\ before' = [before EXCEPT ![r] = [over |-> Over, hands |-> AtHand]]
    <3>0. run[r].at = "clearing"
      BY <1>5, ClearCases
    <3>1. /\ run[r].at = "clearing" /\ run'[r].at = "emitting"
          /\ \A q \in Runs : run'[q].n = run[q].n /\ (q # r => run'[q] = run[q])
      BY <2>2, <3>0 DEF RunType
    <3>2. Over \subseteq Over' /\ posts' = posts
      BY <1>5, <3>1, ClearCases DEF Over, chatVars
    <3> QED
      BY <2>2, <3>1, <3>2
  <2> QED
    BY <1>5, <2>1, <2>2, ClearCases
<1>6. ASSUME NEW r \in Runs, Emit(r) PROVE RunInv'
  BY <1>6 DEF Emit, chatVars, pageVars, socketVars
<1>7. ASSUME NEW r \in Runs, End(r) PROVE RunInv'
  BY <1>7 DEF End, chatVars, pageVars, socketVars
<1>8. ASSUME NEW r \in Runs, EmitNotice(r) PROVE RunInv'
  BY <1>8 DEF EmitNotice, Goto, chatVars, pageVars, socketVars
<1>9. ASSUME NEW r \in Runs, Return(r) PROVE RunInv'
  BY <1>9 DEF Return, Goto, chatVars, pageVars, socketVars
<1>10. ASSUME NEW p \in Pages, Take(p) PROVE RunInv'
  BY <1>10 DEF Take, chatVars, pageVars
<1>11. ASSUME NEW p \in Pages, Deliver(p) PROVE RunInv'
  BY <1>11 DEF Deliver, runVars, chatVars
<1>12. ASSUME NEW p \in Pages, Disconnect(p) PROVE RunInv'
  BY <1>12 DEF Disconnect, Abandon, runVars, chatVars, pageVars
<1>13. CASE Astray
  BY <1>13 DEF Astray, chatVars, pageVars
<1>14. ASSUME NEW p \in Pages, Open(p) PROVE RunInv'
  BY <1>14 DEF Open, EnsureWs, runVars, chatVars
<1>15. ASSUME NEW p \in Pages, Send(p) PROVE RunInv'
  BY <1>15 DEF Send, EnsureWs, runVars, chatVars
<1>16. ASSUME NEW p \in Pages, Accept(p) PROVE RunInv'
  BY <1>16 DEF Accept, Goto, socketVars
<1>17. ASSUME NEW p \in Pages, PostFails(p) PROVE RunInv'
  BY <1>17 DEF PostFails, runVars, chatVars, socketVars
<1>18. ASSUME NEW p \in Pages, Synced(p) PROVE RunInv'
  BY <1>18 DEF Synced, runVars, chatVars, socketVars
<1>19. ASSUME NEW p \in Pages, Leave(p) PROVE RunInv'
  BY <1>19 DEF Leave, Abandon, runVars, chatVars
<1>20. CASE UNCHANGED vars
  BY <1>20 DEF vars, runVars, chatVars, pageVars, socketVars
<1>21. CASE Crash
  BY <1>21 DEF Crash, chatVars, pageVars
<1> QED
  BY <1>1, <1>2, <1>3, <1>4, <1>5, <1>6, <1>7, <1>8, <1>9, <1>10, <1>11, <1>12, <1>13,
     <1>14, <1>15, <1>16, <1>17, <1>18, <1>19, <1>20, <1>21 DEF Next, Orchestrate, Relay

\* The four things that may happen to the events: nothing, except that a reader
\* hands its event on; the first one is taken from the queue; a new one is put; all
\* are gone.
HandsOn ==
  /\ queue' = queue
  /\ held' = held \/ \E p \in Pages : held' = [held EXCEPT ![p] = Nothing]
Takes ==
  /\ queue # <<>> /\ queue' = Tail(queue)
  /\ held' = held \/ \E p \in Pages : held' = [held EXCEPT ![p] = Head(queue)]
Puts ==
  \E e \in Event :
    /\ Put(e) /\ held' = held /\ before' = before
    /\ ~Emitted(e) /\ Emitted(e)' /\ e.run \notin Over
Wiped == queue' = <<>> /\ held' = [p \in Pages |-> Nothing] /\ before' = before

\* Each step is one of them.
LEMMA EventCases == IInv /\ [Next]_vars => HandsOn \/ Takes \/ Puts \/ Wiped
<1> SUFFICES ASSUME IInv, [Next]_vars PROVE HandsOn \/ Takes \/ Puts \/ Wiped
  OBVIOUS
<1> USE EventBoundsAssumption DEF IInv, HandsOn, Takes, HeldType
<1>1. ASSUME NEW r \in Runs, Save(r) PROVE HandsOn \/ Takes \/ Puts \/ Wiped
  BY <1>1 DEF Save, runVars, pageVars, socketVars
<1>2. ASSUME NEW r \in Runs, CallFails(r) PROVE HandsOn \/ Takes \/ Puts \/ Wiped
  BY <1>2 DEF CallFails, runVars, pageVars, socketVars
<1>3. ASSUME NEW r \in Runs, CallRun(r) PROVE HandsOn \/ Takes \/ Puts \/ Wiped
  BY <1>3 DEF CallRun, Goto, chatVars, pageVars, socketVars
<1>4. ASSUME NEW r \in Runs, Unreachable(r) PROVE HandsOn \/ Takes \/ Puts \/ Wiped
  BY <1>4 DEF Unreachable, Goto, pageVars, socketVars
<1>5. ASSUME NEW r \in Runs, Clear(r) PROVE HandsOn \/ Takes \/ Puts \/ Wiped
  BY <1>5, ClearCases DEF chatVars, pageVars, socketVars
<1>6. ASSUME NEW r \in Runs, Emit(r) PROVE HandsOn \/ Takes \/ Puts \/ Wiped
  <2>1. PICK e \in Event : e = [run |-> r, n |-> run[r].n]
    BY <1>6, EventFacts DEF Emit, RunType, EndEvent
  <2>2. ~Emitted(e) /\ Emitted(e)' /\ e.run \notin Over
    <3>1. run[r].n \in 0 .. Stages /\ run'[r].n = run[r].n + 1 /\ run[r].at = "emitting"
      BY <1>6 DEF Emit, RunType, EndEvent
    <3> QED
      BY <2>1, <3>1 DEF Emitted, Over
  <2>3. Put(e) /\ held' = held /\ before' = before
    BY <1>6, <2>1 DEF Emit, socketVars
  <2> QED
    BY <2>1, <2>2, <2>3 DEF Puts
<1>7. ASSUME NEW r \in Runs, End(r) PROVE HandsOn \/ Takes \/ Puts \/ Wiped
  <2>1. PICK e \in Event : e = [run |-> r, n |-> EndEvent]
    BY <1>7, EventFacts DEF End, RunType, EndEvent
  <2>2. ~Emitted(e) /\ Emitted(e)' /\ e.run \notin Over
    BY <1>7, <2>1 DEF End, Emitted, Over, RunType, RunInv, EndEvent
  <2>3. Put(e) /\ held' = held /\ before' = before
    BY <1>7, <2>1 DEF End, socketVars
  <2> QED
    BY <2>1, <2>2, <2>3 DEF Puts
<1>8. ASSUME NEW r \in Runs, EmitNotice(r) PROVE HandsOn \/ Takes \/ Puts \/ Wiped
  <2>1. PICK e \in Event : e = [run |-> r, n |-> Stages + 2]
    BY <1>8, EventFacts DEF EmitNotice, RunType, EndEvent
  <2>2. ~Emitted(e) /\ Emitted(e)' /\ e.run \notin Over
    BY <1>8, <2>1 DEF EmitNotice, Emitted, Over, RunType, RunInv, EndEvent, Goto
  <2>3. Put(e) /\ held' = held /\ before' = before
    BY <1>8, <2>1 DEF EmitNotice, socketVars
  <2> QED
    BY <2>1, <2>2, <2>3 DEF Puts
<1>9. ASSUME NEW r \in Runs, Return(r) PROVE HandsOn \/ Takes \/ Puts \/ Wiped
  BY <1>9 DEF Return, Goto, chatVars, pageVars, socketVars
<1>10. ASSUME NEW p \in Pages, Take(p) PROVE HandsOn \/ Takes \/ Puts \/ Wiped
  BY <1>10 DEF Take, chatVars, pageVars
<1>11. ASSUME NEW p \in Pages, Deliver(p) PROVE HandsOn \/ Takes \/ Puts \/ Wiped
  BY <1>11 DEF Deliver, runVars, chatVars
<1>12. ASSUME NEW p \in Pages, Disconnect(p) PROVE HandsOn \/ Takes \/ Puts \/ Wiped
  BY <1>12 DEF Disconnect, Abandon, runVars, chatVars, pageVars
<1>13. CASE Astray
  BY <1>13 DEF Astray, chatVars, pageVars
<1>14. ASSUME NEW p \in Pages, Open(p) PROVE HandsOn \/ Takes \/ Puts \/ Wiped
  BY <1>14 DEF Open, EnsureWs, runVars, chatVars
<1>15. ASSUME NEW p \in Pages, Send(p) PROVE HandsOn \/ Takes \/ Puts \/ Wiped
  BY <1>15 DEF Send, EnsureWs, runVars, chatVars
<1>16. ASSUME NEW p \in Pages, Accept(p) PROVE HandsOn \/ Takes \/ Puts \/ Wiped
  BY <1>16 DEF Accept, Goto, socketVars
<1>17. ASSUME NEW p \in Pages, PostFails(p) PROVE HandsOn \/ Takes \/ Puts \/ Wiped
  BY <1>17 DEF PostFails, runVars, chatVars, socketVars
<1>18. ASSUME NEW p \in Pages, Synced(p) PROVE HandsOn \/ Takes \/ Puts \/ Wiped
  BY <1>18 DEF Synced, runVars, chatVars, socketVars
<1>19. ASSUME NEW p \in Pages, Leave(p) PROVE HandsOn \/ Takes \/ Puts \/ Wiped
  BY <1>19 DEF Leave, Abandon, runVars, chatVars
<1>20. CASE UNCHANGED vars
  BY <1>20 DEF vars, runVars, chatVars, pageVars, socketVars
<1>21. CASE Crash
  BY <1>21 DEF Crash, Wiped, chatVars, pageVars
<1> QED
  BY <1>1, <1>2, <1>3, <1>4, <1>5, <1>6, <1>7, <1>8, <1>9, <1>10, <1>11, <1>12, <1>13,
     <1>14, <1>15, <1>16, <1>17, <1>18, <1>19, <1>20, <1>21 DEF Next, Orchestrate, Relay

\* What was over is found out when the queue is empty.
FindsEmpty(q) ==
  /\ queue' = <<>> /\ held' = held
  /\ before' = [before EXCEPT ![q] = [over |-> Over, hands |-> AtHand]]

LEMMA BeforeCases == IInv /\ [Next]_vars => before' = before \/ \E q \in Runs : FindsEmpty(q)
<1> SUFFICES ASSUME IInv, [Next]_vars PROVE before' = before \/ \E q \in Runs : FindsEmpty(q)
  OBVIOUS
<1> USE DEF IInv
<1>1. ASSUME NEW r \in Runs, Save(r) PROVE before' = before \/ \E q \in Runs : FindsEmpty(q)
  BY <1>1 DEF Save, runVars, pageVars, socketVars
<1>2. ASSUME NEW r \in Runs, CallFails(r) PROVE before' = before \/ \E q \in Runs : FindsEmpty(q)
  BY <1>2 DEF CallFails, runVars, pageVars, socketVars
<1>3. ASSUME NEW r \in Runs, CallRun(r) PROVE before' = before \/ \E q \in Runs : FindsEmpty(q)
  BY <1>3 DEF CallRun, Goto, chatVars, pageVars, socketVars
<1>4. ASSUME NEW r \in Runs, Unreachable(r) PROVE before' = before \/ \E q \in Runs : FindsEmpty(q)
  BY <1>4 DEF Unreachable, Goto, pageVars, socketVars
<1>5. ASSUME NEW r \in Runs, Clear(r) PROVE before' = before \/ \E q \in Runs : FindsEmpty(q)
  BY <1>5, ClearCases DEF FindsEmpty, socketVars
<1>6. ASSUME NEW r \in Runs, Emit(r) PROVE before' = before \/ \E q \in Runs : FindsEmpty(q)
  BY <1>6 DEF Emit, chatVars, pageVars, socketVars
<1>7. ASSUME NEW r \in Runs, End(r) PROVE before' = before \/ \E q \in Runs : FindsEmpty(q)
  BY <1>7 DEF End, chatVars, pageVars, socketVars
<1>8. ASSUME NEW r \in Runs, EmitNotice(r) PROVE before' = before \/ \E q \in Runs : FindsEmpty(q)
  BY <1>8 DEF EmitNotice, Goto, chatVars, pageVars, socketVars
<1>9. ASSUME NEW r \in Runs, Return(r) PROVE before' = before \/ \E q \in Runs : FindsEmpty(q)
  BY <1>9 DEF Return, Goto, chatVars, pageVars, socketVars
<1>10. ASSUME NEW p \in Pages, Take(p) PROVE before' = before \/ \E q \in Runs : FindsEmpty(q)
  BY <1>10 DEF Take, chatVars, pageVars
<1>11. ASSUME NEW p \in Pages, Deliver(p) PROVE before' = before \/ \E q \in Runs : FindsEmpty(q)
  BY <1>11 DEF Deliver, runVars, chatVars
<1>12. ASSUME NEW p \in Pages, Disconnect(p) PROVE before' = before \/ \E q \in Runs : FindsEmpty(q)
  BY <1>12 DEF Disconnect, Abandon, runVars, chatVars, pageVars
<1>13. CASE Astray
  BY <1>13 DEF Astray, chatVars, pageVars
<1>14. ASSUME NEW p \in Pages, Open(p) PROVE before' = before \/ \E q \in Runs : FindsEmpty(q)
  BY <1>14 DEF Open, EnsureWs, runVars, chatVars
<1>15. ASSUME NEW p \in Pages, Send(p) PROVE before' = before \/ \E q \in Runs : FindsEmpty(q)
  BY <1>15 DEF Send, EnsureWs, runVars, chatVars
<1>16. ASSUME NEW p \in Pages, Accept(p) PROVE before' = before \/ \E q \in Runs : FindsEmpty(q)
  BY <1>16 DEF Accept, Goto, socketVars
<1>17. ASSUME NEW p \in Pages, PostFails(p) PROVE before' = before \/ \E q \in Runs : FindsEmpty(q)
  BY <1>17 DEF PostFails, runVars, chatVars, socketVars
<1>18. ASSUME NEW p \in Pages, Synced(p) PROVE before' = before \/ \E q \in Runs : FindsEmpty(q)
  BY <1>18 DEF Synced, runVars, chatVars, socketVars
<1>19. ASSUME NEW p \in Pages, Leave(p) PROVE before' = before \/ \E q \in Runs : FindsEmpty(q)
  BY <1>19 DEF Leave, Abandon, runVars, chatVars
<1>20. CASE UNCHANGED vars
  BY <1>20 DEF vars, runVars, chatVars, pageVars, socketVars
<1>21. CASE Crash
  BY <1>21 DEF Crash, chatVars, pageVars
<1> QED
  BY <1>1, <1>2, <1>3, <1>4, <1>5, <1>6, <1>7, <1>8, <1>9, <1>10, <1>11, <1>12, <1>13,
     <1>14, <1>15, <1>16, <1>17, <1>18, <1>19, <1>20, <1>21 DEF Next, Orchestrate, Relay

\* Runs do not go back, unless all that they emitted is gone with them.
LEMMA RunsGoOn == IInv /\ [Next]_vars => Wiped \/ \A e \in Event : Emitted(e) => Emitted(e)'
<1> SUFFICES ASSUME IInv, [Next]_vars PROVE Wiped \/ \A e \in Event : Emitted(e) => Emitted(e)'
  OBVIOUS
<1> USE EventBoundsAssumption DEF IInv, RunType, RunInv, Emitted, Event, Runs, EndEvent
<1>1. ASSUME NEW r \in Runs, Save(r) PROVE Wiped \/ \A e \in Event : Emitted(e) => Emitted(e)'
  BY <1>1 DEF Save, runVars, pageVars, socketVars
<1>2. ASSUME NEW r \in Runs, CallFails(r) PROVE Wiped \/ \A e \in Event : Emitted(e) => Emitted(e)'
  BY <1>2 DEF CallFails, runVars, pageVars, socketVars
<1>3. ASSUME NEW r \in Runs, CallRun(r) PROVE Wiped \/ \A e \in Event : Emitted(e) => Emitted(e)'
  BY <1>3 DEF CallRun, Goto, chatVars, pageVars, socketVars
<1>4. ASSUME NEW r \in Runs, Unreachable(r) PROVE Wiped \/ \A e \in Event : Emitted(e) => Emitted(e)'
  BY <1>4 DEF Unreachable, Goto, pageVars, socketVars
<1>5. ASSUME NEW r \in Runs, Clear(r) PROVE Wiped \/ \A e \in Event : Emitted(e) => Emitted(e)'
  <2>1. CASE UNCHANGED <<run, before>>
    BY <1>5, <2>1, ClearCases
  <2>2. CASE /\ run' = [run EXCEPT ![r].at = "emitting"]
             /\ before' = [before EXCEPT ![r] = [over |-> Over, hands |-> AtHand]]
    <3>1. /\ run[r].at = "clearing" /\ run'[r].at = "emitting"
          /\ \A q \in Runs : run'[q].n = run[q].n /\ (q # r => run'[q] = run[q])
      BY <1>5, <2>2, ClearCases DEF RunType
    <3> QED
      BY <3>1
  <2> QED
    BY <1>5, <2>1, <2>2, ClearCases
<1>6. ASSUME NEW r \in Runs, Emit(r) PROVE Wiped \/ \A e \in Event : Emitted(e) => Emitted(e)'
  BY <1>6 DEF Emit, chatVars, pageVars, socketVars
<1>7. ASSUME NEW r \in Runs, End(r) PROVE Wiped \/ \A e \in Event : Emitted(e) => Emitted(e)'
  BY <1>7 DEF End, chatVars, pageVars, socketVars
<1>8. ASSUME NEW r \in Runs, EmitNotice(r) PROVE Wiped \/ \A e \in Event : Emitted(e) => Emitted(e)'
  BY <1>8 DEF EmitNotice, Goto, chatVars, pageVars, socketVars
<1>9. ASSUME NEW r \in Runs, Return(r) PROVE Wiped \/ \A e \in Event : Emitted(e) => Emitted(e)'
  BY <1>9 DEF Return, Goto, chatVars, pageVars, socketVars
<1>10. ASSUME NEW p \in Pages, Take(p) PROVE Wiped \/ \A e \in Event : Emitted(e) => Emitted(e)'
  BY <1>10 DEF Take, chatVars, pageVars
<1>11. ASSUME NEW p \in Pages, Deliver(p) PROVE Wiped \/ \A e \in Event : Emitted(e) => Emitted(e)'
  BY <1>11 DEF Deliver, runVars, chatVars
<1>12. ASSUME NEW p \in Pages, Disconnect(p) PROVE Wiped \/ \A e \in Event : Emitted(e) => Emitted(e)'
  BY <1>12 DEF Disconnect, Abandon, runVars, chatVars, pageVars
<1>13. CASE Astray
  BY <1>13 DEF Astray, chatVars, pageVars
<1>14. ASSUME NEW p \in Pages, Open(p) PROVE Wiped \/ \A e \in Event : Emitted(e) => Emitted(e)'
  BY <1>14 DEF Open, EnsureWs, runVars, chatVars
<1>15. ASSUME NEW p \in Pages, Send(p) PROVE Wiped \/ \A e \in Event : Emitted(e) => Emitted(e)'
  BY <1>15 DEF Send, EnsureWs, runVars, chatVars
<1>16. ASSUME NEW p \in Pages, Accept(p) PROVE Wiped \/ \A e \in Event : Emitted(e) => Emitted(e)'
  <2>1. run[posts + 1].at = "none" /\ run' = [run EXCEPT ![posts + 1].at = "posted"]
    BY <1>16 DEF Accept, Goto
  <2>2. \A r \in Runs : run'[r].n = run[r].n /\ (run[r].at = "returned" => run'[r].at = "returned")
    BY <2>1
  <2> QED
    BY <2>2
<1>17. ASSUME NEW p \in Pages, PostFails(p) PROVE Wiped \/ \A e \in Event : Emitted(e) => Emitted(e)'
  BY <1>17 DEF PostFails, runVars, chatVars, socketVars
<1>18. ASSUME NEW p \in Pages, Synced(p) PROVE Wiped \/ \A e \in Event : Emitted(e) => Emitted(e)'
  BY <1>18 DEF Synced, runVars, chatVars, socketVars
<1>19. ASSUME NEW p \in Pages, Leave(p) PROVE Wiped \/ \A e \in Event : Emitted(e) => Emitted(e)'
  BY <1>19 DEF Leave, Abandon, runVars, chatVars
<1>20. CASE UNCHANGED vars
  BY <1>20 DEF vars, runVars, chatVars, pageVars, socketVars
<1>21. CASE Crash
  BY <1>21 DEF Crash, Wiped
<1> QED
  BY <1>1, <1>2, <1>3, <1>4, <1>5, <1>6, <1>7, <1>8, <1>9, <1>10, <1>11, <1>12, <1>13,
     <1>14, <1>15, <1>16, <1>17, <1>18, <1>19, <1>20, <1>21 DEF Next, Orchestrate, Relay

-----------------------------------------------------------------------------
\* The queue and what readers hold are events.
LEMMA EventTypeStep == IInv /\ [Next]_vars => QueueType' /\ HeldType'
<1> SUFFICES ASSUME IInv, [Next]_vars PROVE QueueType' /\ HeldType'
  OBVIOUS
<1> USE DEF IInv
<1>1. CASE HandsOn
  BY <1>1 DEF HandsOn, QueueType, HeldType
<1>2. CASE Takes
  <2>1. QueueType'
    <3>1. queue # <<>> /\ queue' = Tail(queue)
      BY <1>2 DEF Takes
    <3>2. queue' \in Seq(Event) /\ Len(queue') = Len(queue) - 1
      BY <3>1, TailFacts
    <3>3. Len(queue) \in Nat /\ Len(queue) \leq QueueSize
      BY DEF QueueType
    <3>4. Len(queue') \leq QueueSize
      BY <3>2, <3>3, QueueSizeAssumption
    <3> QED
      BY <3>2, <3>4 DEF QueueType
  <2>2. HeldType'
    BY <1>2, TailFacts DEF Takes, HeldType
  <2> QED
    BY <2>1, <2>2
<1>3. CASE Puts
  BY <1>3, PutFacts DEF Puts, HeldType
<1>4. CASE Wiped
  BY <1>4, QueueSizeAssumption DEF Wiped, QueueType, HeldType
<1> QED
  BY <1>1, <1>2, <1>3, <1>4, EventCases

\* Nothing turns up before it is emitted.
LEMMA EmittedStep == IInv /\ [Next]_vars => EmittedInv'
<1> SUFFICES ASSUME IInv, [Next]_vars PROVE EmittedInv'
  OBVIOUS
<1> USE DEF IInv, EmittedInv
<1>0. CASE Wiped
  BY <1>0 DEF Wiped
<1> SUFFICES ASSUME ~Wiped PROVE EmittedInv'
  BY <1>0
<1>g. \A e \in Event : Emitted(e) => Emitted(e)'
  BY RunsGoOn
<1> USE <1>g
<1>q. \A i \in 1 .. Len(queue) : queue[i] \in Event
  BY DEF QueueType
<1>1. CASE HandsOn
  BY <1>1, <1>q DEF HandsOn, HeldType
<1>2. CASE Takes
  <2>1. \A i \in 1 .. Len(queue') : Emitted(queue[i])'
    BY <1>2, <1>q, TailFacts DEF Takes
  <2>2. \A p \in Pages : held'[p] # Nothing => Emitted(held[p])'
    BY <1>2, <1>q, TailFacts DEF Takes, HeldType
  <2> QED
    BY <2>1, <2>2
<1>3. CASE Puts
  <2>1. PICK e \in Event : Put(e) /\ Emitted(e)' /\ held' = held
    BY <1>3 DEF Puts
  <2>2. \A i \in 1 .. Len(queue') : queue'[i] = e \/ (i \in 1 .. Len(queue) /\ queue'[i] = queue[i])
    BY <2>1, PutFacts DEF QueueType
  <2> QED
    BY <1>q, <2>1, <2>2 DEF HeldType
<1> QED
  BY <1>1, <1>2, <1>3, EventCases

\* Only runs that are not over emit, and what is taken has been in the queue.
LEMMA StaleStep == IInv /\ [Next]_vars => NothingStale'
<1> SUFFICES ASSUME IInv, [Next]_vars, NEW r \in Runs
             PROVE  /\ \A i \in 1 .. Len(queue') : queue'[i].run \notin before'[r].over
                    /\ \A p \in Pages : held'[p].run \in before'[r].over
                                         => held'[p] \in before'[r].hands
  BY DEF NothingStale
<1> USE DEF IInv
<1>q. \A i \in 1 .. Len(queue) : queue[i].run \notin before[r].over
  BY DEF NothingStale
<1>h. \A p \in Pages : held[p].run \in before[r].over => held[p] \in before[r].hands
  BY DEF NothingStale
<1>n. Nothing.run \notin before[r].over
  BY EventBoundsAssumption DEF RunType, Nothing, Runs
<1>1. ASSUME NEW q \in Runs, FindsEmpty(q)
      PROVE  /\ \A i \in 1 .. Len(queue') : queue'[i].run \notin before'[r].over
             /\ \A p \in Pages : held'[p].run \in before'[r].over
                                  => held'[p] \in before'[r].hands
  <2>1. CASE q = r
    <3>1. before'[r] = [over |-> Over, hands |-> AtHand] /\ held' = held /\ Len(queue') = 0
      BY <1>1, <2>1 DEF FindsEmpty, RunType
    <3>2. \A p \in Pages : held[p].run \in Over => held[p] \in AtHand
      BY DEF AtHand
    <3> QED
      BY <3>1, <3>2
  <2>2. CASE q # r
    <3>1. before'[r] = before[r] /\ held' = held /\ Len(queue') = 0
      BY <1>1, <2>2 DEF FindsEmpty, RunType
    <3> QED
      BY <1>h, <3>1
  <2> QED
    BY <2>1, <2>2
<1>2. CASE before' = before /\ HandsOn
  BY <1>2, <1>q, <1>h, <1>n DEF HandsOn, HeldType
<1>3. CASE before' = before /\ Takes
  <2>1. queue[1].run \notin before[r].over /\ Head(queue) = queue[1]
    BY <1>3, <1>q, TailFacts DEF Takes
  <2>2. \A i \in 1 .. Len(queue') : queue'[i].run \notin before[r].over
    BY <1>3, <1>q, TailFacts DEF Takes
  <2>3. \A p \in Pages : held'[p] \in {held[p], queue[1]}
    BY <1>3, <2>1 DEF Takes, HeldType
  <2> QED
    BY <1>3, <1>h, <2>1, <2>2, <2>3
<1>4. CASE Puts
  <2>1. PICK e \in Event : Put(e) /\ before' = before /\ held' = held /\ e.run \notin Over
    BY <1>4 DEF Puts
  <2>2. \A i \in 1 .. Len(queue') : queue'[i] = e \/ (i \in 1 .. Len(queue) /\ queue'[i] = queue[i])
    BY <2>1, PutFacts DEF QueueType
  <2>3. e.run \notin before[r].over
    BY <2>1 DEF RunInv
  <2> QED
    BY <1>q, <1>h, <2>1, <2>2, <2>3
<1>5. CASE Wiped
  BY <1>5, <1>n DEF Wiped
<1> QED
  BY <1>1, <1>2, <1>3, <1>4, <1>5, EventCases, BeforeCases

\* An event moves, and is not copied.
LEMMA PlacesStep == IInv /\ [Next]_vars => OnePlaceEach'
<1> SUFFICES ASSUME IInv, [Next]_vars PROVE OnePlaceEach'
  OBVIOUS
<1> USE DEF IInv, OnePlaceEach
<1>q. \A i \in 1 .. Len(queue) : queue[i] \in Event /\ queue[i] # Nothing
  BY EventFacts DEF QueueType
<1>1. CASE HandsOn
  BY <1>1, <1>q DEF HandsOn, HeldType
<1>2. CASE Takes
  <2>1. \A i \in 1 .. Len(queue') : i + 1 \in 1 .. Len(queue) /\ queue'[i] = queue[i + 1]
    BY <1>2, TailFacts DEF Takes
  <2>2. \A i \in 1 .. Len(queue') : queue'[i] # queue[1]
    BY <1>2, <2>1, TailFacts DEF Takes, QueueType
  <2>3. \A i, j \in 1 .. Len(queue') : queue'[i] = queue'[j] => i = j
    BY <1>2, <2>1, TailFacts DEF Takes, QueueType
  <2>4. CASE held' = held
    BY <2>1, <2>3, <2>4
  <2>5. ASSUME NEW p \in Pages, held' = [held EXCEPT ![p] = Head(queue)]
        PROVE  OnePlaceEach'
    <3>1. \A q \in Pages : held'[q] = IF q = p THEN queue[1] ELSE held[q]
      BY <1>2, <2>5, TailFacts DEF Takes, HeldType
    <3>2. \A q \in Pages : held[q] # queue[1]
      BY <1>2, TailFacts DEF Takes
    <3> QED
      BY <2>1, <2>2, <2>3, <3>1, <3>2
  <2> QED
    BY <1>2, <2>4, <2>5 DEF Takes
<1>3. CASE Puts
  <2>1. PICK e \in Event : Put(e) /\ ~Emitted(e) /\ held' = held
    BY <1>3 DEF Puts
  <2>2. \A i \in 1 .. Len(queue) : queue[i] # e
    BY <2>1 DEF EmittedInv
  <2>3. \A p \in Pages : held[p] # e
    BY <2>1, EventFacts DEF EmittedInv
  <2>4. \A i \in 1 .. Len(queue') :
          \/ i \in 1 .. Len(queue) /\ queue'[i] = queue[i]
          \/ i = Len(queue) + 1 /\ queue'[i] = e
    BY <2>1, PutFacts DEF QueueType
  <2> QED
    BY <2>1, <2>2, <2>3, <2>4
<1>4. CASE Wiped
  BY <1>4 DEF Wiped
<1> QED
  BY <1>1, <1>2, <1>3, <1>4, EventCases

-----------------------------------------------------------------------------
\* The invariant holds whatever readers, runs and pages do at once.
THEOREM EventsInvariant == Spec => []IInv
<1>1. IInv /\ [Next]_vars => IInv'
  BY RunTypeStep, PageTypeStep, RunStep, EventTypeStep, EmittedStep, StaleStep, PlacesStep
  DEF IInv
<1> QED
  BY InitIInv, <1>1, PTL DEF Spec

\* The queue keeps its bound, and everything else its values.
THEOREM EventsTypes == Spec => []TypeOK
<1>1. IInv => TypeOK
  BY DEF IInv, QueueType, RunType, PageType, HeldType, TypeOK
<1> QED
  BY <1>1, EventsInvariant, PTL

\* Once a run has cleared the queue, no reader takes an event of a run that was over.
THEOREM NothingStaleShown == Spec => []NothingStale
<1>1. IInv => NothingStale
  BY DEF IInv
<1> QED
  BY <1>1, EventsInvariant, PTL

\* No event is given to two readers, nor is it in the queue any more once given.
THEOREM OnePlace == Spec => []OnePlaceEach
<1>1. IInv => OnePlaceEach
  BY DEF IInv
<1> QED
  BY <1>1, EventsInvariant, PTL
==============================================================================
