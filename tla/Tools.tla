------------------------------- MODULE Tools --------------------------------
(***************************************************************************)
(* The tools service: worker threads that execute tools, and the live      *)
(* scores, which all come out of one cache behind one lock.                *)
(*                                                                         *)
(* The routes are plain functions, so each request occupies a thread of    *)
(* the server's pool from its start to its end, also while it waits for a  *)
(* provider or for the lock.  Every provider call has a timeout, except    *)
(* one: an MCP server that runs as a child process, asked over its         *)
(* standard input, may keep its thread for ever ("hung").                  *)
(***************************************************************************)
EXTENDS Integers, FiniteSets

CONSTANTS
  Requests,       \* requests to the service; each is made once
  Threads,        \* size of the server's thread pool (40)
  CacheSeconds,   \* LIVE_EVENTS_CACHE_SECONDS (30)
  MaxTime,        \* bound: the clock stops here
  NoOne           \* no request

ASSUME ThreadsAssumption == Threads \in Nat \ {0}
ASSUME CacheAssumption == CacheSeconds \in Nat \ {0}
ASSUME TimeAssumption == MaxTime \in Nat
ASSUME NoOneAssumption == NoOne \notin Requests

VARIABLES
  available,  \* football MCP servers whose tools register.py has registered
  clock,      \* time.monotonic(), in seconds
  at,         \* request -> where it is
  now,        \* live request -> now: the clock when it came in; 0 once it is over
  holder,     \* the request that holds _cache_lock
  cache,      \* _cache_value and _cache_expires_at; their key never changes
  shown       \* the last answer to a live request: its now, and the age of its scores

vars == <<available, clock, at, now, holder, cache, shown>>

Servers == {"livescore", "api-football"}

\* What a request may ask for, and the place where it waits for a thread.  "nothing"
\* is an unknown tool, a web search that the user has not enabled or one without a
\* query, an export without text.
Jobs == {"live", "web", "pdf", "nothing"} \cup Servers

\* Where a thread waits for somebody outside the service.
LiveCalls == {"live from livescore", "live from api-football"}
ToolCalls == {"tavily", "serper", "pdf primary", "pdf fallback",
              "asks livescore", "asks api-football"}
Hung == {"live call hung", "tool hung"}
Busy == {"lock"} \cup LiveCalls \cup ToolCalls \cup Hung
Places == {"idle", "done"} \cup Jobs \cup Busy

\* What a live request answers: matches or none, and since when that is known.
Scores == [events : {"some", "none"}, fetched : 0 .. MaxTime]
Nothing == [asked |-> 0]
Cached == [value : Scores, expires : Nat]
NoCache == [expires |-> 0]

-----------------------------------------------------------------------------
\* A server is left out if it is disabled, and API-Football without its key.
Init ==
  /\ available \in SUBSET Servers
  /\ clock = 0
  /\ at = [r \in Requests |-> "idle"]
  /\ now = [r \in Requests |-> 0]
  /\ holder = NoOne
  /\ cache = NoCache
  /\ shown = Nothing

Goto(r, place) == at' = [at EXCEPT ![r] = place] /\ UNCHANGED shown
End(r) == Goto(r, "done")

Request(r) ==
  /\ at[r] = "idle"
  /\ \E job \in Jobs : Goto(r, job)
  /\ UNCHANGED <<available, clock, now, holder, cache>>

FreeThread == Cardinality({r \in Requests : at[r] \in Busy}) < Threads

\* execute_tool: a disabled web search is skipped, an unknown tool not found.
Execute(r) ==
  CASE at[r] = "web" -> Goto(r, "tavily")
    [] at[r] = "pdf" -> Goto(r, "pdf primary")
    [] at[r] = "livescore" /\ at[r] \in available    -> Goto(r, "asks livescore")
    [] at[r] = "api-football" /\ at[r] \in available -> Goto(r, "asks api-football")
    [] OTHER -> End(r)

\* A thread takes the request up.  A live request reads the clock before it waits
\* for the lock.
Start(r) ==
  /\ at[r] \in Jobs /\ FreeThread
  /\ IF at[r] = "live"
     THEN Goto(r, "lock") /\ now' = [now EXCEPT ![r] = clock]
     ELSE Execute(r) /\ UNCHANGED now
  /\ UNCHANGED <<available, clock, holder, cache>>

-----------------------------------------------------------------------------
(* Live scores *)

Show(r, scores) ==
  /\ at' = [at EXCEPT ![r] = "done"]
  /\ now' = [now EXCEPT ![r] = 0]
  /\ shown' = [asked |-> now[r], fetched |-> scores.fetched]

\* The end of fetch_live_events, where the clock is read again.
Store(r, scores) ==
  /\ cache' = [value |-> scores, expires |-> clock + CacheSeconds]
  /\ holder' = NoOne
  /\ Show(r, scores)

\* No provider is configured, or all of them have failed: that is stored as well.
Nobody == [events |-> "none", fetched |-> clock]

\* Mutant: when no provider answers, the last scores are stored once more.
NextCandidateOrLast(r, candidates) ==
  CASE "livescore" \in candidates ->
         Goto(r, "live from livescore") /\ holder' = r /\ UNCHANGED <<now, cache>>
    [] "livescore" \notin candidates /\ "api-football" \in candidates ->
         Goto(r, "live from api-football") /\ holder' = r /\ UNCHANGED <<now, cache>>
    [] OTHER -> Store(r, IF cache = NoCache THEN Nobody ELSE cache.value)

\* LIVE_TOOL_CANDIDATES in their order.  Caller: takes or holds the lock.
NextCandidate(r, candidates) ==
  CASE "livescore" \in candidates ->
         Goto(r, "live from livescore") /\ holder' = r /\ UNCHANGED <<now, cache>>
    [] "livescore" \notin candidates /\ "api-football" \in candidates ->
         Goto(r, "live from api-football") /\ holder' = r /\ UNCHANGED <<now, cache>>
    [] OTHER -> Store(r, Nobody)

\* Mutant: the cache is looked at without the lock.
LookUnlocked(r) ==
  /\ at[r] = "lock"
  /\ IF cache # NoCache /\ now[r] < cache.expires
     THEN Show(r, cache.value) /\ UNCHANGED <<holder, cache>>
     ELSE NextCandidate(r, available)
  /\ UNCHANGED <<available, clock>>

\* The lock is free: the cached scores, or a new fetch.
Look(r) ==
  /\ at[r] = "lock" /\ holder = NoOne
  /\ IF cache # NoCache /\ now[r] < cache.expires
     THEN Show(r, cache.value) /\ UNCHANGED <<holder, cache>>
     ELSE NextCandidate(r, available)
  /\ UNCHANGED <<available, clock>>

\* The provider answers.  Text that is not JSON, an error it puts into words and
\* rows without two team names all come to no events.
LiveAnswered(r) ==
  /\ at[r] \in LiveCalls
  /\ \E e \in {"some", "none"} : Store(r, [events |-> e, fetched |-> clock])
  /\ UNCHANGED <<available, clock>>

\* An exception of the call, the timeout of a call over SSE included.
LiveFails(r) ==
  /\ at[r] \in LiveCalls
  /\ NextCandidate(r, IF at[r] = "live from livescore" THEN available \ {"livescore"} ELSE {})
  /\ UNCHANGED <<available, clock>>

\* Mutant: the lock is not released by an exception.
LiveRaisesLocked(r) ==
  /\ at[r] \in LiveCalls
  /\ End(r)
  /\ now' = [now EXCEPT ![r] = 0]
  /\ UNCHANGED <<available, clock, holder, cache>>

\* normalize_live_events raises on a value it did not expect (a score that is not
\* a finite number): a 500, and the cache stays what it was.
LiveRaises(r) ==
  /\ at[r] \in LiveCalls
  /\ End(r)
  /\ holder' = NoOne
  /\ now' = [now EXCEPT ![r] = 0]
  /\ UNCHANGED <<available, clock, cache>>

-----------------------------------------------------------------------------
(* Other tools *)

ToolAnswers(r) ==
  /\ at[r] \in ToolCalls
  /\ End(r)
  /\ UNCHANGED <<available, clock, now, holder, cache>>

\* search_web asks Serper after Tavily, also where a key is missing.
SearchAgain(r) ==
  /\ at[r] = "tavily"
  /\ Goto(r, "serper")
  /\ UNCHANGED <<available, clock, now, holder, cache>>

\* markdown_to_pdf tries a second package.
ConvertAgain(r) ==
  /\ at[r] = "pdf primary"
  /\ Goto(r, "pdf fallback")
  /\ UNCHANGED <<available, clock, now, holder, cache>>

\* There is nobody else to ask: the error is the answer.
ToolFails(r) ==
  /\ at[r] \in ToolCalls \ {"tavily", "pdf primary"}
  /\ End(r)
  /\ UNCHANGED <<available, clock, now, holder, cache>>

\* call_stdio_tool waits without a timeout.
Hangs(r) ==
  /\ \/ at[r] = "live from api-football" /\ Goto(r, "live call hung")
     \/ at[r] = "asks api-football" /\ Goto(r, "tool hung")
  /\ UNCHANGED <<available, clock, now, holder, cache>>

-----------------------------------------------------------------------------
\* The process ends and a new one begins, with the same settings.
Restart ==
  /\ at' = [r \in Requests |-> IF at[r] = "idle" THEN "idle" ELSE "done"]
  /\ holder' = NoOne
  /\ cache' = NoCache
  /\ now' = [r \in Requests |-> 0]
  /\ UNCHANGED <<available, clock, shown>>

Tick ==
  /\ clock < MaxTime
  /\ clock' = clock + 1
  /\ UNCHANGED <<available, at, now, holder, cache, shown>>

\* What the service does of a request's own accord.
Serve(r) ==
  \/ Start(r) \/ Look(r)
  \/ LiveAnswered(r) \/ LiveFails(r) \/ LiveRaises(r)
  \/ ToolAnswers(r) \/ SearchAgain(r) \/ ConvertAgain(r) \/ ToolFails(r) \/ Hangs(r)

Next ==
  \/ \E r \in Requests : Request(r) \/ Serve(r)
  \/ Restart
  \/ Tick

\* Threads run, and calls end or hang.
Fairness == \A r \in Requests : WF_vars(Serve(r))

Spec == Init /\ [][Next]_vars /\ Fairness

-----------------------------------------------------------------------------
(* Properties *)

\* Types and ranges.
TypeOK ==
  /\ available \subseteq Servers
  /\ clock \in 0 .. MaxTime
  /\ at \in [Requests -> Places]
  /\ now \in [Requests -> 0 .. MaxTime]
  /\ holder \in Requests \cup {NoOne}
  /\ cache = NoCache \/ cache \in Cached
  /\ shown = Nothing \/ shown \in [asked : 0 .. MaxTime, fetched : 0 .. MaxTime]

\* A live request that asks providers, or waits for one that never answers.
Fetching == {r \in Requests : at[r] \in LiveCalls \cup {"live call hung"}}

\* "a short cache to protect public MCP providers": however many requests come at
\* once, one of them asks, and the next one that asks does so CacheSeconds after
\* the last scores were stored at the earliest.
ProtectsProviders ==
  [][\A r \in Requests : at[r] = "lock" /\ at'[r] \in LiveCalls =>
       /\ Fetching = {}
       /\ cache # NoCache => clock >= cache.value.fetched + CacheSeconds]_vars

\* Nobody is shown scores that were CacheSeconds old when the request came in,
\* whatever the request waited for and whoever failed meanwhile.
ScoresAreCurrent ==
  shown # Nothing =>
    /\ shown.fetched + CacheSeconds > shown.asked
    /\ shown.fetched <= clock

\* A request can be kept for ever only by child processes: by its own, by that of
\* the request that holds the lock, or by as many as there are threads.
Stuck(r) ==
  \/ at[r] \in Hung
  \/ holder # NoOne /\ at[holder] \in Hung
  \/ Cardinality({q \in Requests : at[q] \in Hung}) >= Threads

\* Every other request comes to its end and gives its thread back.
EveryThreadIsFreed ==
  \A r \in Requests : at[r] \in Jobs ~> (at[r] = "done" \/ Stuck(r))
=============================================================================
