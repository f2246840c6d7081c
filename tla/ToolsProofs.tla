----------------------------- MODULE ToolsProofs -----------------------------
(***************************************************************************)
(* The cache of the live scores and its lock, for any number of requests   *)
(* and threads and any lifetime of the cache.                              *)
(***************************************************************************)
EXTENDS Tools, TLAPS

\* The lock is held exactly by the request that asks the providers.
LockInv ==
  \A r \in Requests : at[r] \in LiveCalls \cup {"live call hung"} <=> holder = r

\* No request has read the clock ahead of its time, and the cache says itself how
\* old it is.
ClockInv ==
  /\ \A r \in Requests : now[r] <= clock
  /\ cache # NoCache =>
       /\ cache.value.fetched <= clock
       /\ cache.expires = cache.value.fetched + CacheSeconds

\* The conjuncts of TypeOK.
PlaceType ==
  /\ available \subseteq Servers
  /\ at \in [Requests -> Places]
  /\ holder \in Requests \cup {NoOne}
ClockType == clock \in 0 .. MaxTime /\ now \in [Requests -> 0 .. MaxTime]
CacheType == cache = NoCache \/ cache \in Cached
ShownType == shown = Nothing \/ shown \in [asked : 0 .. MaxTime, fetched : 0 .. MaxTime]

IInv ==
  /\ PlaceType /\ ClockType /\ CacheType /\ ShownType
  /\ LockInv /\ ClockInv /\ ScoresAreCurrent

-----------------------------------------------------------------------------
\* The request goes on to ask a provider, and has the lock.
Asks(r) ==
  \E place \in LiveCalls : Goto(r, place) /\ holder' = r /\ UNCHANGED <<now, cache>>

\* There is a provider to ask, or the answer is that there is none.
LEMMA NextCandidateCases ==
  ASSUME NEW r, NEW candidates, NextCandidate(r, candidates)
  PROVE  Asks(r) \/ Store(r, Nobody)
  BY DEF NextCandidate, Asks, LiveCalls

\* A look at the cache ends with what is cached, with a call, or without one.
LEMMA LookCases ==
  ASSUME NEW r, Look(r)
  PROVE  /\ at[r] = "lock" /\ holder = NoOne /\ UNCHANGED <<available, clock>>
         /\ \/ /\ cache # NoCache /\ now[r] < cache.expires
               /\ Show(r, cache.value) /\ UNCHANGED <<holder, cache>>
            \/ Asks(r) /\ ~(cache # NoCache /\ now[r] < cache.expires)
            \/ Store(r, Nobody)
  BY NextCandidateCases DEF Look

\* After an error the next provider is asked, or the answer is that there is none.
LEMMA FailsCases ==
  ASSUME NEW r, LiveFails(r)
  PROVE  /\ at[r] \in LiveCalls /\ UNCHANGED <<available, clock>>
         /\ Asks(r) \/ Store(r, Nobody)
  BY NextCandidateCases DEF LiveFails

-----------------------------------------------------------------------------
\* No request, nothing cached.
LEMMA InitIInv == Init => IInv
  BY NoOneAssumption, TimeAssumption
  DEF Init, IInv, PlaceType, ClockType, CacheType, ShownType, LockInv, ClockInv,
      ScoresAreCurrent, Places, LiveCalls

\* Requests go from place to place.
LEMMA PlaceStep == IInv /\ [Next]_vars => PlaceType'
<1> SUFFICES ASSUME IInv, [Next]_vars PROVE PlaceType'
  OBVIOUS
<1> USE CacheAssumption, TimeAssumption, NoOneAssumption DEF IInv, PlaceType, Places, Jobs, Servers, Busy, LiveCalls, ToolCalls, Hung
<1>1. ASSUME NEW r \in Requests, Request(r) PROVE PlaceType'
  BY <1>1 DEF Request, Goto
<1>2. ASSUME NEW r \in Requests, Start(r) PROVE PlaceType'
  BY <1>2 DEF Start, Execute, Goto, End
<1>3. ASSUME NEW r \in Requests, Look(r) PROVE PlaceType'
  BY <1>3, LookCases DEF Asks, Show, Store, Goto, Nobody
<1>4. ASSUME NEW r \in Requests, LiveAnswered(r) PROVE PlaceType'
  BY <1>4 DEF LiveAnswered, Store, Show
<1>5. ASSUME NEW r \in Requests, LiveFails(r) PROVE PlaceType'
  BY <1>5, FailsCases DEF Asks, Show, Store, Goto, Nobody
<1>6. ASSUME NEW r \in Requests, LiveRaises(r) PROVE PlaceType'
  BY <1>6 DEF LiveRaises, End, Goto
<1>7. ASSUME NEW r \in Requests, ToolAnswers(r) PROVE PlaceType'
  BY <1>7 DEF ToolAnswers, End, Goto
<1>8. ASSUME NEW r \in Requests, SearchAgain(r) PROVE PlaceType'
  BY <1>8 DEF SearchAgain, Goto
<1>9. ASSUME NEW r \in Requests, ConvertAgain(r) PROVE PlaceType'
  BY <1>9 DEF ConvertAgain, Goto
<1>10. ASSUME NEW r \in Requests, ToolFails(r) PROVE PlaceType'
  BY <1>10 DEF ToolFails, End, Goto
<1>11. ASSUME NEW r \in Requests, Hangs(r) PROVE PlaceType'
  BY <1>11 DEF Hangs, Goto
<1>12. CASE Restart
  BY <1>12 DEF Restart
<1>13. CASE Tick
  BY <1>13 DEF Tick
<1>14. CASE UNCHANGED vars
  BY <1>14 DEF vars
<1> QED
  BY <1>1, <1>2, <1>3, <1>4, <1>5, <1>6, <1>7, <1>8, <1>9, <1>10, <1>11, <1>12, <1>13, <1>14 DEF Next, Serve

\* The clock and what was read from it.
LEMMA ClockStep == IInv /\ [Next]_vars => ClockType'
<1> SUFFICES ASSUME IInv, [Next]_vars PROVE ClockType'
  OBVIOUS
<1> USE CacheAssumption, TimeAssumption, NoOneAssumption DEF IInv, ClockType, PlaceType
<1>1. ASSUME NEW r \in Requests, Request(r) PROVE ClockType'
  BY <1>1 DEF Request, Goto
<1>2. ASSUME NEW r \in Requests, Start(r) PROVE ClockType'
  BY <1>2 DEF Start, Execute, Goto, End
<1>3. ASSUME NEW r \in Requests, Look(r) PROVE ClockType'
  BY <1>3, LookCases DEF Asks, Show, Store, Goto, Nobody
<1>4. ASSUME NEW r \in Requests, LiveAnswered(r) PROVE ClockType'
  BY <1>4 DEF LiveAnswered, Store, Show
<1>5. ASSUME NEW r \in Requests, LiveFails(r) PROVE ClockType'
  BY <1>5, FailsCases DEF Asks, Show, Store, Goto, Nobody
<1>6. ASSUME NEW r \in Requests, LiveRaises(r) PROVE ClockType'
  BY <1>6 DEF LiveRaises, End, Goto
<1>7. ASSUME NEW r \in Requests, ToolAnswers(r) PROVE ClockType'
  BY <1>7 DEF ToolAnswers, End, Goto
<1>8. ASSUME NEW r \in Requests, SearchAgain(r) PROVE ClockType'
  BY <1>8 DEF SearchAgain, Goto
<1>9. ASSUME NEW r \in Requests, ConvertAgain(r) PROVE ClockType'
  BY <1>9 DEF ConvertAgain, Goto
<1>10. ASSUME NEW r \in Requests, ToolFails(r) PROVE ClockType'
  BY <1>10 DEF ToolFails, End, Goto
<1>11. ASSUME NEW r \in Requests, Hangs(r) PROVE ClockType'
  BY <1>11 DEF Hangs, Goto
<1>12. CASE Restart
  BY <1>12 DEF Restart
<1>13. CASE Tick
  BY <1>13 DEF Tick
<1>14. CASE UNCHANGED vars
  BY <1>14 DEF vars
<1> QED
  BY <1>1, <1>2, <1>3, <1>4, <1>5, <1>6, <1>7, <1>8, <1>9, <1>10, <1>11, <1>12, <1>13, <1>14 DEF Next, Serve

\* What is cached.
LEMMA CacheStep == IInv /\ [Next]_vars => CacheType'
<1> SUFFICES ASSUME IInv, [Next]_vars PROVE CacheType'
  OBVIOUS
<1> USE CacheAssumption, TimeAssumption, NoOneAssumption DEF IInv, CacheType, ClockType, PlaceType, Cached, Scores
<1>1. ASSUME NEW r \in Requests, Request(r) PROVE CacheType'
  BY <1>1 DEF Request, Goto
<1>2. ASSUME NEW r \in Requests, Start(r) PROVE CacheType'
  BY <1>2 DEF Start, Execute, Goto, End
<1>3. ASSUME NEW r \in Requests, Look(r) PROVE CacheType'
  BY <1>3, LookCases DEF Asks, Show, Store, Goto, Nobody
<1>4. ASSUME NEW r \in Requests, LiveAnswered(r) PROVE CacheType'
  BY <1>4 DEF LiveAnswered, Store, Show
<1>5. ASSUME NEW r \in Requests, LiveFails(r) PROVE CacheType'
  BY <1>5, FailsCases DEF Asks, Show, Store, Goto, Nobody
<1>6. ASSUME NEW r \in Requests, LiveRaises(r) PROVE CacheType'
  BY <1>6 DEF LiveRaises, End, Goto
<1>7. ASSUME NEW r \in Requests, ToolAnswers(r) PROVE CacheType'
  BY <1>7 DEF ToolAnswers, End, Goto
<1>8. ASSUME NEW r \in Requests, SearchAgain(r) PROVE CacheType'
  BY <1>8 DEF SearchAgain, Goto
<1>9. ASSUME NEW r \in Requests, ConvertAgain(r) PROVE CacheType'
  BY <1>9 DEF ConvertAgain, Goto
<1>10. ASSUME NEW r \in Requests, ToolFails(r) PROVE CacheType'
  BY <1>10 DEF ToolFails, End, Goto
<1>11. ASSUME NEW r \in Requests, Hangs(r) PROVE CacheType'
  BY <1>11 DEF Hangs, Goto
<1>12. CASE Restart
  BY <1>12 DEF Restart
<1>13. CASE Tick
  BY <1>13 DEF Tick
<1>14. CASE UNCHANGED vars
  BY <1>14 DEF vars
<1> QED
  BY <1>1, <1>2, <1>3, <1>4, <1>5, <1>6, <1>7, <1>8, <1>9, <1>10, <1>11, <1>12, <1>13, <1>14 DEF Next, Serve

\* What is shown.
LEMMA ShownStep == IInv /\ [Next]_vars => ShownType'
<1> SUFFICES ASSUME IInv, [Next]_vars PROVE ShownType'
  OBVIOUS
<1> USE CacheAssumption, TimeAssumption, NoOneAssumption DEF IInv, ShownType, CacheType, ClockType, PlaceType, Cached, Scores
<1>1. ASSUME NEW r \in Requests, Request(r) PROVE ShownType'
  BY <1>1 DEF Request, Goto
<1>2. ASSUME NEW r \in Requests, Start(r) PROVE ShownType'
  BY <1>2 DEF Start, Execute, Goto, End
<1>3. ASSUME NEW r \in Requests, Look(r) PROVE ShownType'
  BY <1>3, LookCases DEF Asks, Show, Store, Goto, Nobody
<1>4. ASSUME NEW r \in Requests, LiveAnswered(r) PROVE ShownType'
  BY <1>4 DEF LiveAnswered, Store, Show
<1>5. ASSUME NEW r \in Requests, LiveFails(r) PROVE ShownType'
  BY <1>5, FailsCases DEF Asks, Show, Store, Goto, Nobody
<1>6. ASSUME NEW r \in Requests, LiveRaises(r) PROVE ShownType'
  BY <1>6 DEF LiveRaises, End, Goto
<1>7. ASSUME NEW r \in Requests, ToolAnswers(r) PROVE ShownType'
  BY <1>7 DEF ToolAnswers, End, Goto
<1>8. ASSUME NEW r \in Requests, SearchAgain(r) PROVE ShownType'
  BY <1>8 DEF SearchAgain, Goto
<1>9. ASSUME NEW r \in Requests, ConvertAgain(r) PROVE ShownType'
  BY <1>9 DEF ConvertAgain, Goto
<1>10. ASSUME NEW r \in Requests, ToolFails(r) PROVE ShownType'
  BY <1>10 DEF ToolFails, End, Goto
<1>11. ASSUME NEW r \in Requests, Hangs(r) PROVE ShownType'
  BY <1>11 DEF Hangs, Goto
<1>12. CASE Restart
  BY <1>12 DEF Restart
<1>13. CASE Tick
  BY <1>13 DEF Tick
<1>14. CASE UNCHANGED vars
  BY <1>14 DEF vars
<1> QED
  BY <1>1, <1>2, <1>3, <1>4, <1>5, <1>6, <1>7, <1>8, <1>9, <1>10, <1>11, <1>12, <1>13, <1>14 DEF Next, Serve

\* Whoever begins to ask takes the lock, and whoever ends gives it back.
LEMMA LockStep == IInv /\ [Next]_vars => LockInv'
<1> SUFFICES ASSUME IInv, [Next]_vars PROVE LockInv'
  OBVIOUS
<1> USE CacheAssumption, TimeAssumption, NoOneAssumption DEF IInv, LockInv, PlaceType, Places, Jobs, Servers, Busy, LiveCalls, ToolCalls, Hung
<1>1. ASSUME NEW r \in Requests, Request(r) PROVE LockInv'
  BY <1>1 DEF Request, Goto
<1>2. ASSUME NEW r \in Requests, Start(r) PROVE LockInv'
  BY <1>2 DEF Start, Execute, Goto, End
<1>3. ASSUME NEW r \in Requests, Look(r) PROVE LockInv'
  BY <1>3, LookCases DEF Asks, Show, Store, Goto, Nobody
<1>4. ASSUME NEW r \in Requests, LiveAnswered(r) PROVE LockInv'
  BY <1>4 DEF LiveAnswered, Store, Show
<1>5. ASSUME NEW r \in Requests, LiveFails(r) PROVE LockInv'
  <2>1. at[r] \in LiveCalls /\ holder = r
    BY <1>5, FailsCases
  <2>2. CASE Asks(r)
    BY <2>1, <2>2 DEF Asks, Goto
  <2>3. CASE Store(r, Nobody)
    BY <2>1, <2>3 DEF Store, Show
  <2> QED
    BY <1>5, <2>2, <2>3, FailsCases
<1>6. ASSUME NEW r \in Requests, LiveRaises(r) PROVE LockInv'
  BY <1>6 DEF LiveRaises, End, Goto
<1>7. ASSUME NEW r \in Requests, ToolAnswers(r) PROVE LockInv'
  BY <1>7 DEF ToolAnswers, End, Goto
<1>8. ASSUME NEW r \in Requests, SearchAgain(r) PROVE LockInv'
  BY <1>8 DEF SearchAgain, Goto
<1>9. ASSUME NEW r \in Requests, ConvertAgain(r) PROVE LockInv'
  BY <1>9 DEF ConvertAgain, Goto
<1>10. ASSUME NEW r \in Requests, ToolFails(r) PROVE LockInv'
  BY <1>10 DEF ToolFails, End, Goto
<1>11. ASSUME NEW r \in Requests, Hangs(r) PROVE LockInv'
  BY <1>11 DEF Hangs, Goto
<1>12. CASE Restart
  BY <1>12 DEF Restart
<1>13. CASE Tick
  BY <1>13 DEF Tick
<1>14. CASE UNCHANGED vars
  BY <1>14 DEF vars
<1> QED
  BY <1>1, <1>2, <1>3, <1>4, <1>5, <1>6, <1>7, <1>8, <1>9, <1>10, <1>11, <1>12, <1>13, <1>14 DEF Next, Serve

\* A value is stored together with the time until which it is good.
LEMMA ClockInvStep == IInv /\ [Next]_vars => ClockInv'
<1> SUFFICES ASSUME IInv, [Next]_vars PROVE ClockInv'
  OBVIOUS
<1> USE CacheAssumption, TimeAssumption, NoOneAssumption DEF IInv, ClockInv, CacheType, ClockType, PlaceType, Cached, Scores
<1>1. ASSUME NEW r \in Requests, Request(r) PROVE ClockInv'
  BY <1>1 DEF Request, Goto
<1>2. ASSUME NEW r \in Requests, Start(r) PROVE ClockInv'
  <2>1. now' = [now EXCEPT ![r] = clock] \/ now' = now
    BY <1>2 DEF Start
  <2>2. UNCHANGED <<clock, cache>>
    BY <1>2 DEF Start
  <2> QED
    BY <2>1, <2>2
<1>3. ASSUME NEW r \in Requests, Look(r) PROVE ClockInv'
  BY <1>3, LookCases DEF Asks, Show, Store, Goto, Nobody
<1>4. ASSUME NEW r \in Requests, LiveAnswered(r) PROVE ClockInv'
  BY <1>4 DEF LiveAnswered, Store, Show
<1>5. ASSUME NEW r \in Requests, LiveFails(r) PROVE ClockInv'
  BY <1>5, FailsCases DEF Asks, Show, Store, Goto, Nobody
<1>6. ASSUME NEW r \in Requests, LiveRaises(r) PROVE ClockInv'
  BY <1>6 DEF LiveRaises, End, Goto
<1>7. ASSUME NEW r \in Requests, ToolAnswers(r) PROVE ClockInv'
  BY <1>7 DEF ToolAnswers, End, Goto
<1>8. ASSUME NEW r \in Requests, SearchAgain(r) PROVE ClockInv'
  BY <1>8 DEF SearchAgain, Goto
<1>9. ASSUME NEW r \in Requests, ConvertAgain(r) PROVE ClockInv'
  BY <1>9 DEF ConvertAgain, Goto
<1>10. ASSUME NEW r \in Requests, ToolFails(r) PROVE ClockInv'
  BY <1>10 DEF ToolFails, End, Goto
<1>11. ASSUME NEW r \in Requests, Hangs(r) PROVE ClockInv'
  BY <1>11 DEF Hangs, Goto
<1>12. CASE Restart
  BY <1>12 DEF Restart
<1>13. CASE Tick
  BY <1>13 DEF Tick
<1>14. CASE UNCHANGED vars
  BY <1>14 DEF vars
<1> QED
  BY <1>1, <1>2, <1>3, <1>4, <1>5, <1>6, <1>7, <1>8, <1>9, <1>10, <1>11, <1>12, <1>13, <1>14 DEF Next, Serve

\* An answer is new, or was good when the request came in.
LEMMA CurrentStep == IInv /\ [Next]_vars => ScoresAreCurrent'
<1> SUFFICES ASSUME IInv, [Next]_vars PROVE ScoresAreCurrent'
  OBVIOUS
<1> USE CacheAssumption, TimeAssumption, NoOneAssumption DEF IInv, ScoresAreCurrent, ClockInv, ShownType, CacheType, ClockType, PlaceType, Cached, Scores
<1>1. ASSUME NEW r \in Requests, Request(r) PROVE ScoresAreCurrent'
  BY <1>1 DEF Request, Goto
<1>2. ASSUME NEW r \in Requests, Start(r) PROVE ScoresAreCurrent'
  BY <1>2 DEF Start, Execute, Goto, End
<1>3. ASSUME NEW r \in Requests, Look(r) PROVE ScoresAreCurrent'
  BY <1>3, LookCases DEF Asks, Show, Store, Goto, Nobody
<1>4. ASSUME NEW r \in Requests, LiveAnswered(r) PROVE ScoresAreCurrent'
  BY <1>4 DEF LiveAnswered, Store, Show
<1>5. ASSUME NEW r \in Requests, LiveFails(r) PROVE ScoresAreCurrent'
  BY <1>5, FailsCases DEF Asks, Show, Store, Goto, Nobody
<1>6. ASSUME NEW r \in Requests, LiveRaises(r) PROVE ScoresAreCurrent'
  BY <1>6 DEF LiveRaises, End, Goto
<1>7. ASSUME NEW r \in Requests, ToolAnswers(r) PROVE ScoresAreCurrent'
  BY <1>7 DEF ToolAnswers, End, Goto
<1>8. ASSUME NEW r \in Requests, SearchAgain(r) PROVE ScoresAreCurrent'
  BY <1>8 DEF SearchAgain, Goto
<1>9. ASSUME NEW r \in Requests, ConvertAgain(r) PROVE ScoresAreCurrent'
  BY <1>9 DEF ConvertAgain, Goto
<1>10. ASSUME NEW r \in Requests, ToolFails(r) PROVE ScoresAreCurrent'
  BY <1>10 DEF ToolFails, End, Goto
<1>11. ASSUME NEW r \in Requests, Hangs(r) PROVE ScoresAreCurrent'
  BY <1>11 DEF Hangs, Goto
<1>12. CASE Restart
  BY <1>12 DEF Restart
<1>13. CASE Tick
  BY <1>13 DEF Tick
<1>14. CASE UNCHANGED vars
  BY <1>14 DEF vars
<1> QED
  BY <1>1, <1>2, <1>3, <1>4, <1>5, <1>6, <1>7, <1>8, <1>9, <1>10, <1>11, <1>12, <1>13, <1>14 DEF Next, Serve
-----------------------------------------------------------------------------
\* The invariant holds in every state, whatever the providers do.
THEOREM ToolsInvariant == Spec => []IInv
<1>1. IInv /\ [Next]_vars => IInv'
  BY PlaceStep, ClockStep, CacheStep, ShownStep, LockStep, ClockInvStep, CurrentStep DEF IInv
<1> QED
  BY InitIInv, <1>1, PTL DEF Spec

\* Requests, the lock, the clock and the cache stay in their values.
THEOREM ToolsTypes == Spec => []TypeOK
<1>1. IInv => TypeOK
  BY DEF IInv, PlaceType, ClockType, CacheType, ShownType, TypeOK
<1> QED
  BY <1>1, ToolsInvariant, PTL

\* No answer has scores that were as old as the cache's lifetime when the request
\* came in: what is stored is new, and its age is tested under the lock.
THEOREM ScoresCurrent == Spec => []ScoresAreCurrent
<1>1. IInv => ScoresAreCurrent
  BY DEF IInv
<1> QED
  BY <1>1, ToolsInvariant, PTL

\* A request that begins to ask the providers is the only one that asks, and what
\* was cached before has had its time.
THEOREM ProvidersProtected == Spec => ProtectsProviders
<1> DEFINE AsksAlone ==
      \A r \in Requests : at[r] = "lock" /\ at'[r] \in LiveCalls =>
        /\ Fetching = {}
        /\ cache # NoCache => clock >= cache.value.fetched + CacheSeconds
<1>1. IInv /\ [Next]_vars => [AsksAlone]_vars
  <2> SUFFICES ASSUME IInv, Next, NEW r \in Requests, at[r] = "lock", at'[r] \in LiveCalls
               PROVE  /\ Fetching = {}
                      /\ cache # NoCache => clock >= cache.value.fetched + CacheSeconds
    OBVIOUS
  <2>1. Look(r)
    BY NoOneAssumption DEF IInv, PlaceType, Next, Serve, Request, Start, LiveAnswered, LiveFails,
       LiveRaises, ToolAnswers, SearchAgain, ConvertAgain, ToolFails, Hangs, Restart, Tick,
       Goto, End, Execute, Store, Show, NextCandidate, LiveCalls, ToolCalls, Jobs, Servers, Look
  <2>2. holder = NoOne /\ Fetching = {}
    BY <2>1, LookCases, NoOneAssumption DEF IInv, LockInv, Fetching
  <2>3. ~(cache # NoCache /\ now[r] < cache.expires)
    BY <2>1, LookCases DEF IInv, PlaceType, Store, Show, LiveCalls
  <2> QED
    BY <2>2, <2>3, CacheAssumption, TimeAssumption
    DEF IInv, ClockInv, ClockType, CacheType, Cached, Scores
<1> QED
  BY <1>1, ToolsInvariant, PTL DEF Spec, ProtectsProviders
==============================================================================
