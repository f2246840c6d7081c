------------------------- MODULE KnowledgeSeedProofs -------------------------
(***************************************************************************)
(* What KnowledgeSeed promises, for any file, batch size, number of        *)
(* attempts, number of runs and number of calls at once.                   *)
(*                                                                         *)
(* The script's arguments name a window of rows.  A row of the window is   *)
(* still to come, or pending, or passed.  What was posted is stored        *)
(* already, lost, or under way in a call; a row that is neither passed nor *)
(* again can be in none of these places.  A save that has the .tmp file    *)
(* for itself is the only one there is, and it carries all that is passed. *)
(***************************************************************************)
EXTENDS KnowledgeSeed, TLAPS

\* The rows that this run still has to post.
ToCome == {r \in Rows : r \in pending \/ (next <= r /\ r <= last)}

\* The run's own variables: counters that have started, and a window that is
\* still whole while the run has not read anything and is pending up to where it reads.
RunInv ==
  /\ at # "off" => runs >= 1
  /\ at \in {"post", "await"} => attempt >= 1
  /\ at \in {"probe", "wait"} => next = first /\ pending = {}
  /\ at \in {"read", "post", "await"} => \A r \in pending : r < next

\* Memory is never behind the pickle it is loaded from, nor behind one being written.
MemoryAhead ==
  \A r \in Rows : /\ disk[r] <= memory[r]
                  /\ Saving # {} => tmp.rows[r] <= memory[r]

\* What a call has done so far is done: a restart, which undoes it, ends the call.
CallsInv ==
  \A c \in calls :
    /\ c.at # "dense" => c.rows \subseteq dense
    /\ c.at \in {"open", "dump", "replace"} => \A r \in c.rows : memory[r] > 0

\* A save that is alone is the only one; unless saves overlap, every one is.  The file
\* of one that is alone is in its place, with all that must be stored.
SaveInv ==
  /\ overlap = "no" => \A c \in Saving : c.alone
  /\ \A c \in Saving : c.alone => Saving = {c} /\ c.handle = "tmp" /\ tmp.there
  /\ \A c \in Saving : c.alone /\ c.at = "replace" /\ overlap # "lost" =>
       \A r \in c.rows \cup Passed : tmp.rows[r] > 0

\* A row that is not posted again: it has one entry at most, none as long as a call
\* of it has not appended it, it is in one such call only, and as long as it is to come
\* (or is still to be read while the script waits) it has neither an entry nor a call.
OneRow(r) ==
  /\ memory[r] <= 1
  /\ \A c \in calls : r \in c.rows /\ c.at \in {"dense", "append"} => memory[r] = 0
  /\ \A c, o \in calls : r \in c.rows /\ r \in o.rows => c = o
  /\ at \in {"read", "post"} \/ (at = "await" /\ r \notin pending) =>
       (r \in ToCome => memory[r] = 0 /\ \A c \in calls : r \notin c.rows)
OnceInv == \A r \in Rows \ again : OneRow(r)

IInv ==
  /\ TypeOK /\ RunInv /\ MemoryAhead /\ CallsInv /\ SaveInv
  /\ PassedIsStored /\ OnceInv

-----------------------------------------------------------------------------
\* Nothing is stored or under way at first.
LEMMA InitIInv == Init => IInv
<1> SUFFICES ASSUME Init PROVE IInv
  OBVIOUS
<1>1. TypeOK
  BY RowsAssumption, BatchAssumption, RunsAssumption
  DEF Init, TypeOK, Off, Rows, NoFile, Nothing
<1>2. RunInv /\ MemoryAhead /\ CallsInv /\ SaveInv /\ PassedIsStored
  BY DEF Init, RunInv, MemoryAhead, CallsInv, SaveInv, Saving, PassedIsStored, Passed, Nothing
<1>3. OnceInv
  BY DEF Init, OnceInv, OneRow, Nothing
<1> QED
  BY <1>1, <1>2, <1>3 DEF IInv

-----------------------------------------------------------------------------
\* The conjuncts of TypeOK: the index, the counters, the rows and the calls.
IndexType ==
  /\ dense \subseteq Rows /\ memory \in [Rows -> Nat] /\ disk \in [Rows -> Nat]
  /\ tmp \in [there : BOOLEAN, rows : [Rows -> Nat]]
PlaceType ==
  /\ at \in Off \cup {"probe", "wait", "read", "post", "await"}
  /\ overlap \in {"no", "open", "lost"}
  /\ attempt \in 0 .. MaxAttempts
  /\ runs \in 0 .. MaxRuns
RowsType ==
  /\ blank \subseteq Rows /\ pending \subseteq Rows /\ again \subseteq Rows
  /\ first \in Rows /\ last \in Rows
  /\ next \in 0 .. LastRow + 1
CallsType == calls \subseteq Call

\* Every step keeps the index in its values: it takes rows from calls only.
LEMMA IndexStep == IInv /\ [Next]_vars => IndexType'
<1> SUFFICES ASSUME IInv, [Next]_vars PROVE IndexType'
  OBVIOUS
<1>t. IndexType /\ CallsType
  BY DEF IInv, TypeOK, IndexType, CallsType

<1>1. CASE Start
  BY <1>t, <1>1 DEF Start, Off, index, IndexType
<1>2. CASE Probe
  BY <1>t, <1>2 DEF Probe, index, args, IndexType
<1>3. CASE ProbeFails
  BY <1>t, <1>3 DEF ProbeFails, index, args, IndexType
<1>4. CASE Wait
  BY <1>t, <1>4 DEF Wait, index, args, IndexType
<1>5. CASE Read
  BY <1>t, <1>5 DEF Read, Post, index, args, IndexType
<1>6. CASE Killed
  BY <1>t, <1>6 DEF Killed, Off, index, args, IndexType
<1>7. CASE Send
  BY <1>t, <1>7 DEF Send, index, args, IndexType
<1>8. CASE SendFails
  BY <1>t, <1>8 DEF SendFails, TryAgain, index, args, IndexType
<1>9. CASE TimesOut
  BY <1>t, <1>9 DEF TimesOut, TryAgain, index, args, IndexType
<1>10. CASE Unanswered
  BY <1>t, <1>10 DEF Unanswered, TryAgain, index, args, IndexType
<1>11. ASSUME NEW c \in calls, CallDense(c) PROVE IndexType'
  <2>1. c.rows \subseteq Rows
    BY <1>t, <1>11 DEF CallsType, Call
  <2> QED
    BY <1>t, <2>1, <1>11 DEF IndexType, CallDense
<1>12. ASSUME NEW c \in calls, CallFails(c) PROVE IndexType'
  BY <1>t, <1>12 DEF CallFails, Fails, TryAgain, index, args, IndexType
<1>13. ASSUME NEW c \in calls, CallAppend(c) PROVE IndexType'
  <2>1. memory' \in [Rows -> Nat]
    BY <1>t, <1>13 DEF IndexType, CallAppend
  <2> QED
    BY <1>t, <2>1, <1>13 DEF IndexType, CallAppend
<1>14. ASSUME NEW c \in calls, SaveOpen(c) PROVE IndexType'
  <2>1. tmp' \in [there : BOOLEAN, rows : [Rows -> Nat]]
    BY <1>14 DEF SaveOpen, Nothing
  <2> QED
    BY <1>t, <2>1, <1>14 DEF IndexType, SaveOpen
<1>15. ASSUME NEW c \in calls, SaveDump(c) PROVE IndexType'
  BY <1>t, <1>15 DEF SaveDump, Goto, args, script, IndexType
<1>16. ASSUME NEW c \in calls, SaveReplace(c) PROVE IndexType'
  <2>1. tmp' \in [there : BOOLEAN, rows : [Rows -> Nat]]
    BY <1>16 DEF SaveReplace, NoFile, Nothing
  <2> QED
    BY <1>t, <2>1, <1>16 DEF IndexType, SaveReplace
<1>17. ASSUME NEW c \in calls, SaveFails(c) PROVE IndexType'
  BY <1>t, <1>17 DEF SaveFails, Fails, TryAgain, index, args, IndexType
<1>18. CASE Restart
  BY <1>t, <1>18 DEF Restart, args, script, IndexType
<1>19. CASE UNCHANGED vars
  BY <1>t, <1>19 DEF vars, IndexType
<1> QED
  BY <1>1, <1>2, <1>3, <1>4, <1>5, <1>6, <1>7, <1>8, <1>9, <1>10, <1>11, <1>12, <1>13, <1>14, <1>15, <1>16, <1>17, <1>18, <1>19 DEF Next


\* Every step keeps the script's place and counters in their values.
LEMMA PlaceStep == IInv /\ [Next]_vars => PlaceType'
<1> SUFFICES ASSUME IInv, [Next]_vars PROVE PlaceType'
  OBVIOUS
<1>t. PlaceType
  BY DEF IInv, TypeOK, PlaceType
<1> USE BatchAssumption, RunsAssumption DEF PlaceType, Off

<1>1. CASE Start
  BY <1>t, <1>1 DEF Start, Off, index
<1>2. CASE Probe
  BY <1>t, <1>2 DEF Probe, index, args
<1>3. CASE ProbeFails
  BY <1>t, <1>3 DEF ProbeFails, index, args
<1>4. CASE Wait
  BY <1>t, <1>4 DEF Wait, index, args
<1>5. CASE Read
  BY <1>t, <1>5 DEF Read, Post, index, args
<1>6. CASE Killed
  BY <1>t, <1>6 DEF Killed, Off, index, args
<1>7. CASE Send
  BY <1>t, <1>7 DEF Send, index, args
<1>8. CASE SendFails
  BY <1>t, <1>8 DEF SendFails, TryAgain, index, args
<1>9. CASE TimesOut
  BY <1>t, <1>9 DEF TimesOut, TryAgain, index, args
<1>10. CASE Unanswered
  BY <1>t, <1>10 DEF Unanswered, TryAgain, index, args
<1>11. ASSUME NEW c \in calls, CallDense(c) PROVE PlaceType'
  BY <1>t, <1>11 DEF CallDense, Goto, args, script
<1>12. ASSUME NEW c \in calls, CallFails(c) PROVE PlaceType'
  BY <1>t, <1>12 DEF CallFails, Fails, TryAgain, index, args
<1>13. ASSUME NEW c \in calls, CallAppend(c) PROVE PlaceType'
  BY <1>t, <1>13 DEF CallAppend, Goto, args, script
<1>14. ASSUME NEW c \in calls, SaveOpen(c) PROVE PlaceType'
  BY <1>t, <1>14 DEF SaveOpen, args, script
<1>15. ASSUME NEW c \in calls, SaveDump(c) PROVE PlaceType'
  BY <1>t, <1>15 DEF SaveDump, Goto, args, script
<1>16. ASSUME NEW c \in calls, SaveReplace(c) PROVE PlaceType'
  BY <1>t, <1>16 DEF SaveReplace, Answered, args
<1>17. ASSUME NEW c \in calls, SaveFails(c) PROVE PlaceType'
  BY <1>t, <1>17 DEF SaveFails, Fails, TryAgain, index, args
<1>18. CASE Restart
  BY <1>t, <1>18 DEF Restart, args, script
<1>19. CASE UNCHANGED vars
  BY <1>t, <1>19 DEF vars
<1> QED
  BY <1>1, <1>2, <1>3, <1>4, <1>5, <1>6, <1>7, <1>8, <1>9, <1>10, <1>11, <1>12, <1>13, <1>14, <1>15, <1>16, <1>17, <1>18, <1>19 DEF Next


\* Every step keeps the rows the script knows in the file.
LEMMA RowsStep == IInv /\ [Next]_vars => RowsType'
<1> SUFFICES ASSUME IInv, [Next]_vars PROVE RowsType'
  OBVIOUS
<1>t. RowsType
  BY DEF IInv, TypeOK, RowsType
<1> USE RowsAssumption DEF RowsType

<1>1. CASE Start
  BY <1>t, <1>1 DEF Start, Rows
<1>2. CASE Probe
  BY <1>t, <1>2 DEF Probe, index, args
<1>3. CASE ProbeFails
  BY <1>t, <1>3 DEF ProbeFails, index, args
<1>4. CASE Wait
  <2>1. {r \in first .. last : Posted(r)} \subseteq Rows
    BY <1>t DEF Rows
  <2> QED
    BY <1>t, <1>4, <2>1 DEF Wait, args
<1>5. CASE Read
  <2>1. pending' = pending \/ (next \in Rows /\ pending' = pending \cup ({next} \ blank))
    BY <1>5 DEF Read
  <2>2. pending' \subseteq Rows
    BY <1>t, <2>1
  <2>3. next' \in 0 .. LastRow + 1
    BY <1>t, <1>5 DEF Rows, Read
  <2> QED
    BY <1>t, <1>5, <2>2, <2>3 DEF Read, args
<1>6. CASE Killed
  BY <1>t, <1>6 DEF Killed, Off, index, args
<1>7. CASE Send
  BY <1>t, <1>7 DEF Send, index, args
<1>8. CASE SendFails
  BY <1>t, <1>8 DEF SendFails, TryAgain, index, args
<1>9. CASE TimesOut
  BY <1>t, <1>9 DEF TimesOut, TryAgain, index, args
<1>10. CASE Unanswered
  BY <1>t, <1>10 DEF Unanswered, TryAgain, index, args
<1>11. ASSUME NEW c \in calls, CallDense(c) PROVE RowsType'
  BY <1>t, <1>11 DEF CallDense, Goto, args, script
<1>12. ASSUME NEW c \in calls, CallFails(c) PROVE RowsType'
  BY <1>t, <1>12 DEF CallFails, Fails, TryAgain, index, args
<1>13. ASSUME NEW c \in calls, CallAppend(c) PROVE RowsType'
  BY <1>t, <1>13 DEF CallAppend, Goto, args, script
<1>14. ASSUME NEW c \in calls, SaveOpen(c) PROVE RowsType'
  BY <1>t, <1>14 DEF SaveOpen, args, script
<1>15. ASSUME NEW c \in calls, SaveDump(c) PROVE RowsType'
  BY <1>t, <1>15 DEF SaveDump, Goto, args, script
<1>16. ASSUME NEW c \in calls, SaveReplace(c) PROVE RowsType'
  BY <1>t, <1>16 DEF SaveReplace, Answered, args
<1>17. ASSUME NEW c \in calls, SaveFails(c) PROVE RowsType'
  BY <1>t, <1>17 DEF SaveFails, Fails, TryAgain, index, args
<1>18. CASE Restart
  BY <1>t, <1>18 DEF Restart, args, script
<1>19. CASE UNCHANGED vars
  BY <1>t, <1>19 DEF vars
<1> QED
  BY <1>1, <1>2, <1>3, <1>4, <1>5, <1>6, <1>7, <1>8, <1>9, <1>10, <1>11, <1>12, <1>13, <1>14, <1>15, <1>16, <1>17, <1>18, <1>19 DEF Next


\* Every step keeps the calls calls.
LEMMA CallsStep == IInv /\ [Next]_vars => CallsType'
<1> SUFFICES ASSUME IInv, [Next]_vars PROVE CallsType'
  OBVIOUS
<1>t. CallsType /\ PlaceType /\ RowsType /\ RunInv
  BY DEF IInv, TypeOK, CallsType, PlaceType, RowsType
<1> USE BatchAssumption, RunsAssumption DEF CallsType

<1>1. CASE Start
  BY <1>t, <1>1 DEF Start, Off, index
<1>2. CASE Probe
  BY <1>t, <1>2 DEF Probe, index, args
<1>3. CASE ProbeFails
  BY <1>t, <1>3 DEF ProbeFails, index, args
<1>4. CASE Wait
  BY <1>t, <1>4 DEF Wait, index, args
<1>5. CASE Read
  BY <1>t, <1>5 DEF Read, Post, index, args
<1>6. CASE Killed
  BY <1>t, <1>6 DEF Killed, Off, index, args
<1>7. CASE Send
  <2>1. attempt \in 1 .. MaxAttempts /\ runs \in 1 .. MaxRuns /\ pending \in SUBSET Rows
    BY <1>t, <1>7 DEF Send, PlaceType, RowsType, RunInv
  <2>2. [rows |-> pending, attempt |-> attempt, run |-> runs, at |-> "dense",
         handle |-> "none", alone |-> FALSE] \in Call
    BY <2>1 DEF Call
  <2> QED
    BY <1>t, <1>7, <2>2 DEF Send
<1>8. CASE SendFails
  BY <1>t, <1>8 DEF SendFails, TryAgain, index, args
<1>9. CASE TimesOut
  BY <1>t, <1>9 DEF TimesOut, TryAgain, index, args
<1>10. CASE Unanswered
  BY <1>t, <1>10 DEF Unanswered, TryAgain, index, args
<1>11. ASSUME NEW c \in calls, CallDense(c) PROVE CallsType'
  <2>1. [c EXCEPT !.at = "append"] \in Call
    BY <1>t, <1>11 DEF Call
  <2> QED
    BY <1>t, <2>1, <1>11 DEF CallDense, Goto
<1>12. ASSUME NEW c \in calls, CallFails(c) PROVE CallsType'
  BY <1>t, <1>12 DEF CallFails, Fails, TryAgain, index, args
<1>13. ASSUME NEW c \in calls, CallAppend(c) PROVE CallsType'
  <2>1. [c EXCEPT !.at = "open"] \in Call
    BY <1>t, <1>13 DEF Call
  <2> QED
    BY <1>t, <2>1, <1>13 DEF CallAppend, Goto
<1>14. ASSUME NEW c \in calls, SaveOpen(c) PROVE CallsType'
  <2>1. \A o \in calls : [o EXCEPT !.alone = FALSE] \in Call
    BY <1>t DEF Call
  <2>2. [c EXCEPT !.at = "dump", !.handle = "tmp", !.alone = (Saving = {})] \in Call
    BY <1>t, <1>14 DEF Call
  <2> QED
    BY <2>1, <2>2, <1>14 DEF SaveOpen
<1>15. ASSUME NEW c \in calls, SaveDump(c) PROVE CallsType'
  <2>1. [c EXCEPT !.at = "replace"] \in Call
    BY <1>t, <1>15 DEF Call
  <2> QED
    BY <1>t, <2>1, <1>15 DEF SaveDump, Goto
<1>16. ASSUME NEW c \in calls, SaveReplace(c) PROVE CallsType'
  <2>1. \A o \in calls : Renamed(o) \in Call
    BY <1>t DEF Call, Renamed
  <2> QED
    BY <2>1, <1>16 DEF SaveReplace
<1>17. ASSUME NEW c \in calls, SaveFails(c) PROVE CallsType'
  BY <1>t, <1>17 DEF SaveFails, Fails, TryAgain, index, args
<1>18. CASE Restart
  BY <1>t, <1>18 DEF Restart, args, script
<1>19. CASE UNCHANGED vars
  BY <1>t, <1>19 DEF vars
<1> QED
  BY <1>1, <1>2, <1>3, <1>4, <1>5, <1>6, <1>7, <1>8, <1>9, <1>10, <1>11, <1>12, <1>13, <1>14, <1>15, <1>16, <1>17, <1>18, <1>19 DEF Next


LEMMA TypeStep == IInv /\ [Next]_vars => TypeOK'
<1> SUFFICES ASSUME IInv, [Next]_vars PROVE TypeOK'
  OBVIOUS
<1> QED
  BY IndexStep, PlaceStep, RowsStep, CallsStep
  DEF TypeOK, IndexType, PlaceType, RowsType, CallsType

-----------------------------------------------------------------------------
\* The counters have started whenever they are needed.
LEMMA RunStep == IInv /\ [Next]_vars => RunInv'
<1> SUFFICES ASSUME IInv, [Next]_vars PROVE RunInv'
  OBVIOUS
<1>t. RunInv /\ PlaceType /\ RowsType
  BY DEF IInv, TypeOK, PlaceType, RowsType
<1> USE RowsAssumption, BatchAssumption, RunsAssumption DEF RunInv, Off, PlaceType

<1>1. CASE Start
  BY <1>t, <1>1 DEF Start, Off, index, Awaited
<1>2. CASE Probe
  BY <1>t, <1>2 DEF Probe, index, args, Awaited
<1>3. CASE ProbeFails
  BY <1>t, <1>3 DEF ProbeFails, index, args, Awaited
<1>4. CASE Wait
  BY <1>t, <1>4 DEF Wait, index, args, Awaited
<1>5. CASE Read
  <2>1. CASE next \in Rows /\ next <= last
    <3>1. next' = next + 1 /\ pending' \subseteq pending \cup {next}
      BY <1>5, <2>1 DEF Read
    <3>2. \A r \in pending' : r < next'
      BY <1>t, <1>5, <2>1, <3>1 DEF Read, Rows, RowsType
    <3> QED
      BY <1>t, <1>5, <3>2 DEF Read, Post
  <2>2. CASE ~(next \in Rows /\ next <= last)
    BY <1>t, <1>5, <2>2 DEF Read, Post
  <2> QED
    BY <2>1, <2>2
<1>6. CASE Killed
  BY <1>t, <1>6 DEF Killed, Off, index, args, Awaited
<1>7. CASE Send
  BY <1>t, <1>7 DEF Send, index, args, Awaited
<1>8. CASE SendFails
  BY <1>t, <1>8 DEF SendFails, TryAgain, index, args, Awaited
<1>9. CASE TimesOut
  BY <1>t, <1>9 DEF TimesOut, TryAgain, index, args, Awaited
<1>10. CASE Unanswered
  BY <1>t, <1>10 DEF Unanswered, TryAgain, index, args, Awaited
<1>11. ASSUME NEW c \in calls, CallDense(c) PROVE RunInv'
  BY <1>t, <1>11 DEF CallDense, Goto, args, script, Awaited
<1>12. ASSUME NEW c \in calls, CallFails(c) PROVE RunInv'
  BY <1>t, <1>12 DEF CallFails, Fails, TryAgain, index, args, Awaited
<1>13. ASSUME NEW c \in calls, CallAppend(c) PROVE RunInv'
  BY <1>t, <1>13 DEF CallAppend, Goto, args, script, Awaited
<1>14. ASSUME NEW c \in calls, SaveOpen(c) PROVE RunInv'
  BY <1>t, <1>14 DEF SaveOpen, args, script, Awaited
<1>15. ASSUME NEW c \in calls, SaveDump(c) PROVE RunInv'
  BY <1>t, <1>15 DEF SaveDump, Goto, args, script, Awaited
<1>16. ASSUME NEW c \in calls, SaveReplace(c) PROVE RunInv'
  BY <1>t, <1>16 DEF SaveReplace, Answered, args, Awaited
<1>17. ASSUME NEW c \in calls, SaveFails(c) PROVE RunInv'
  BY <1>t, <1>17 DEF SaveFails, Fails, TryAgain, index, args, Awaited
<1>18. CASE Restart
  BY <1>t, <1>18 DEF Restart, args, script, Awaited
<1>19. CASE UNCHANGED vars
  BY <1>t, <1>19 DEF vars, Awaited
<1> QED
  BY <1>1, <1>2, <1>3, <1>4, <1>5, <1>6, <1>7, <1>8, <1>9, <1>10, <1>11, <1>12, <1>13, <1>14, <1>15, <1>16, <1>17, <1>18, <1>19 DEF Next


-----------------------------------------------------------------------------
\* An edited call is the same call but for what is edited.
LEMMA Edits ==
  ASSUME NEW c \in Call
  PROVE  /\ \A step \in {"append", "open", "replace"} :
              LET n == [c EXCEPT !.at = step]
              IN  /\ n.at = step /\ n.rows = c.rows /\ n.alone = c.alone /\ n.handle = c.handle
         /\ LET n == [c EXCEPT !.alone = FALSE]
            IN  /\ n.at = c.at /\ n.rows = c.rows /\ n.alone = FALSE
         /\ LET n == [c EXCEPT !.at = "dump", !.handle = "tmp", !.alone = (Saving = {})]
            IN  /\ n.at = "dump" /\ n.rows = c.rows /\ n.alone = (Saving = {})
                /\ n.handle = "tmp"
         /\ /\ Renamed(c).at = c.at /\ Renamed(c).rows = c.rows
            /\ Renamed(c).alone = c.alone
BY DEF Call, Renamed

\* Only a save writes the pickle, and it writes what is in memory.
LEMMA MemoryStep == IInv /\ [Next]_vars => MemoryAhead'
<1> SUFFICES ASSUME IInv, [Next]_vars PROVE MemoryAhead'
  OBVIOUS
<1>t. IndexType /\ CallsType /\ MemoryAhead
  BY DEF IInv, TypeOK, IndexType, CallsType
<1> USE DEF IndexType, MemoryAhead, Saving

<1>1. CASE Start
  BY <1>t, <1>1 DEF Start, Off, index
<1>2. CASE Probe
  BY <1>t, <1>2 DEF Probe, index, args
<1>3. CASE ProbeFails
  BY <1>t, <1>3 DEF ProbeFails, index, args
<1>4. CASE Wait
  BY <1>t, <1>4 DEF Wait, index, args
<1>5. CASE Read
  BY <1>t, <1>5 DEF Read, Post, index, args
<1>6. CASE Killed
  BY <1>t, <1>6 DEF Killed, Off, index, args
<1>7. CASE Send
  BY <1>t, <1>7 DEF Send, index, args
<1>8. CASE SendFails
  BY <1>t, <1>8 DEF SendFails, TryAgain, index, args
<1>9. CASE TimesOut
  BY <1>t, <1>9 DEF TimesOut, TryAgain, index, args
<1>10. CASE Unanswered
  BY <1>t, <1>10 DEF Unanswered, TryAgain, index, args
<1>11. ASSUME NEW c \in calls, CallDense(c) PROVE MemoryAhead'
  <2>1. Saving' = Saving
    BY <1>t, <1>11, Edits DEF CallDense, Goto, CallsType
  <2> QED
    BY <1>t, <1>11, <2>1 DEF CallDense
<1>12. ASSUME NEW c \in calls, CallFails(c) PROVE MemoryAhead'
  BY <1>t, <1>12 DEF CallFails, Fails, TryAgain, index, args
<1>13. ASSUME NEW c \in calls, CallAppend(c) PROVE MemoryAhead'
  <2>1. Saving' = Saving
    BY <1>t, <1>13, Edits DEF CallAppend, Goto, CallsType
  <2>2. \A r \in Rows : memory[r] <= memory'[r]
    BY <1>t, <1>13 DEF CallAppend
  <2>3. memory' \in [Rows -> Nat]
    BY <1>t, <1>13 DEF CallAppend
  <2> QED
    BY <1>t, <1>13, <2>1, <2>2, <2>3 DEF CallAppend
<1>14. ASSUME NEW c \in calls, SaveOpen(c) PROVE MemoryAhead'
  <2>1. \A r \in Rows : tmp'.rows[r] = 0
    BY <1>14 DEF SaveOpen, Nothing
  <2>2. disk' = disk /\ memory' = memory
    BY <1>14 DEF SaveOpen
  <2>3. \A r \in Rows : memory[r] \in Nat /\ disk[r] <= memory[r]
    BY <1>t
  <2> QED
    BY <2>1, <2>2, <2>3
<1>15. ASSUME NEW c \in calls, SaveDump(c) PROVE MemoryAhead'
  <2>1. Saving # {}
    BY <1>15 DEF SaveDump
  <2> QED
    BY <1>t, <1>15, <2>1 DEF SaveDump
<1>16. ASSUME NEW c \in calls, SaveReplace(c) PROVE MemoryAhead'
  BY <1>t, <1>16 DEF SaveReplace, NoFile, Nothing
<1>17. ASSUME NEW c \in calls, SaveFails(c) PROVE MemoryAhead'
  BY <1>t, <1>17 DEF SaveFails, Fails, TryAgain, index, args
<1>18. CASE Restart
  BY <1>t, <1>18 DEF Restart, args, script
<1>19. CASE UNCHANGED vars
  BY <1>t, <1>19 DEF vars
<1> QED
  BY <1>1, <1>2, <1>3, <1>4, <1>5, <1>6, <1>7, <1>8, <1>9, <1>10, <1>11, <1>12, <1>13, <1>14, <1>15, <1>16, <1>17, <1>18, <1>19 DEF Next


\* What a call has done so far stays done as long as it goes on.
LEMMA CallsInvStep == IInv /\ [Next]_vars => CallsInv'
<1> SUFFICES ASSUME IInv, [Next]_vars PROVE CallsInv'
  OBVIOUS
<1>t. IndexType /\ CallsType /\ CallsInv
  BY DEF IInv, TypeOK, IndexType, CallsType
<1> USE DEF CallsInv

<1>1. CASE Start
  BY <1>t, <1>1 DEF Start, Off, index
<1>2. CASE Probe
  BY <1>t, <1>2 DEF Probe, index, args
<1>3. CASE ProbeFails
  BY <1>t, <1>3 DEF ProbeFails, index, args
<1>4. CASE Wait
  BY <1>t, <1>4 DEF Wait, index, args
<1>5. CASE Read
  BY <1>t, <1>5 DEF Read, Post, index, args
<1>6. CASE Killed
  BY <1>t, <1>6 DEF Killed, Off, index, args
<1>7. CASE Send
  BY <1>t, <1>7 DEF Send, index, args
<1>8. CASE SendFails
  BY <1>t, <1>8 DEF SendFails, TryAgain, index, args
<1>9. CASE TimesOut
  BY <1>t, <1>9 DEF TimesOut, TryAgain, index, args
<1>10. CASE Unanswered
  BY <1>t, <1>10 DEF Unanswered, TryAgain, index, args
<1>11. ASSUME NEW c \in calls, CallDense(c) PROVE CallsInv'
  <2> SUFFICES ASSUME NEW n \in calls'
               PROVE  /\ n.at # "dense" => n.rows \subseteq dense'
                      /\ n.at \in {"open", "dump", "replace"} => \A r \in n.rows : memory'[r] > 0
    OBVIOUS
  <2>1. CASE n \in calls
    BY <1>t, <1>11, <2>1 DEF CallDense
  <2>2. CASE n = [c EXCEPT !.at = "append"]
    <3>1. n.at = "append" /\ n.rows = c.rows
      BY <1>t, <2>2, Edits DEF CallsType
    <3> QED
      BY <1>11, <3>1 DEF CallDense
  <2> QED
    BY <1>11, <2>1, <2>2 DEF CallDense, Goto
<1>12. ASSUME NEW c \in calls, CallFails(c) PROVE CallsInv'
  BY <1>t, <1>12 DEF CallFails, Fails, TryAgain, index, args
<1>13. ASSUME NEW c \in calls, CallAppend(c) PROVE CallsInv'
  <2>1. \A r \in Rows : memory'[r] >= memory[r] /\ (r \in c.rows => memory'[r] > 0)
    BY <1>t, <1>13 DEF CallAppend, IndexType
  <2> SUFFICES ASSUME NEW n \in calls'
               PROVE  /\ n.at # "dense" => n.rows \subseteq dense'
                      /\ n.at \in {"open", "dump", "replace"} => \A r \in n.rows : memory'[r] > 0
    OBVIOUS
  <2>2. CASE n \in calls
    <3>1. n.rows \subseteq Rows
      BY <1>t, <2>2 DEF CallsType, Call
    <3> QED
      BY <1>t, <1>13, <2>1, <2>2, <3>1 DEF CallAppend, IndexType
  <2>3. CASE n = [c EXCEPT !.at = "open"]
    <3>1. n.rows = c.rows /\ c.rows \subseteq Rows /\ c.rows \subseteq dense
      BY <1>t, <1>13, <2>3, Edits DEF CallsType, Call, CallAppend
    <3> QED
      BY <1>13, <2>1, <3>1 DEF CallAppend
  <2> QED
    BY <1>13, <2>2, <2>3 DEF CallAppend, Goto
<1>14. ASSUME NEW c \in calls, SaveOpen(c) PROVE CallsInv'
  <2> SUFFICES ASSUME NEW n \in calls'
               PROVE  /\ n.at # "dense" => n.rows \subseteq dense'
                      /\ n.at \in {"open", "dump", "replace"} => \A r \in n.rows : memory'[r] > 0
    OBVIOUS
  <2>1. \E o \in calls : n.rows = o.rows /\ (n.at = o.at \/ o = c)
    <3>1. CASE n = [c EXCEPT !.at = "dump", !.handle = "tmp", !.alone = (Saving = {})]
      BY <1>t, <1>14, <3>1, Edits DEF CallsType
    <3>2. ASSUME NEW o \in calls, n = [o EXCEPT !.alone = FALSE]
          PROVE  n.rows = o.rows /\ n.at = o.at
      BY <1>t, <3>2, Edits DEF CallsType
    <3> QED
      BY <1>14, <3>1, <3>2 DEF SaveOpen
  <2>2. PICK o \in calls : n.rows = o.rows /\ (n.at = o.at \/ o = c)
    BY <2>1
  <2> QED
    BY <1>t, <1>14, <2>2 DEF SaveOpen
<1>15. ASSUME NEW c \in calls, SaveDump(c) PROVE CallsInv'
  <2> SUFFICES ASSUME NEW n \in calls'
               PROVE  /\ n.at # "dense" => n.rows \subseteq dense'
                      /\ n.at \in {"open", "dump", "replace"} => \A r \in n.rows : memory'[r] > 0
    OBVIOUS
  <2>1. CASE n \in calls
    BY <1>t, <1>15, <2>1 DEF SaveDump
  <2>2. CASE n = [c EXCEPT !.at = "replace"]
    <3>1. n.rows = c.rows
      BY <1>t, <2>2, Edits DEF CallsType
    <3> QED
      BY <1>t, <1>15, <3>1 DEF SaveDump
  <2> QED
    BY <1>15, <2>1, <2>2 DEF SaveDump, Goto
<1>16. ASSUME NEW c \in calls, SaveReplace(c) PROVE CallsInv'
  <2> SUFFICES ASSUME NEW n \in calls'
               PROVE  /\ n.at # "dense" => n.rows \subseteq dense'
                      /\ n.at \in {"open", "dump", "replace"} => \A r \in n.rows : memory'[r] > 0
    OBVIOUS
  <2>1. PICK o \in calls : n.rows = o.rows /\ n.at = o.at
    BY <1>t, <1>16, Edits DEF SaveReplace, CallsType
  <2> QED
    BY <1>t, <1>16, <2>1 DEF SaveReplace
<1>17. ASSUME NEW c \in calls, SaveFails(c) PROVE CallsInv'
  BY <1>t, <1>17 DEF SaveFails, Fails, TryAgain, index, args
<1>18. CASE Restart
  BY <1>t, <1>18 DEF Restart, args, script
<1>19. CASE UNCHANGED vars
  BY <1>t, <1>19 DEF vars
<1> QED
  BY <1>1, <1>2, <1>3, <1>4, <1>5, <1>6, <1>7, <1>8, <1>9, <1>10, <1>11, <1>12, <1>13, <1>14, <1>15, <1>16, <1>17, <1>18, <1>19 DEF Next


\* Rows are passed when the answer to their post comes, and in no other step.
LEMMA PassedKept ==
  IInv /\ [Next]_vars =>
    \/ Passed' \subseteq Passed
    \/ \E c \in calls : /\ SaveReplace(c) /\ Awaited(c)
                        /\ Passed' \subseteq Passed \cup c.rows
<1> SUFFICES ASSUME IInv, [Next]_vars
             PROVE  \/ Passed' \subseteq Passed
                    \/ \E c \in calls : /\ SaveReplace(c) /\ Awaited(c)
                                        /\ Passed' \subseteq Passed \cup c.rows
  OBVIOUS
<1>t. RunInv /\ RowsType
  BY DEF IInv, TypeOK, RowsType
<1> USE DEF Passed

<1>1. CASE Start
  BY <1>1 DEF Start, Off, index, Awaited
<1>2. CASE Probe
  BY <1>2 DEF Probe, index, args, Awaited
<1>3. CASE ProbeFails
  BY <1>3 DEF ProbeFails, index, args, Awaited
<1>4. CASE Wait
  BY <1>t, <1>4 DEF Wait, args, RunInv, RowsType, Rows
<1>5. CASE Read
  <2>1. CASE next \in Rows /\ next <= last
    <3>1. next' = next + 1 /\ pending' = pending \cup ({next} \ blank)
      BY <1>5, <2>1 DEF Read
    <3>2. first' = first /\ blank' = blank
      BY <1>5 DEF Read, args
    <3>3. (first' .. (next' - 1)) \ (blank' \cup pending') \subseteq
            (first .. (next - 1)) \ (blank \cup pending)
      BY <1>t, <3>1, <3>2 DEF RowsType, Rows
    <3> QED
      BY <1>5, <3>3 DEF Read
  <2>2. CASE ~(next \in Rows /\ next <= last)
    BY <1>5, <2>2 DEF Read, args
  <2> QED
    BY <2>1, <2>2
<1>6. CASE Killed
  BY <1>6 DEF Killed, Off, index, args, Awaited
<1>7. CASE Send
  BY <1>7 DEF Send, index, args, Awaited
<1>8. CASE SendFails
  BY <1>8 DEF SendFails, TryAgain, index, args, Awaited
<1>9. CASE TimesOut
  BY <1>9 DEF TimesOut, TryAgain, index, args, Awaited
<1>10. CASE Unanswered
  BY <1>10 DEF Unanswered, TryAgain, index, args, Awaited
<1>11. ASSUME NEW c \in calls, CallDense(c) PROVE Passed' \subseteq Passed
  BY <1>11 DEF CallDense, Goto, args, script, Awaited
<1>12. ASSUME NEW c \in calls, CallFails(c) PROVE Passed' \subseteq Passed
  BY <1>12 DEF CallFails, Fails, TryAgain, index, args, Awaited
<1>13. ASSUME NEW c \in calls, CallAppend(c) PROVE Passed' \subseteq Passed
  BY <1>13 DEF CallAppend, Goto, args, script, Awaited
<1>14. ASSUME NEW c \in calls, SaveOpen(c) PROVE Passed' \subseteq Passed
  BY <1>14 DEF SaveOpen, args, script, Awaited
<1>15. ASSUME NEW c \in calls, SaveDump(c) PROVE Passed' \subseteq Passed
  BY <1>15 DEF SaveDump, Goto, args, script, Awaited
<1>16. ASSUME NEW c \in calls, SaveReplace(c)
       PROVE  Passed' \subseteq Passed \/ (Awaited(c) /\ Passed' \subseteq Passed \cup c.rows)
  <2>1. CASE Awaited(c)
    <3>1. Passed' \subseteq Passed \cup c.rows
      BY <1>16, <2>1 DEF SaveReplace, Awaited, Answered, args
    <3> QED
      BY <1>16, <2>1, <3>1
  <2>2. CASE ~Awaited(c)
    BY <1>16, <2>2 DEF SaveReplace, args
  <2> QED
    BY <2>1, <2>2
<1>17. ASSUME NEW c \in calls, SaveFails(c) PROVE Passed' \subseteq Passed
  BY <1>17 DEF SaveFails, Fails, TryAgain, index, args, Awaited
<1>18. CASE Restart
  BY <1>18 DEF Restart, args, script, Awaited
<1>19. CASE UNCHANGED vars
  BY <1>19 DEF vars, Awaited
<1> QED
  BY <1>1, <1>2, <1>3, <1>4, <1>5, <1>6, <1>7, <1>8, <1>9, <1>10, <1>11, <1>12, <1>13, <1>14, <1>15, <1>16, <1>17, <1>18, <1>19 DEF Next


\* A save that begins while another one runs takes its .tmp file, so neither is alone.
LEMMA SaveStep == IInv /\ [Next]_vars => SaveInv'
<1> SUFFICES ASSUME IInv, [Next]_vars PROVE SaveInv'
  OBVIOUS
<1>t. IndexType /\ CallsType /\ CallsInv /\ SaveInv /\ PassedIsStored
  BY DEF IInv, TypeOK, IndexType, CallsType
<1>p. tmp'.there \/ ~tmp.there => Passed' \subseteq Passed
  BY PassedKept DEF SaveReplace, NoFile
<1>q. Saving' \subseteq Saving /\ UNCHANGED <<tmp, overlap>> => SaveInv'
  BY <1>t, <1>p DEF SaveInv
<1>r. \A c \in Saving : ~c.alone => \A o \in Saving : ~o.alone
  BY <1>t DEF SaveInv

<1>1. CASE Start
  <2>1. Saving' \subseteq Saving
    BY <1>1 DEF Saving, Start, Off, index
  <2> QED
    BY <1>q, <1>1, <2>1 DEF Start, Off, index
<1>2. CASE Probe
  <2>1. Saving' \subseteq Saving
    BY <1>2 DEF Saving, Probe, index, args
  <2> QED
    BY <1>q, <1>2, <2>1 DEF Probe, index, args
<1>3. CASE ProbeFails
  <2>1. Saving' \subseteq Saving
    BY <1>3 DEF Saving, ProbeFails, index, args
  <2> QED
    BY <1>q, <1>3, <2>1 DEF ProbeFails, index, args
<1>4. CASE Wait
  <2>1. Saving' \subseteq Saving
    BY <1>4 DEF Saving, Wait, index, args
  <2> QED
    BY <1>q, <1>4, <2>1 DEF Wait, index, args
<1>5. CASE Read
  <2>1. Saving' \subseteq Saving
    BY <1>5 DEF Saving, Read, Post, index, args
  <2> QED
    BY <1>q, <1>5, <2>1 DEF Read, Post, index, args
<1>6. CASE Killed
  <2>1. Saving' \subseteq Saving
    BY <1>6 DEF Saving, Killed, Off, index, args
  <2> QED
    BY <1>q, <1>6, <2>1 DEF Killed, Off, index, args
<1>7. CASE Send
  <2>1. Saving' \subseteq Saving
    BY <1>7 DEF Saving, Send, index, args
  <2> QED
    BY <1>q, <1>7, <2>1 DEF Send, index, args
<1>8. CASE SendFails
  <2>1. Saving' \subseteq Saving
    BY <1>8 DEF Saving, SendFails, TryAgain, index, args
  <2> QED
    BY <1>q, <1>8, <2>1 DEF SendFails, TryAgain, index, args
<1>9. CASE TimesOut
  <2>1. Saving' \subseteq Saving
    BY <1>9 DEF Saving, TimesOut, TryAgain, index, args
  <2> QED
    BY <1>q, <1>9, <2>1 DEF TimesOut, TryAgain, index, args
<1>10. CASE Unanswered
  <2>1. Saving' \subseteq Saving
    BY <1>10 DEF Saving, Unanswered, TryAgain, index, args
  <2> QED
    BY <1>q, <1>10, <2>1 DEF Unanswered, TryAgain, index, args
<1>11. ASSUME NEW c \in calls, CallDense(c) PROVE SaveInv'
  <2>1. Saving' \subseteq Saving
    BY <1>t, <1>11, Edits DEF CallsType, Saving, CallDense, Goto
  <2> QED
    BY <1>q, <1>11, <2>1 DEF CallDense
<1>12. ASSUME NEW c \in calls, CallFails(c) PROVE SaveInv'
  <2>1. Saving' \subseteq Saving
    BY <1>12 DEF Saving, CallFails, Fails, TryAgain, index, args
  <2> QED
    BY <1>q, <1>12, <2>1 DEF CallFails, Fails, TryAgain, index, args
<1>13. ASSUME NEW c \in calls, CallAppend(c) PROVE SaveInv'
  <2>1. Saving' \subseteq Saving
    BY <1>t, <1>13, Edits DEF CallsType, Saving, CallAppend, Goto
  <2> QED
    BY <1>q, <1>13, <2>1 DEF CallAppend
<1>14. ASSUME NEW c \in calls, SaveOpen(c) PROVE SaveInv'
  <2> DEFINE mine == [c EXCEPT !.at = "dump", !.handle = "tmp", !.alone = (Saving = {})]
  <2>1. /\ mine.at = "dump" /\ mine.alone = (Saving = {}) /\ mine.handle = "tmp"
    BY <1>t, Edits DEF CallsType
  <2>2. ASSUME NEW n \in Saving', n # mine
        PROVE  ~n.alone /\ Saving # {}
    <3>1. PICK o \in calls \ {c} : n = [o EXCEPT !.alone = FALSE]
      BY <1>14, <2>2 DEF SaveOpen, Saving
    <3>2. n.at = o.at /\ n.alone = FALSE
      BY <1>t, <3>1, Edits DEF CallsType
    <3>3. o \in Saving
      BY <2>2, <3>2 DEF Saving
    <3> QED
      BY <3>2, <3>3
  <2>3. mine \in Saving'
    BY <1>14, <2>1 DEF SaveOpen, Saving
  <2>4. tmp'.there
    BY <1>14 DEF SaveOpen
  <2>5. CASE Saving = {}
    <3>1. Saving' = {mine}
      BY <2>2, <2>3, <2>5
    <3> QED
      BY <2>1, <2>4, <2>5, <3>1 DEF SaveInv
  <2>6. CASE Saving # {}
    <3>1. overlap' # "no"
      BY <1>14, <2>6 DEF SaveOpen
    <3>2. \A n \in Saving' : ~n.alone
      BY <2>1, <2>2, <2>6
    <3> QED
      BY <3>1, <3>2 DEF SaveInv
  <2> QED
    BY <2>5, <2>6
<1>15. ASSUME NEW c \in calls, SaveDump(c) PROVE SaveInv'
  <2> DEFINE mine == [c EXCEPT !.at = "replace"]
  <2>1. mine.at = "replace" /\ mine.rows = c.rows /\ mine.alone = c.alone /\ mine.handle = c.handle
    BY <1>t, Edits DEF CallsType
  <2>2. Saving' \subseteq (Saving \ {c}) \cup {mine}
    BY <1>15 DEF SaveDump, Goto, Saving
  <2>3. c \in Saving
    BY <1>15 DEF SaveDump, Saving
  <2>4. CASE c.alone
    <3>1. Saving = {c} /\ c.handle = "tmp" /\ tmp.there
      BY <1>t, <2>3, <2>4 DEF SaveInv
    <3>2. Saving' \subseteq {mine}
      BY <2>2, <3>1
    <3>3. tmp'.there /\ tmp'.rows = memory
      BY <1>t, <1>15, <3>1 DEF SaveDump, IndexType
    <3>4. Passed' \subseteq Passed
      BY <1>p, <3>3
    <3>5. \A r \in c.rows : memory[r] > 0
      BY <1>t, <1>15 DEF CallsInv, SaveDump
    <3>6. overlap' = overlap
      BY <1>15 DEF SaveDump
    <3>7. overlap # "lost" => \A r \in c.rows \cup Passed' : memory[r] > 0
      BY <1>t, <3>4, <3>5 DEF PassedIsStored
    <3> QED
      BY <2>1, <2>4, <3>1, <3>2, <3>3, <3>6, <3>7 DEF SaveInv
  <2>5. CASE ~c.alone
    <3>1. \A n \in Saving' : ~n.alone
      BY <1>r, <2>1, <2>2, <2>3, <2>5
    <3>2. overlap' # "no"
      BY <1>t, <1>15, <2>3, <2>5 DEF SaveInv, SaveDump
    <3> QED
      BY <3>1, <3>2 DEF SaveInv
  <2> QED
    BY <2>4, <2>5
<1>16. ASSUME NEW c \in calls, SaveReplace(c) PROVE SaveInv'
  <2>1. c \in Saving
    BY <1>16 DEF SaveReplace, Saving
  <2>2. ASSUME NEW n \in Saving' PROVE \E o \in Saving \ {c} : n.alone = o.alone
    <3>1. PICK o \in calls \ {c} : n = Renamed(o)
      BY <1>16 DEF SaveReplace, Saving
    <3>2. n.at = o.at /\ n.alone = o.alone
      BY <1>t, <3>1, Edits DEF CallsType
    <3> QED
      BY <3>1, <3>2 DEF Saving
  <2>3. CASE c.alone
    <3>1. Saving' = {}
      BY <1>t, <2>1, <2>2, <2>3 DEF SaveInv
    <3> QED
      BY <3>1 DEF SaveInv
  <2>4. CASE ~c.alone
    <3>1. \A n \in Saving' : ~n.alone
      BY <1>r, <2>1, <2>2, <2>4
    <3>2. overlap' # "no"
      BY <1>t, <1>16, <2>1, <2>4 DEF SaveInv, SaveReplace
    <3> QED
      BY <3>1, <3>2 DEF SaveInv
  <2> QED
    BY <2>3, <2>4
<1>17. ASSUME NEW c \in calls, SaveFails(c) PROVE SaveInv'
  <2>1. Saving' \subseteq Saving
    BY <1>17 DEF Saving, SaveFails, Fails, TryAgain, index, args
  <2> QED
    BY <1>q, <1>17, <2>1 DEF SaveFails, Fails, TryAgain, index, args
<1>18. CASE Restart
  <2>1. Saving' = {}
    BY <1>18 DEF Saving, Restart
  <2> QED
    BY <2>1 DEF SaveInv
<1>19. CASE UNCHANGED vars
  <2>1. Saving' \subseteq Saving
    BY <1>19 DEF Saving, vars
  <2> QED
    BY <1>q, <1>19, <2>1 DEF vars
<1> QED
  BY <1>1, <1>2, <1>3, <1>4, <1>5, <1>6, <1>7, <1>8, <1>9, <1>10, <1>11, <1>12, <1>13, <1>14, <1>15, <1>16, <1>17, <1>18, <1>19 DEF Next


\* What is passed was stored by the save that answered, and stays stored.
LEMMA PassedStep == IInv /\ [Next]_vars => PassedIsStored'
<1> SUFFICES ASSUME IInv, [Next]_vars PROVE PassedIsStored'
  OBVIOUS
<1>t. IndexType /\ RowsType /\ CallsType /\ MemoryAhead /\ CallsInv /\ SaveInv /\ PassedIsStored
  BY DEF IInv, TypeOK, IndexType, RowsType, CallsType
<1>p. tmp'.there \/ ~tmp.there => Passed' \subseteq Passed
  BY PassedKept DEF SaveReplace, NoFile
<1>w. Passed \subseteq Rows
  <2>1. first \in 0 .. LastRow /\ next \in 0 .. LastRow + 1
    BY <1>t DEF RowsType, Rows
  <2>2. first .. (next - 1) \subseteq 0 .. LastRow
    BY <2>1, RowsAssumption
  <2> QED
    BY <2>2 DEF Passed, Rows
<1>q. UNCHANGED <<index, overlap>> => PassedIsStored'
  BY <1>t, <1>p DEF PassedIsStored, index

<1>1. CASE Start
  BY <1>q, <1>1 DEF Start, Off, index
<1>2. CASE Probe
  BY <1>q, <1>2 DEF Probe, args, index
<1>3. CASE ProbeFails
  BY <1>q, <1>3 DEF ProbeFails, args, index
<1>4. CASE Wait
  BY <1>q, <1>4 DEF Wait, args, index
<1>5. CASE Read
  BY <1>q, <1>5 DEF Read, Post, args, index
<1>6. CASE Killed
  BY <1>q, <1>6 DEF Killed, Off, args, index
<1>7. CASE Send
  BY <1>q, <1>7 DEF Send, args, index
<1>8. CASE SendFails
  BY <1>q, <1>8 DEF SendFails, TryAgain, args, index
<1>9. CASE TimesOut
  BY <1>q, <1>9 DEF TimesOut, TryAgain, args, index
<1>10. CASE Unanswered
  BY <1>q, <1>10 DEF Unanswered, TryAgain, args, index
<1>11. ASSUME NEW c \in calls, CallDense(c) PROVE PassedIsStored'
  BY <1>t, <1>p, <1>11 DEF CallDense, PassedIsStored
<1>12. ASSUME NEW c \in calls, CallFails(c) PROVE PassedIsStored'
  BY <1>q, <1>12 DEF CallFails, Fails, TryAgain, args, index
<1>13. ASSUME NEW c \in calls, CallAppend(c) PROVE PassedIsStored'
  <2>1. \A r \in Rows : memory[r] <= memory'[r]
    BY <1>t, <1>13 DEF CallAppend, IndexType
  <2>2. \A r \in Rows : memory[r] > 0 => memory'[r] > 0
    BY <1>t, <1>13 DEF CallAppend, IndexType
  <2> QED
    BY <1>t, <1>p, <1>w, <1>13, <2>2 DEF CallAppend, PassedIsStored
<1>14. ASSUME NEW c \in calls, SaveOpen(c) PROVE PassedIsStored'
  BY <1>t, <1>p, <1>14 DEF SaveOpen, PassedIsStored
<1>15. ASSUME NEW c \in calls, SaveDump(c) PROVE PassedIsStored'
  <2>1. tmp'.there = tmp.there
    BY <1>t, <1>15 DEF SaveDump, IndexType
  <2>2. overlap = "no" => disk' = disk
    <3>1. c \in Saving
      BY <1>15 DEF SaveDump, Saving
    <3>2. overlap = "no" => c.handle = "tmp"
      BY <1>t, <3>1 DEF SaveInv
    <3> QED
      BY <1>15, <3>2 DEF SaveDump
  <2> QED
    BY <1>t, <1>p, <1>15, <2>1, <2>2 DEF SaveDump, PassedIsStored
<1>16. ASSUME NEW c \in calls, SaveReplace(c) PROVE PassedIsStored'
  <2>1. Passed' \subseteq Passed \cup c.rows
    <3>1. CASE Awaited(c)
      BY <1>16, <3>1 DEF SaveReplace, Awaited, Answered, args, Passed
    <3>2. CASE ~Awaited(c)
      BY <1>16, <3>2 DEF SaveReplace, args, Passed
    <3> QED
      BY <3>1, <3>2
  <2>2. c.rows \subseteq dense /\ \A r \in c.rows : memory[r] > 0
    BY <1>t, <1>16 DEF SaveReplace, CallsInv
  <2>3. overlap' # "lost" => overlap # "lost"
    BY <1>16 DEF SaveReplace
  <2>4. overlap' = "no" => c.alone /\ overlap # "lost"
    BY <1>t, <1>16 DEF SaveReplace, SaveInv, Saving
  <2>5. overlap' = "no" => \A r \in Passed' : tmp.rows[r] > 0
    BY <1>t, <1>16, <2>1, <2>4 DEF SaveInv, SaveReplace, Saving
  <2> QED
    BY <1>t, <1>16, <2>1, <2>2, <2>3, <2>5 DEF SaveReplace, PassedIsStored
<1>17. ASSUME NEW c \in calls, SaveFails(c) PROVE PassedIsStored'
  BY <1>q, <1>17 DEF SaveFails, Fails, TryAgain, args, index
<1>18. CASE Restart
  <2>1. overlap' # "lost" => overlap = "no"
    BY <1>t, <1>18 DEF Restart, IInv, TypeOK
  <2> QED
    BY <1>t, <1>p, <1>18, <2>1 DEF Restart, PassedIsStored
<1>19. CASE UNCHANGED vars
  BY <1>q, <1>19 DEF vars, index
<1> QED
  BY <1>1, <1>2, <1>3, <1>4, <1>5, <1>6, <1>7, <1>8, <1>9, <1>10, <1>11, <1>12, <1>13, <1>14, <1>15, <1>16, <1>17, <1>18, <1>19 DEF Next


\* A row gets its one entry from its one call.
LEMMA OnceStep == IInv /\ [Next]_vars => OnceInv'
<1> SUFFICES ASSUME IInv, [Next]_vars PROVE OnceInv'
  OBVIOUS
<1>t. IndexType /\ RowsType /\ CallsType /\ RunInv /\ MemoryAhead /\ OnceInv
  BY DEF IInv, TypeOK, IndexType, RowsType, CallsType
<1>q. /\ UNCHANGED memory /\ calls' \subseteq calls /\ ToCome' \subseteq ToCome /\ again \subseteq again'
      /\ at' \in {"read", "post", "await"} => at' = at /\ pending' = pending
      => OnceInv'
  BY <1>t DEF OnceInv, OneRow
<1> USE DEF OneRow

<1>1. CASE Start
  BY <1>t, <1>1 DEF Start, Off, index, OnceInv
<1>2. CASE Probe
  <2>1. ToCome' \subseteq ToCome
    BY <1>2 DEF Probe, index, args, ToCome
  <2> QED
    BY <1>q, <1>2, <2>1 DEF Probe, index, args
<1>3. CASE ProbeFails
  <2>1. ToCome' \subseteq ToCome
    BY <1>3 DEF ProbeFails, index, args, ToCome
  <2> QED
    BY <1>q, <1>3, <2>1 DEF ProbeFails, index, args
<1>4. CASE Wait
  <2> SUFFICES ASSUME NEW r \in Rows \ again' PROVE OneRow(r)'
    BY DEF OnceInv
  <2>1. r \notin again /\ UNCHANGED <<memory, calls, next, last, first, pending>>
    BY <1>4 DEF Wait, index, args
  <2>2. r \in first .. last => ~Posted(r)
    BY <1>4 DEF Wait
  <2>3. r \in ToCome' => r \in first .. last
    BY <1>t, <1>4, <2>1 DEF ToCome, RunInv, Rows, Wait, RowsType
  <2>4. r \in ToCome' => memory[r] = 0 /\ \A c \in calls : r \notin c.rows
    BY <1>t, <2>2, <2>3 DEF Posted, IndexType
  <2> QED
    BY <1>t, <1>4, <2>1, <2>4 DEF OnceInv
<1>5. CASE Read
  <2>1. ToCome' \subseteq ToCome
    <3>1. CASE next \in Rows /\ next <= last
      <4>1. next' = next + 1 /\ pending' \subseteq pending \cup {next} /\ last' = last
        BY <1>5, <3>1 DEF Read, args
      <4> QED
        BY <1>t, <3>1, <4>1 DEF ToCome, Rows, RowsType
    <3>2. CASE ~(next \in Rows /\ next <= last)
      BY <1>5, <3>2 DEF Read, args, ToCome
    <3> QED
      BY <3>1, <3>2
  <2>2. at = "read" /\ at' \in {"read", "post", "finished"} /\ UNCHANGED <<memory, calls, again>>
    BY <1>5 DEF Read, index, Post
  <2> QED
    BY <1>t, <2>1, <2>2 DEF OnceInv
<1>6. CASE Killed
  <2>1. ToCome' \subseteq ToCome
    BY <1>6 DEF Killed, Off, index, args, ToCome
  <2> QED
    BY <1>q, <1>6, <2>1 DEF Killed, Off, index, args
<1>7. CASE Send
  <2> SUFFICES ASSUME NEW r \in Rows \ again' PROVE OneRow(r)'
    BY DEF OnceInv
  <2> DEFINE sent == [rows |-> pending, attempt |-> attempt, run |-> runs, at |-> "dense",
                      handle |-> "none", alone |-> FALSE]
  <2>1. /\ at = "post" /\ at' = "await" /\ calls' = calls \cup {sent}
        /\ UNCHANGED <<memory, next, last, pending, again>>
    BY <1>7 DEF Send, index, args
  <2>2. ToCome' = ToCome /\ pending \subseteq ToCome
    BY <1>t, <2>1 DEF ToCome, RowsType
  <2>3. r \in pending => memory[r] = 0 /\ \A c \in calls : r \notin c.rows
    BY <1>t, <2>1, <2>2 DEF OnceInv
  <2>4. sent.rows = pending
    OBVIOUS
  <2>5. OneRow(r)
    BY <1>t, <2>1 DEF OnceInv
  <2>6. memory'[r] <= 1 /\ \A c \in calls' : r \in c.rows /\ c.at \in {"dense", "append"} => memory'[r] = 0
    BY <2>1, <2>3, <2>4, <2>5
  <2>7. \A c, o \in calls' : r \in c.rows /\ r \in o.rows => c = o
    BY <2>1, <2>3, <2>4, <2>5
  <2>8. r \notin pending /\ r \in ToCome => memory[r] = 0 /\ \A c \in calls' : r \notin c.rows
    BY <2>1, <2>4, <2>5
  <2> QED
    BY <2>1, <2>2, <2>6, <2>7, <2>8
<1>8. CASE SendFails
  <2> SUFFICES ASSUME NEW r \in Rows \ again' PROVE OneRow(r)'
    BY DEF OnceInv
  <2>1. /\ calls' \subseteq calls /\ again \subseteq again'
        /\ UNCHANGED <<memory, next, last, pending>>
    BY <1>8 DEF SendFails, index, args, TryAgain
  <2>2. ToCome' = ToCome
    BY <1>8, <2>1 DEF ToCome, SendFails, index, args
  <2>3. at' = at \/ (at \in {"post", "await"} /\ at' = "failed")
          \/ (at \in {"post", "await"} /\ at' = "post" /\ pending \subseteq again')
    BY <1>8 DEF SendFails, index, args, TryAgain, Awaited
  <2> QED
    BY <1>t, <2>1, <2>2, <2>3 DEF OnceInv
<1>9. CASE TimesOut
  <2> SUFFICES ASSUME NEW r \in Rows \ again' PROVE OneRow(r)'
    BY DEF OnceInv
  <2>1. /\ calls' \subseteq calls /\ again \subseteq again'
        /\ UNCHANGED <<memory, next, last, pending>>
    BY <1>9 DEF TimesOut, index, args, TryAgain
  <2>2. ToCome' = ToCome
    BY <1>9, <2>1 DEF ToCome, TimesOut, index, args
  <2>3. at' = at \/ (at \in {"post", "await"} /\ at' = "failed")
          \/ (at \in {"post", "await"} /\ at' = "post" /\ pending \subseteq again')
    BY <1>9 DEF TimesOut, index, args, TryAgain, Awaited
  <2> QED
    BY <1>t, <2>1, <2>2, <2>3 DEF OnceInv
<1>10. CASE Unanswered
  <2> SUFFICES ASSUME NEW r \in Rows \ again' PROVE OneRow(r)'
    BY DEF OnceInv
  <2>1. /\ calls' \subseteq calls /\ again \subseteq again'
        /\ UNCHANGED <<memory, next, last, pending>>
    BY <1>10 DEF Unanswered, index, args, TryAgain
  <2>2. ToCome' = ToCome
    BY <1>10, <2>1 DEF ToCome, Unanswered, index, args
  <2>3. at' = at \/ (at \in {"post", "await"} /\ at' = "failed")
          \/ (at \in {"post", "await"} /\ at' = "post" /\ pending \subseteq again')
    BY <1>10 DEF Unanswered, index, args, TryAgain, Awaited
  <2> QED
    BY <1>t, <2>1, <2>2, <2>3 DEF OnceInv
<1>11. ASSUME NEW c \in calls, CallDense(c) PROVE OnceInv'
  <2> SUFFICES ASSUME NEW r \in Rows \ again' PROVE OneRow(r)'
    BY DEF OnceInv
  <2> DEFINE mine == [c EXCEPT !.at = "append"]
  <2>1. mine.rows = c.rows /\ mine.at = "append"
    BY <1>t, Edits DEF CallsType
  <2>2. calls' = (calls \ {c}) \cup {mine} /\ UNCHANGED <<at, next, last, pending, again>>
    BY <1>11 DEF CallDense, Goto, args, script
  <2>3. UNCHANGED memory /\ c.at = "dense" /\ ToCome' = ToCome
    BY <1>11, <2>2 DEF CallDense, ToCome
  <2>4. OneRow(r)
    BY <1>t, <2>2 DEF OnceInv
  <2> QED
    BY <2>1, <2>2, <2>3, <2>4
<1>12. ASSUME NEW c \in calls, CallFails(c) PROVE OnceInv'
  <2> SUFFICES ASSUME NEW r \in Rows \ again' PROVE OneRow(r)'
    BY DEF OnceInv
  <2>1. /\ calls' \subseteq calls /\ again \subseteq again'
        /\ UNCHANGED <<memory, next, last, pending>>
    BY <1>12 DEF CallFails, Fails, index, args, TryAgain
  <2>2. ToCome' = ToCome
    BY <1>12, <2>1 DEF ToCome, CallFails, Fails, index, args
  <2>3. at' = at \/ (at \in {"post", "await"} /\ at' = "failed")
          \/ (at \in {"post", "await"} /\ at' = "post" /\ pending \subseteq again')
    BY <1>12 DEF CallFails, Fails, index, args, TryAgain, Awaited
  <2> QED
    BY <1>t, <2>1, <2>2, <2>3 DEF OnceInv
<1>13. ASSUME NEW c \in calls, CallAppend(c) PROVE OnceInv'
  <2> SUFFICES ASSUME NEW r \in Rows \ again' PROVE OneRow(r)'
    BY DEF OnceInv
  <2> DEFINE mine == [c EXCEPT !.at = "open"]
  <2>1. mine.rows = c.rows /\ mine.at = "open"
    BY <1>t, Edits DEF CallsType
  <2>2. calls' = (calls \ {c}) \cup {mine} /\ UNCHANGED <<at, next, last, pending, again>>
    BY <1>13 DEF CallAppend, Goto, args, script
  <2>3. c.at = "append" /\ ToCome' = ToCome
    BY <1>13, <2>2 DEF CallAppend, ToCome
  <2>4. OneRow(r)
    BY <1>t, <2>2 DEF OnceInv
  <2>5. CASE r \in c.rows
    <3>1. memory[r] = 0 /\ memory'[r] = 1
      BY <1>13, <2>3, <2>4, <2>5 DEF CallAppend
    <3>2. \A o \in calls \ {c} : r \notin o.rows
      BY <2>4, <2>5
    <3>3. ~((at \in {"read", "post"} \/ (at = "await" /\ r \notin pending)) /\ r \in ToCome)
      BY <2>4, <2>5
    <3>4. \A o \in calls' : r \in o.rows => o = mine
      BY <2>2, <3>2
    <3>5. ~((at' \in {"read", "post"} \/ (at' = "await" /\ r \notin pending')) /\ r \in ToCome')
      BY <2>2, <2>3, <3>3
    <3>6. \A o \in calls' : ~(r \in o.rows /\ o.at \in {"dense", "append"})
      BY <2>1, <3>4
    <3>7. \A n, o \in calls' : r \in n.rows /\ r \in o.rows => n = o
      BY <3>4
    <3> QED
      BY <3>1, <3>5, <3>6, <3>7
  <2>6. CASE r \notin c.rows
    <3>1. memory'[r] = memory[r]
      BY <1>13, <2>6 DEF CallAppend
    <3> QED
      BY <2>1, <2>2, <2>3, <2>4, <2>6, <3>1
  <2> QED
    BY <2>5, <2>6
<1>14. ASSUME NEW c \in calls, SaveOpen(c) PROVE OnceInv'
  <2> SUFFICES ASSUME NEW r \in Rows \ again' PROVE OneRow(r)'
    BY DEF OnceInv
  <2> DEFINE mine == [c EXCEPT !.at = "dump", !.handle = "tmp", !.alone = (Saving = {})]
  <2> DEFINE other(o) == [o EXCEPT !.alone = FALSE]
  <2>1. mine.rows = c.rows /\ mine.at = "dump"
    BY <1>t, Edits DEF CallsType
  <2>2. \A o \in calls : other(o).rows = o.rows /\ other(o).at = o.at
    BY <1>t, Edits DEF CallsType
  <2>3. calls' = {other(o) : o \in calls \ {c}} \cup {mine}
    BY <1>14 DEF SaveOpen
  <2>4. UNCHANGED <<memory, at, next, last, pending, again>>
    BY <1>14 DEF SaveOpen, args, script
  <2>5. OneRow(r)
    BY <1>t, <2>4 DEF OnceInv
  <2> HIDE DEF mine, other
  <2>6. ASSUME NEW n \in calls'
        PROVE  \E o \in calls : /\ n.rows = o.rows /\ (n.at = o.at \/ n.at = "dump")
                                /\ IF o = c THEN n = mine ELSE n = other(o)
    BY <2>1, <2>2, <2>3
  <2>7. \A n \in calls' : r \in n.rows /\ n.at \in {"dense", "append"} => memory[r] = 0
    BY <2>5, <2>6
  <2>8. \A n, m \in calls' : r \in n.rows /\ r \in m.rows => n = m
    BY <2>5, <2>6
  <2>9. (\A o \in calls : r \notin o.rows) => \A n \in calls' : r \notin n.rows
    BY <2>6
  <2>10. ToCome' = ToCome
    BY <2>4 DEF ToCome
  <2> QED
    BY <2>4, <2>5, <2>7, <2>8, <2>9, <2>10
<1>15. ASSUME NEW c \in calls, SaveDump(c) PROVE OnceInv'
  <2> SUFFICES ASSUME NEW r \in Rows \ again' PROVE OneRow(r)'
    BY DEF OnceInv
  <2> DEFINE mine == [c EXCEPT !.at = "replace"]
  <2>1. mine.rows = c.rows /\ mine.at = "replace"
    BY <1>t, Edits DEF CallsType
  <2>2. calls' = (calls \ {c}) \cup {mine} /\ UNCHANGED <<at, next, last, pending, again>>
    BY <1>15 DEF SaveDump, Goto, args, script
  <2>3. UNCHANGED memory /\ ToCome' = ToCome
    BY <1>15, <2>2 DEF SaveDump, ToCome
  <2>4. OneRow(r)
    BY <1>t, <2>2 DEF OnceInv
  <2> QED
    BY <2>1, <2>2, <2>3, <2>4
<1>16. ASSUME NEW c \in calls, SaveReplace(c) PROVE OnceInv'
  <2> SUFFICES ASSUME NEW r \in Rows \ again' PROVE OneRow(r)'
    BY DEF OnceInv
  <2>1. \A o \in calls : Renamed(o).rows = o.rows /\ Renamed(o).at = o.at
    BY <1>t, Edits DEF CallsType
  <2>2. calls' = {Renamed(o) : o \in calls \ {c}}
    BY <1>16 DEF SaveReplace
  <2>3. UNCHANGED <<memory, next, last, again>>
    BY <1>16 DEF SaveReplace, args
  <2>4. UNCHANGED <<at, pending>> \/ (at = "await" /\ at' = "read" /\ pending' = {})
    BY <1>16 DEF SaveReplace, Answered, Awaited
  <2>5. OneRow(r)
    BY <1>t, <2>3 DEF OnceInv
  <2>6. ASSUME NEW n \in calls'
        PROVE  \E o \in calls : n.rows = o.rows /\ n.at = o.at /\ n = Renamed(o)
    BY <2>1, <2>2
  <2>7. \A n \in calls' : r \in n.rows /\ n.at \in {"dense", "append"} => memory[r] = 0
    BY <2>5, <2>6
  <2>8. \A n, m \in calls' : r \in n.rows /\ r \in m.rows => n = m
    BY <2>5, <2>6
  <2>9. (\A o \in calls : r \notin o.rows) => \A n \in calls' : r \notin n.rows
    BY <2>6
  <2>10. \/ UNCHANGED <<at, pending>> /\ ToCome' = ToCome
         \/ at = "await" /\ (r \in ToCome' => r \in ToCome /\ r \notin pending)
    <3>1. CASE UNCHANGED <<at, pending>>
      BY <2>3, <3>1 DEF ToCome
    <3>2. CASE at = "await" /\ at' = "read" /\ pending' = {}
      BY <1>t, <2>3, <3>2 DEF ToCome, RunInv, RowsType, Rows
    <3> QED
      BY <2>4, <3>1, <3>2
  <2> QED
    BY <2>3, <2>5, <2>7, <2>8, <2>9, <2>10
<1>17. ASSUME NEW c \in calls, SaveFails(c) PROVE OnceInv'
  <2> SUFFICES ASSUME NEW r \in Rows \ again' PROVE OneRow(r)'
    BY DEF OnceInv
  <2>1. /\ calls' \subseteq calls /\ again \subseteq again'
        /\ UNCHANGED <<memory, next, last, pending>>
    BY <1>17 DEF SaveFails, Fails, index, args, TryAgain
  <2>2. ToCome' = ToCome
    BY <1>17, <2>1 DEF ToCome, SaveFails, Fails, index, args
  <2>3. at' = at \/ (at \in {"post", "await"} /\ at' = "failed")
          \/ (at \in {"post", "await"} /\ at' = "post" /\ pending \subseteq again')
    BY <1>17 DEF SaveFails, Fails, index, args, TryAgain, Awaited
  <2> QED
    BY <1>t, <2>1, <2>2, <2>3 DEF OnceInv
<1>18. CASE Restart
  <2> SUFFICES ASSUME NEW r \in Rows \ again' PROVE OneRow(r)'
    BY DEF OnceInv
  <2>1. memory'[r] <= 1
    BY <1>t, <1>18 DEF Restart, OnceInv, IndexType, MemoryAhead, script
  <2>2. r \in ToCome' => r \in ToCome
    BY <1>18 DEF ToCome, Restart, script, args
  <2>3. memory[r] = 0 => memory'[r] = 0
    BY <1>t, <1>18 DEF Restart, IndexType, MemoryAhead
  <2> QED
    BY <1>t, <1>18, <2>1, <2>2, <2>3 DEF Restart, script, args, OnceInv
<1>19. CASE UNCHANGED vars
  <2>1. ToCome' \subseteq ToCome
    BY <1>19 DEF vars, ToCome
  <2> QED
    BY <1>q, <1>19, <2>1 DEF vars
<1> QED
  BY <1>1, <1>2, <1>3, <1>4, <1>5, <1>6, <1>7, <1>8, <1>9, <1>10, <1>11, <1>12, <1>13, <1>14, <1>15, <1>16, <1>17, <1>18, <1>19 DEF Next


-----------------------------------------------------------------------------
\* The invariant holds in every state the script and the service can reach.
THEOREM SeedInvariant == Spec => []IInv
<1>1. IInv /\ [Next]_vars => IInv'
  BY TypeStep, RunStep, MemoryStep, CallsInvStep, SaveStep, PassedStep, OnceStep DEF IInv
<1> QED
  BY InitIInv, <1>1, PTL DEF Spec

\* Rows, calls and counters stay in their values, whatever fails and restarts.
THEOREM SeedTypes == Spec => []TypeOK
<1>1. IInv => TypeOK
  BY DEF IInv
<1> QED
  BY <1>1, SeedInvariant, PTL

\* What the script has gone past is in Qdrant, and in the sparse index and its pickle as
\* long as no saves have overlapped: _post_batch returns only after a save, a restart
\* loads what was saved, and a save that is alone with the .tmp file saves everything.
THEOREM PassedRowsStored == Spec => []PassedIsStored
<1>1. IInv => PassedIsStored
  BY DEF IInv
<1> QED
  BY <1>1, SeedInvariant, PTL

\* Only a second attempt or a second run makes an article count twice.
THEOREM OnceUnlessAgain == Spec => []OneEntryUnlessAgain
<1>1. IInv => OneEntryUnlessAgain
  <2> SUFFICES ASSUME IInv, NEW r \in Rows \ again PROVE memory[r] <= 1 /\ disk[r] <= 1
    BY DEF OneEntryUnlessAgain
  <2>1. memory[r] <= 1 /\ disk[r] <= memory[r]
    BY DEF IInv, OnceInv, OneRow, MemoryAhead
  <2>2. memory[r] \in Nat /\ disk[r] \in Nat
    BY DEF IInv, TypeOK
  <2> QED
    BY <2>1, <2>2
<1> QED
  BY <1>1, SeedInvariant, PTL
=============================================================================
