--------------------------- MODULE KnowledgeSeed ----------------------------
(***************************************************************************)
(* scripts/seed_global_kb.py: it reads the articles of a CSV file, posts   *)
(* their chunks in batches to the retrieval service, tries a batch again   *)
(* after an error, and does nothing at all when a probe finds the global   *)
(* knowledge base filled.  It may be started any number of times.          *)
(*                                                                         *)
(* An article is one chunk, known by its row in the file.  The service     *)
(* upserts chunks in Qdrant, appends them to the BM25 lists in memory and  *)
(* pickles those through one .tmp file; it may restart at any time.  Its   *)
(* handlers run in a pool of threads without a lock: a post the script has *)
(* given up goes on beside the next one, step by step.  An append is one   *)
(* step for all four lists; what becomes of their order when two of them   *)
(* mix is the matter of RetrievalIndex.                                    *)
(***************************************************************************)
EXTENDS Integers, FiniteSets

CONSTANTS
  LastRow,       \* rows of the CSV file are 0 .. LastRow
  BatchSize,     \* batch_size (16)
  MaxAttempts,   \* max_attempts (5)
  MaxRuns,       \* bound: how often the script is started
  MaxCalls       \* bound: calls the service works on at once

ASSUME RowsAssumption == LastRow \in Nat
ASSUME BatchAssumption == BatchSize \in Nat \ {0} /\ MaxAttempts \in Nat \ {0}
ASSUME RunsAssumption == MaxRuns \in Nat /\ MaxCalls \in Nat

Rows == 0 .. LastRow

VARIABLES
  dense,     \* rows whose chunk is in Qdrant
  memory,    \* row -> how many entries the BM25 lists have for its chunk
  tmp,       \* bm25_index.pkl.tmp: whether it is there, and what a load would take
  disk,      \* what a load would take from bm25_index.pkl
  calls,     \* the indexing calls the service works on
  overlap,   \* did saves overlap: "no", "open" while the pickle may lack something for
             \* it, "lost" once the service has started from such a pickle
  at,        \* where the script is
  blank,     \* rows that come to no chunk: no title and no content, or only space
  first,     \* --start-row
  last,      \* the last row that --limit lets through
  next,      \* the row to be read next
  pending,   \* rows read and not yet posted with success
  attempt,   \* of the post under way, from 1
  runs,      \* how often the script was started
  again      \* rows posted with a second attempt, or by a second run

index == <<dense, memory, tmp, disk>>
args == <<blank, first, last>>
script == <<at, next, pending, attempt, again>>
vars == <<dense, memory, tmp, disk, calls, overlap, at, blank, first, last, next, pending,
          attempt, runs, again>>

Nothing == [r \in Rows |-> 0]
NoFile == [there |-> FALSE, rows |-> Nothing]

\* A call: its rows, by which attempt of which run it was sent, its next step, by what
\* name the file it has open goes, and whether no other save overlaps its own.
Call == [rows : SUBSET Rows, attempt : 1 .. MaxAttempts, run : 1 .. MaxRuns,
         at : {"dense", "append", "open", "dump", "replace"},
         handle : {"none", "tmp", "disk", "gone"}, alone : BOOLEAN]

Init ==
  /\ dense = {}
  /\ memory = Nothing
  /\ tmp = NoFile
  /\ disk = Nothing
  /\ calls = {}
  /\ overlap = "no"
  /\ at = "off"
  /\ blank \in SUBSET Rows
  /\ first = 0 /\ last = 0
  /\ next = 0
  /\ pending = {}
  /\ attempt = 0
  /\ runs = 0
  /\ again = {}

-----------------------------------------------------------------------------
(* The script *)

Off == {"off", "skipped", "finished", "failed"}

\* With --force there is no probe.
Start ==
  /\ at \in Off /\ runs < MaxRuns
  /\ runs' = runs + 1
  /\ first' \in Rows /\ last' \in Rows
  /\ next' = first' /\ pending' = {} /\ attempt' = 0
  /\ at' \in {"probe", "wait"}
  /\ UNCHANGED <<index, calls, overlap, blank, again>>

\* _is_seeded: any chunk at all is enough.
Probe ==
  /\ at = "probe"
  /\ at' = IF dense # {} THEN "skipped" ELSE "wait"
  /\ UNCHANGED <<index, calls, overlap, args, next, pending, attempt, runs, again>>

\* The service does not answer: not seeded.
ProbeFails ==
  /\ at = "probe"
  /\ at' = "wait"
  /\ UNCHANGED <<index, calls, overlap, args, next, pending, attempt, runs, again>>

\* By a run before this one, whatever came of it.
Posted(r) == r \in dense \/ memory[r] > 0 \/ \E c \in calls : r \in c.rows

\* _wait_for_retrieval, which raises after timeout_s.
Wait ==
  /\ at = "wait"
  /\ at' \in {"read", "failed"}
  /\ again' = again \cup {r \in first .. last : Posted(r)}
  /\ UNCHANGED <<index, calls, overlap, args, next, pending, attempt, runs>>

Post == at' = "post" /\ attempt' = 1

\* A row is read; a full batch is posted, and what is left at the end.
Read ==
  /\ at = "read"
  /\ IF next \in Rows /\ next <= last
     THEN /\ next' = next + 1
          /\ pending' = pending \cup ({next} \ blank)
          /\ IF Cardinality(pending') >= BatchSize THEN Post ELSE UNCHANGED <<at, attempt>>
     ELSE /\ UNCHANGED <<next, pending>>
          /\ IF pending # {} THEN Post ELSE at' = "finished" /\ UNCHANGED attempt
  /\ UNCHANGED <<index, calls, overlap, args, runs, again>>

\* Mutant: pending.clear() is left out.
AnsweredKeeping ==
  /\ at' = "read"
  /\ attempt' = 0
  /\ UNCHANGED pending

\* _post_batch returns and pending is cleared.
Answered ==
  /\ at' = "read"
  /\ attempt' = 0
  /\ pending' = {}

\* Mutant: the loop over the attempts ends without an error.
TryAgainOrSkip ==
  IF attempt < MaxAttempts
  THEN attempt' = attempt + 1 /\ again' = again \cup pending /\ at' = "post" /\ UNCHANGED pending
  ELSE Answered /\ UNCHANGED again

\* An httpx.HTTPError: the same batch once more, or the end of the run.
TryAgain ==
  IF attempt < MaxAttempts
  THEN attempt' = attempt + 1 /\ again' = again \cup pending /\ at' = "post" /\ UNCHANGED pending
  ELSE at' = "failed" /\ UNCHANGED <<attempt, pending, again>>

\* client.post: the request goes out, ...
Send ==
  /\ at = "post" /\ Cardinality(calls) < MaxCalls
  /\ at' = "await"
  /\ calls' = calls \cup {[rows |-> pending, attempt |-> attempt, run |-> runs,
                            at |-> "dense", handle |-> "none", alone |-> FALSE]}
  /\ UNCHANGED <<index, overlap, args, next, pending, attempt, runs, again>>

\* ... or does not arrive.
SendFails ==
  /\ at = "post"
  /\ TryAgain
  /\ UNCHANGED <<index, calls, overlap, args, next, runs>>

\* The script waits for this very call.
Awaited(c) == at = "await" /\ c.rows = pending /\ c.attempt = attempt /\ c.run = runs

\* After 180 s the script does not wait any longer; the service goes on.
TimesOut ==
  /\ \E c \in calls : Awaited(c)
  /\ TryAgain
  /\ UNCHANGED <<index, calls, overlap, args, next, runs>>

\* The service has been stopped with the call.
Unanswered ==
  /\ at = "await" /\ \A c \in calls : ~Awaited(c)
  /\ TryAgain
  /\ UNCHANGED <<index, calls, overlap, args, next, runs>>

\* Ctrl-C, or the container is stopped; the service works on what it has.
Killed ==
  /\ at \notin Off
  /\ at' = "failed"
  /\ UNCHANGED <<index, calls, overlap, args, next, pending, attempt, runs, again>>

-----------------------------------------------------------------------------
(* POST /index/chunks, in a thread of the service *)

Goto(c, step) == calls' = (calls \ {c}) \cup {[c EXCEPT !.at = step]}
Saving == {c \in calls : c.at \in {"dump", "replace"}}

\* The call ends with an error, which the script hears of if it still waits for it.
Fails(c) ==
  /\ calls' = calls \ {c}
  /\ IF Awaited(c) THEN TryAgain ELSE UNCHANGED <<at, attempt, pending, again>>

\* engine.index_chunks: an upsert in Qdrant by chunk id, ...
CallDense(c) ==
  /\ c.at = "dense"
  /\ dense' = dense \cup c.rows
  /\ Goto(c, "append")
  /\ UNCHANGED <<memory, tmp, disk, overlap, args, script, runs>>

\* ... where the embedding or Qdrant may raise, ...
CallFails(c) ==
  /\ c.at = "dense"
  /\ Fails(c)
  /\ UNCHANGED <<index, overlap, args, next, runs>>

\* ... and an append to the BM25 lists, whatever they hold.
CallAppend(c) ==
  /\ c.at = "append"
  /\ memory' = [r \in Rows |-> IF r \in c.rows THEN memory[r] + 1 ELSE memory[r]]
  /\ Goto(c, "open")
  /\ UNCHANGED <<dense, tmp, disk, overlap, args, script, runs>>

\* BM25Store.save opens the one .tmp file, which truncates it, also if another call is
\* about to write or to rename it, ...
SaveOpen(c) ==
  /\ c.at = "open"
  /\ tmp' = [there |-> TRUE, rows |-> Nothing]
  /\ calls' = {[o EXCEPT !.alone = FALSE] : o \in calls \ {c}}
                \cup {[c EXCEPT !.at = "dump", !.handle = "tmp", !.alone = (Saving = {})]}
  /\ overlap' = IF Saving # {} /\ overlap = "no" THEN "open" ELSE overlap
  /\ UNCHANGED <<dense, memory, disk, args, script, runs>>

\* ... dumps the lists as they are into the file it has opened, ...
SaveDump(c) ==
  /\ c.at = "dump"
  /\ tmp' = IF c.handle = "tmp" THEN [tmp EXCEPT !.rows = memory] ELSE tmp
  /\ disk' = IF c.handle = "disk" THEN memory ELSE disk
  /\ Goto(c, "replace")
  /\ UNCHANGED <<dense, memory, overlap, args, script, runs>>

\* What a rename does to the files that the other saves have open.
Renamed(o) == [o EXCEPT !.handle = CASE o.handle = "tmp" -> "disk"
                                     [] o.handle = "disk" -> "gone"
                                     [] OTHER -> o.handle]

\* ... and moves whatever the .tmp file holds over the pickle, after which the call
\* answers 200.
SaveReplace(c) ==
  /\ c.at = "replace" /\ tmp.there
  /\ disk' = tmp.rows
  /\ tmp' = NoFile
  /\ calls' = {Renamed(o) : o \in calls \ {c}}
  /\ overlap' = IF c.alone /\ overlap = "open" THEN "no" ELSE overlap
  /\ IF Awaited(c) THEN Answered /\ UNCHANGED again
     ELSE UNCHANGED <<at, attempt, pending, again>>
  /\ UNCHANGED <<dense, memory, args, next, runs>>

\* The disk is full, or another call has moved the .tmp file away: a 500 for chunks that
\* are in memory.
SaveFails(c) ==
  /\ \/ c.at \in {"open", "dump"}
     \/ c.at = "replace" /\ ~tmp.there
  /\ Fails(c)
  /\ UNCHANGED <<index, overlap, args, next, runs>>

\* The service restarts: BM25Store.load takes what the pickle has.
Restart ==
  /\ memory' = disk
  /\ calls' = {}
  /\ overlap' = IF overlap = "open" THEN "lost" ELSE overlap
  /\ UNCHANGED <<dense, tmp, disk, args, script, runs>>

Next ==
  \/ Start \/ Probe \/ ProbeFails \/ Wait \/ Read \/ Killed
  \/ Send \/ SendFails \/ TimesOut \/ Unanswered
  \/ \E c \in calls :
        \/ CallDense(c) \/ CallFails(c) \/ CallAppend(c)
        \/ SaveOpen(c) \/ SaveDump(c) \/ SaveReplace(c) \/ SaveFails(c)
  \/ Restart

Spec == Init /\ [][Next]_vars

-----------------------------------------------------------------------------
(* Properties *)

\* Types and ranges.
TypeOK ==
  /\ dense \subseteq Rows
  /\ memory \in [Rows -> Nat] /\ disk \in [Rows -> Nat]
  /\ tmp \in [there : BOOLEAN, rows : [Rows -> Nat]]
  /\ calls \subseteq Call
  /\ overlap \in {"no", "open", "lost"}
  /\ at \in Off \cup {"probe", "wait", "read", "post", "await"}
  /\ blank \subseteq Rows
  /\ first \in Rows /\ last \in Rows
  /\ next \in 0 .. LastRow + 1
  /\ pending \subseteq Rows
  /\ attempt \in 0 .. MaxAttempts
  /\ runs \in 0 .. MaxRuns
  /\ again \subseteq Rows

\* What the script has gone past.
Passed ==
  IF at \in {"read", "post", "await", "finished"}
  THEN (first .. (next - 1)) \ (blank \cup pending)
  ELSE {}

\* What the script has gone past is stored, whatever failed on the way, whichever posts
\* it gave up still run beside their repetition, and whenever the service restarted: in
\* Qdrant in any case; in the sparse index unless the service has started from a pickle
\* that overlapping saves had written; and in the pickle unless saves have overlapped
\* since the last one that had the .tmp file for itself.
PassedIsStored ==
  \A r \in Passed :
    /\ r \in dense
    /\ overlap # "lost" => memory[r] > 0
    /\ overlap = "no" => disk[r] > 0

\* The file is in the BM25 index once, except what a second attempt or a second run
\* posts again: the lists are only ever appended to.
OneEntryUnlessAgain == \A r \in Rows \ again : memory[r] <= 1 /\ disk[r] <= 1
=============================================================================
