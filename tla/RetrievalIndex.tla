--------------------------- MODULE RetrievalIndex ---------------------------
(***************************************************************************)
(* The retrieval service: the hybrid index of document chunks, a Qdrant    *)
(* collection for dense search and a BM25 store in memory, pickled to disk *)
(* after every change.                                                     *)
(*                                                                         *)
(* The handlers are plain functions, which FastAPI runs in a pool of       *)
(* threads on one shared engine without a lock: a step below is what one   *)
(* thread does between two points where another may run.  A file is one    *)
(* chunk; its document is known by the project and the name it came with.  *)
(***************************************************************************)
EXTENDS Naturals, Sequences, FiniteSets

CONSTANTS Threads,      \* of the pool
          Uploads,      \* the files callers index: pairs of a project and a file name
          Global,       \* "__global__", the knowledge base outside all projects
          MaxRows,      \* bound on the rows of the BM25 store
          MaxWriters    \* bound on the indexing calls under way at once

ASSUME MaxRowsAssumption == MaxRows \in Nat
ASSUME MaxWritersAssumption == MaxWriters \in Nat \ {0}

Projects == {u[1] : u \in Uploads} \cup {Global}
Names == {u[2] : u \in Uploads}

\* _chunk_id_prefix hashes the file name alone: a chunk's id does not tell its project.
ChunkId(u) == u[2]

VARIABLES
    dense,     \* Qdrant: the document stored under a chunk id, if any
    rows,      \* BM25Store: its four parallel lists
    scored,    \* how many rows the BM25Okapi object covers, 0 for None
    disk,      \* bm25_index.pkl
    tmp,       \* bm25_index.pkl.tmp
    thread,    \* per thread: the call it serves and where it is
    acked,     \* documents whose caller got a 200 and whose project was not wiped since
    latest,    \* per chunk id, the document that was upserted last, wiped or not
    overlap    \* the worst overlap of two calls so far: "lists" when one extended or
               \* pickled the lists while another was half way through them, "saves"
               \* when one put an older score object in the place of a newer one or
               \* began to save while another saved, else "harmless"

ghosts == <<latest, overlap>>
indexVars == <<dense, rows, scored, disk, tmp, thread, acked, latest, overlap>>

NoDoc == <<"no", "document">>
Doc == Uploads
EmptyRows == [corpus |-> <<>>, ids |-> <<>>, projects |-> <<>>, metadatas |-> <<>>]
Pickle(r, n) == [state |-> "whole", rows |-> r, scored |-> n]
NoFile == [state |-> "absent", rows |-> EmptyRows, scored |-> 0]
PartialFile == [NoFile EXCEPT !.state = "partial"]

AddSteps == {"dense", "corpus", "ids", "projects", "metadatas", "tokenize", "rebuild"}
SaveSteps == {"open", "dump", "replace"}
WipeSteps == {"wipe dense", "wipe rows"}
SearchSteps == {"query", "scope", "score", "read"}
Steps == {"idle", "found"} \cup AddSteps \cup SaveSteps \cup WipeSteps \cup SearchSteps

\* project and doc are the call's arguments, the rest the locals of its thread; handle
\* says which name the file it has open goes by now.
Idle == [pc |-> "idle", project |-> Global, doc |-> NoDoc, picked |-> {}, count |-> 0,
         hits |-> {}, handle |-> "none"]

IndexInit ==
    /\ dense = [n \in Names |-> NoDoc]
    /\ rows = EmptyRows
    /\ scored = 0
    /\ disk = NoFile
    /\ tmp = NoFile
    /\ thread = [t \in Threads |-> Idle]
    /\ acked = {}
    /\ latest = dense
    /\ overlap = "harmless"

At(t, step) == thread[t].pc = step
Free(t) == thread[t].pc \in {"idle", "found"}
Goto(t, step) == thread' = [thread EXCEPT ![t].pc = step]
\* The call answers, be it with an error, and its locals are gone.
End(t) == thread' = [thread EXCEPT ![t] = Idle]
Writers == {t \in Threads : thread[t].pc \in AddSteps \cup SaveSteps \cup WipeSteps}
Adding == {t \in Threads : thread[t].pc \in AddSteps}
Wiping == {t \in Threads : thread[t].pc \in WipeSteps}

\* Another call is at one of these steps; between the first and the last list, say.
OtherAt(t, steps) == \E o \in Threads \ {t} : thread[o].pc \in steps
Between == {"ids", "projects", "metadatas"}
OverlapLists(clash) == overlap' = IF clash THEN "lists" ELSE overlap
OverlapSaves(clash) == overlap' = IF clash /\ overlap # "lists" THEN "saves" ELSE overlap

----------------------------------------------------------------------------
\* POST /index/chunks.

StartAdd(t, u) ==
    /\ Free(t)
    /\ Cardinality(Writers) < MaxWriters
    /\ Wiping = {}
    /\ Len(rows.corpus) + Cardinality(Adding) < MaxRows
    /\ thread' = [thread EXCEPT ![t] = [Idle EXCEPT !.pc = "dense", !.project = u[1],
                                                    !.doc = u]]
    /\ UNCHANGED <<dense, rows, scored, disk, tmp, acked, ghosts>>

\* DenseStore.add_chunks upserts by the chunk id.
AddDense(t) ==
    /\ At(t, "dense")
    /\ dense' = [dense EXCEPT ![ChunkId(thread[t].doc)] = thread[t].doc]
    /\ latest' = [latest EXCEPT ![ChunkId(thread[t].doc)] = thread[t].doc]
    /\ Goto(t, "corpus")
    /\ UNCHANGED <<rows, scored, disk, tmp, acked, overlap>>

\* The embedding or Qdrant raises.
DenseFails(t) ==
    /\ thread[t].pc \in {"dense", "wipe dense"}
    /\ End(t)
    /\ UNCHANGED <<dense, rows, scored, disk, tmp, acked, ghosts>>

\* BM25Store.add_chunks: four lists are extended one after the other, ...
Extend(t, step, list, value, next) ==
    /\ At(t, step)
    /\ rows' = [rows EXCEPT ![list] = Append(@, value)]
    /\ OverlapLists(OtherAt(t, Between \cup {"dump"}))
    /\ Goto(t, next)
    /\ UNCHANGED <<dense, scored, disk, tmp, acked, latest>>

\* Mutant: metadata goes where the chunk id is known already, as in Qdrant.
AddRowsUpserting(t) ==
    LET doc == thread[t].doc
        known == {i \in DOMAIN rows.metadatas \cap DOMAIN rows.ids : rows.ids[i] = ChunkId(doc)}
    IN  \/ Extend(t, "corpus", "corpus", doc, "ids")
        \/ Extend(t, "ids", "ids", ChunkId(doc), "projects")
        \/ Extend(t, "projects", "projects", thread[t].project, "metadatas")
        \/ known = {} /\ Extend(t, "metadatas", "metadatas", doc, "tokenize")
        \/ /\ known # {} /\ At(t, "metadatas")
           /\ rows' = [rows EXCEPT !.metadatas =
                         [i \in DOMAIN rows.metadatas |->
                            IF i \in known THEN doc ELSE rows.metadatas[i]]]
           /\ Goto(t, "tokenize")
           /\ UNCHANGED <<dense, scored, disk, tmp, acked, ghosts>>

AddRows(t) ==
    LET doc == thread[t].doc
    IN  \/ Extend(t, "corpus", "corpus", doc, "ids")
        \/ Extend(t, "ids", "ids", ChunkId(doc), "projects")
        \/ Extend(t, "projects", "projects", thread[t].project, "metadatas")
        \/ Extend(t, "metadatas", "metadatas", doc, "tokenize")

\* ... then the whole corpus is tokenized and scored anew.
Tokenize(t) ==
    /\ At(t, "tokenize")
    /\ thread' = [thread EXCEPT ![t].pc = "rebuild", ![t].count = Len(rows.corpus)]
    /\ UNCHANGED <<dense, rows, scored, disk, tmp, acked, ghosts>>

Rebuild(t) ==
    /\ At(t, "rebuild")
    /\ scored' = thread[t].count
    /\ OverlapSaves(thread[t].count < scored)
    /\ Goto(t, "open")
    /\ UNCHANGED <<dense, rows, disk, tmp, acked, latest>>

----------------------------------------------------------------------------
\* BM25Store.save: the pickle goes to the .tmp file, which then replaces the old one.

\* The payload holds the score object of this moment; opening for writing truncates the
\* file, also one another thread is writing.
SaveOpen(t) ==
    /\ At(t, "open")
    /\ tmp' = PartialFile
    /\ OverlapSaves(OtherAt(t, {"dump", "replace"}))
    /\ thread' = [thread EXCEPT ![t].pc = "dump", ![t].handle = "tmp", ![t].count = scored]
    /\ UNCHANGED <<dense, rows, scored, disk, acked, latest>>

\* The dump writes the lists as they are to the file that was opened, under whatever
\* name it goes by now.
SaveDump(t) ==
    LET file == Pickle(rows, thread[t].count)
        handle == thread[t].handle
    IN  /\ At(t, "dump")
        /\ tmp' = IF handle = "tmp" THEN file ELSE tmp
        /\ disk' = IF handle = "disk" THEN file ELSE disk
        /\ OverlapLists(OtherAt(t, Between))
        /\ Goto(t, "replace")
        /\ UNCHANGED <<dense, rows, scored, acked, latest>>

\* What a rename does to the files that other threads have open.
Renamed(th) == [th EXCEPT !.handle = CASE th.handle = "tmp" -> "disk"
                                       [] th.handle = "disk" -> "gone"
                                       [] OTHER -> th.handle]

\* os.replace, after which the call answers 200; it raises when another thread has
\* moved the .tmp file away.
SaveReplace(t) ==
    /\ At(t, "replace")
    /\ IF tmp.state = "absent"
       THEN End(t) /\ UNCHANGED <<disk, tmp, acked>>
       ELSE /\ disk' = tmp
            /\ tmp' = NoFile
            /\ thread' = [o \in Threads |->
                            IF o = t THEN Idle ELSE Renamed(thread[o])]
            /\ acked' = acked \cup ({thread[t].doc} \ {NoDoc})
    /\ UNCHANGED <<dense, rows, scored, ghosts>>

\* Mutant: the handler logs an error of save and answers 200.
SaveFailsSilently(t) ==
    /\ thread[t].pc \in SaveSteps
    /\ End(t)
    /\ tmp' = IF OtherAt(t, {"dump", "replace"}) THEN tmp ELSE NoFile
    /\ acked' = acked \cup ({thread[t].doc} \ {NoDoc})
    /\ UNCHANGED <<dense, rows, scored, disk, ghosts>>

\* The disk is full, say: the call fails with what is in memory unsaved.  What it leaves
\* in the .tmp file matters to nobody but another call that is about to move the file.
SaveFails(t) ==
    /\ thread[t].pc \in SaveSteps
    /\ End(t)
    /\ tmp' = IF OtherAt(t, {"dump", "replace"}) THEN tmp ELSE NoFile
    /\ UNCHANGED <<dense, rows, scored, disk, acked, ghosts>>

----------------------------------------------------------------------------
\* DELETE /index/{project_id}.  No other service calls it; it is taken to run while
\* no other call does.
StartWipe(t, p) ==
    /\ \A o \in Threads : Free(o)
    /\ p # Global
    /\ thread' = [thread EXCEPT ![t] = [Idle EXCEPT !.pc = "wipe dense", !.project = p]]
    /\ acked' = {u \in acked : u[1] # p}
    /\ UNCHANGED <<dense, rows, scored, disk, tmp, ghosts>>

\* Mutant: the selector has no filter.
WipeDenseUnfiltered(t) ==
    /\ At(t, "wipe dense")
    /\ dense' = [n \in Names |-> NoDoc]
    /\ Goto(t, "wipe rows")
    /\ UNCHANGED <<rows, scored, disk, tmp, acked, ghosts>>

WipeDense(t) ==
    /\ At(t, "wipe dense")
    /\ dense' = [n \in Names |-> IF dense[n][1] = thread[t].project THEN NoDoc ELSE dense[n]]
    /\ Goto(t, "wipe rows")
    /\ UNCHANGED <<rows, scored, disk, tmp, acked, ghosts>>

\* The rows to keep are those of the project list that name another project.
Keep(p) == {i \in DOMAIN rows.projects : rows.projects[i] # p}
Kept(list, p) ==
    LET nth(n) == CHOOSE i \in Keep(p) : Cardinality({j \in Keep(p) : j <= i}) = n
    IN  [n \in 1..Cardinality(Keep(p)) |-> list[nth(n)]]

\* The lists are replaced one by one; a list that lacks a row to keep, as the last one
\* may after calls have mixed, raises and is left alone with those after it.
WipeRows(t) ==
    LET p == thread[t].project
        has(list) == Keep(p) \subseteq DOMAIN list
        some == has(rows.corpus)
        most == some /\ has(rows.ids)
        all == most /\ has(rows.metadatas)
    IN  /\ At(t, "wipe rows")
        /\ IF Keep(p) = DOMAIN rows.projects
           THEN UNCHANGED <<rows, scored>> /\ Goto(t, "open")
           ELSE /\ rows' = [corpus |-> IF some THEN Kept(rows.corpus, p) ELSE rows.corpus,
                            ids |-> IF most THEN Kept(rows.ids, p) ELSE rows.ids,
                            projects |-> IF most THEN Kept(rows.projects, p)
                                         ELSE rows.projects,
                            metadatas |-> IF all THEN Kept(rows.metadatas, p)
                                          ELSE rows.metadatas]
                /\ scored' = IF all THEN Cardinality(Keep(p)) ELSE scored
                /\ IF all THEN Goto(t, "open") ELSE End(t)
        /\ UNCHANGED <<dense, disk, tmp, acked, ghosts>>

----------------------------------------------------------------------------
\* POST /retrieve for one scope.

StartSearch(t, p) ==
    /\ Free(t)
    /\ Wiping = {}
    /\ thread' = [thread EXCEPT ![t] = [Idle EXCEPT !.pc = "query", !.project = p]]
    /\ UNCHANGED <<dense, rows, scored, disk, tmp, acked, ghosts>>

\* Qdrant filters by the project in the payload.
SearchDense(t) ==
    /\ At(t, "query")
    /\ thread' = [thread EXCEPT
                    ![t].pc = IF scored = 0 THEN "found" ELSE "scope",
                    ![t].hits = {dense[n] : n \in {m \in Names :
                                                     dense[m][1] = thread[t].project}}]
    /\ UNCHANGED <<dense, rows, scored, disk, tmp, acked, ghosts>>

\* RetrievalEngine.retrieve asks the store for the rows of project_id None when the
\* scope is "__global__".  Qdrant keeps both under one key; the store does not, and
\* the knowledge base is indexed as "__global__".
Unset == "none"

\* None and the project of no document are not among the ids callers use.
ASSUME ProjectsAssumption == {Unset, NoDoc[1]} \cap Projects = {}

Bm25Pid(p) == IF p = Global THEN Unset ELSE p

\* Mutant: project None means no filter.
ScopedAll(p) ==
    {i \in DOMAIN rows.projects : Bm25Pid(p) = Unset \/ rows.projects[i] = p}

ScopedIndices(p) == {i \in DOMAIN rows.projects : rows.projects[i] = Bm25Pid(p)}

SearchScope(t) ==
    /\ At(t, "scope")
    /\ thread' = [thread EXCEPT
                    ![t].picked = ScopedIndices(thread[t].project),
                    ![t].pc = IF ScopedIndices(thread[t].project) = {} THEN "found"
                              ELSE "score"]
    /\ UNCHANGED <<dense, rows, scored, disk, tmp, acked, ghosts>>

\* scores[idx] raises for a row the BM25Okapi object does not cover yet.
SearchScore(t) ==
    /\ At(t, "score")
    /\ IF \A i \in thread[t].picked : i <= scored THEN Goto(t, "read") ELSE End(t)
    /\ UNCHANGED <<dense, rows, scored, disk, tmp, acked, ghosts>>

\* So does the row's entry in another list that lacks it yet.
SearchRead(t) ==
    LET picked == thread[t].picked
        there == picked \subseteq DOMAIN rows.metadatas \cap DOMAIN rows.ids
                                    \cap DOMAIN rows.corpus
    IN  /\ At(t, "read")
        /\ IF there
           THEN thread' = [thread EXCEPT
                             ![t].pc = "found", ![t].picked = {},
                             ![t].hits = @ \cup {rows.corpus[i] : i \in picked}]
           ELSE End(t)
        /\ UNCHANGED <<dense, rows, scored, disk, tmp, acked, ghosts>>

----------------------------------------------------------------------------
\* The process stops and starts again: BM25Store.load takes what the pickle has, or
\* starts empty when there is none or it is corrupt; the next save truncates what is left
\* of the .tmp file.
ServiceRestart ==
    /\ \E t \in Threads : ~Free(t)
    /\ rows' = disk.rows
    /\ scored' = disk.scored
    /\ tmp' = NoFile
    /\ thread' = [t \in Threads |-> Idle]
    /\ UNCHANGED <<dense, disk, acked, ghosts>>

IndexNext ==
    \/ \E t \in Threads :
          \/ \E u \in Uploads : StartAdd(t, u)
          \/ AddDense(t) \/ DenseFails(t) \/ AddRows(t) \/ Tokenize(t) \/ Rebuild(t)
          \/ SaveOpen(t) \/ SaveDump(t) \/ SaveReplace(t) \/ SaveFails(t)
          \/ \E p \in Projects : StartWipe(t, p) \/ StartSearch(t, p)
          \/ WipeDense(t) \/ WipeRows(t)
          \/ SearchDense(t) \/ SearchScope(t) \/ SearchScore(t) \/ SearchRead(t)
    \/ ServiceRestart

IndexSpec == IndexInit /\ [][IndexNext]_indexVars

----------------------------------------------------------------------------
\* Properties.

RowsType == [corpus : Seq(Doc), ids : Seq(Names), projects : Seq(Projects),
             metadatas : Seq(Doc)]
FileType == [state : {"absent", "partial", "whole"}, rows : RowsType, scored : Nat]
ThreadType == [pc : Steps, project : Projects, doc : Doc \cup {NoDoc},
               picked : SUBSET Nat, count : Nat, hits : SUBSET Doc,
               handle : {"none", "tmp", "disk", "gone"}]

\* The two indexes, the two files and the threads' locals stay in range.
IndexTypeOK ==
    /\ dense \in [Names -> Doc \cup {NoDoc}]
    /\ rows \in RowsType
    /\ scored \in Nat
    /\ disk \in FileType
    /\ tmp \in FileType
    /\ thread \in [Threads -> ThreadType]
    /\ acked \subseteq Doc
    /\ latest \in [Names -> Doc \cup {NoDoc}]
    /\ overlap \in {"harmless", "saves", "lists"}

\* ADR-005 promises that with project_id set dense and sparse search are filtered to
\* that project: as long as no call has extended or pickled the lists while another was
\* half way through them, no hit is another project's document.  Saves, restarts and
\* rebuilds of the scores may overlap as they like.
ScopedSearch ==
    overlap # "lists" =>
        \A t \in Threads : \A hit \in thread[t].hits : hit[1] = thread[t].project

\* As long as no call has extended or pickled the lists while another was half way through
\* them, the four lists describe the same chunk at the same index, as far as each of them
\* goes, at every step of every call and after every restart.
RowsAligned ==
    overlap # "lists" =>
        \A i \in DOMAIN rows.corpus :
            /\ i \in DOMAIN rows.ids => rows.ids[i] = ChunkId(rows.corpus[i])
            /\ i \in DOMAIN rows.projects => rows.projects[i] = rows.corpus[i][1]
            /\ i \in DOMAIN rows.metadatas => rows.metadatas[i] = rows.corpus[i]

\* What a caller was told is indexed stays searchable until its project is wiped: the
\* pickle holds it whenever the process stops, and the BM25 half of a search finds it in
\* every scope but the global one, at every step of every call and after every restart.
\* It takes an overlap of two calls to break that, and one of those that overlap names.
AckedIsDurable ==
    overlap = "harmless" => \A u \in acked :
        /\ \E i \in 1..disk.scored : disk.rows.corpus[i] = u
        /\ u[1] # Global => \E i \in 1..scored : /\ i \in ScopedIndices(u[1])
                                                 /\ rows.corpus[i] = u

\* However calls overlap, what a caller was told is indexed is in Qdrant until its project
\* is wiped, unless a file of the same name was upserted later: a chunk's id does not tell
\* its project, so the later one takes the point over, and takes it along when it is wiped.
AckedInQdrant ==
    \A u \in acked : latest[ChunkId(u)] = u => dense[ChunkId(u)] = u

\* ADR-005 has POST /retrieve a hybrid search: what a caller was told is indexed, the
\* BM25 half finds in the scope it was indexed for.
HybridFindsAcked ==
    \A u \in acked : \E i \in ScopedIndices(u[1]) : rows.corpus[i] = u

\* ADR-005 has the index written "for a project/file": indexing or wiping one project
\* leaves the dense chunks of every other project alone.
NeighboursUntouched ==
    [][\A n \in Names :
          dense'[n] # dense[n] /\ dense[n] # NoDoc =>
              \E t \in Threads : thread[t].project = dense[n][1] /\ ~Free(t)]_indexVars
=============================================================================
