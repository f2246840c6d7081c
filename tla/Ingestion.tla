------------------------------ MODULE Ingestion ------------------------------
(***************************************************************************)
(* The life of uploaded files across three services: the project service   *)
(* keeps a row per file and asks the ingestion service for a job; a worker *)
(* of the ingestion service reads the file, has its chunks indexed by the  *)
(* retrieval service and reports the file's status back.                   *)
(*                                                                         *)
(* Every arrow between the services is an HTTP call with a timeout.  A     *)
(* call the client has given up on may still be handled later, so calls    *)
(* under way are a set and their handlers run whether or not anyone waits. *)
(***************************************************************************)
EXTENDS Naturals

CONSTANT Files          \* the uploads, each with a file id of its own

VARIABLES
    row,       \* the status column of the file's row, "absent" before the upload
    enqueue,   \* the background task enqueue_ingestion: "none", "due" or "over"
    job,       \* the status of the file's job in the JobStore, "none" without one
    worker,    \* run_project_file_job: where it is, or the call it waits for
    calls,     \* the HTTP calls under way: pairs of a file and what is asked
    indexed    \* how often the retrieval service has indexed the file's chunks

vars == <<row, enqueue, job, worker, calls, indexed>>

\* The calls of a worker: three status updates and index_chunks.
Updates == {"processing", "ingested", "failed"}
WorkerCalls == Updates \cup {"index"}
Call == Files \X (WorkerCalls \cup {"create"})

Running == {"queued", "working"} \cup WorkerCalls
Ended == {"done", "dead"}

Init ==
    /\ row = [f \in Files |-> "absent"]
    /\ enqueue = [f \in Files |-> "none"]
    /\ job = [f \in Files |-> "none"]
    /\ worker = [f \in Files |-> "none"]
    /\ calls = {}
    /\ indexed = [f \in Files |-> 0]

----------------------------------------------------------------------------
\* The project service.

\* upload_file and upload_knowledge_file: the row commits before the task is added.
Upload(f) ==
    /\ row[f] = "absent"
    /\ row' = [row EXCEPT ![f] = "pending"]
    /\ enqueue' = [enqueue EXCEPT ![f] = "due"]
    /\ UNCHANGED <<job, worker, calls, indexed>>

\* Mutant: the request is sent again when the first one seems lost.
EnqueueRetries(f) ==
    /\ enqueue[f] = "due"
    /\ \/ UNCHANGED enqueue
       \/ enqueue' = [enqueue EXCEPT ![f] = "over"]
    /\ calls' = calls \cup {<<f, "create">>}
    /\ UNCHANGED <<row, job, worker, indexed>>

\* enqueue_ingestion sends the request once and ignores how it went.
Enqueue(f) ==
    /\ enqueue[f] = "due"
    /\ enqueue' = [enqueue EXCEPT ![f] = "over"]
    /\ calls' = calls \cup {<<f, "create">>}
    /\ UNCHANGED <<row, job, worker, indexed>>

\* The request reaches nobody, or the project service stops with the task in memory.
EnqueueLost(f) ==
    /\ enqueue[f] = "due"
    /\ enqueue' = [enqueue EXCEPT ![f] = "over"]
    /\ UNCHANGED <<row, job, worker, calls, indexed>>

----------------------------------------------------------------------------
\* The ingestion service.

CreateJob(f) ==
    /\ <<f, "create">> \in calls
    /\ calls' = calls \ {<<f, "create">>}
    /\ job' = [job EXCEPT ![f] = "pending"]
    /\ worker' = [worker EXCEPT ![f] = "queued"]
    /\ UNCHANGED <<row, enqueue, indexed>>

\* The worker sets the job's status, sends a call and waits for its answer.
Ask(f, status, call, others) ==
    /\ job' = [job EXCEPT ![f] = status]
    /\ worker' = [worker EXCEPT ![f] = call]
    /\ calls' = others \cup {<<f, call>>}

StartJob(f) ==
    /\ worker[f] = "queued"
    /\ Ask(f, "processing", "processing", calls)
    /\ UNCHANGED <<row, enqueue, indexed>>

\* Fetching, extracting, the relevance guard and chunking went well.
IndexFile(f) ==
    /\ worker[f] = "working"
    /\ Ask(f, job[f], "index", calls)
    /\ UNCHANGED <<row, enqueue, indexed>>

\* Mutant: the update to "processing" moves into the try block, which logs its error.
RaiseIgnoringFirst(f, others) ==
    IF worker[f] = "processing"
    THEN /\ worker' = [worker EXCEPT ![f] = "working"]
         /\ calls' = others
         /\ UNCHANGED job
    ELSE Ask(f, "failed", "failed", others)

\* Mutant: an error of the last update is logged and the job stays as it is.
RaiseKeepsCompleted(f, others) ==
    IF worker[f] \in Updates
    THEN /\ worker' = [worker EXCEPT ![f] = "done"]
         /\ calls' = others
         /\ UNCHANGED job
    ELSE Ask(f, "failed", "failed", others)

\* An exception in the worker.  No except clause covers the first status update nor
\* the one that reports a failure; anything else makes the job and the file failed.
Raise(f, others) ==
    IF worker[f] \in {"processing", "failed"}
    THEN /\ worker' = [worker EXCEPT ![f] = "dead"]
         /\ calls' = others
         /\ UNCHANGED job
    ELSE Ask(f, "failed", "failed", others)

\* FootballRelevanceError, or any other exception before the chunks are sent.
WorkRaises(f) ==
    /\ worker[f] = "working"
    /\ Raise(f, calls)
    /\ UNCHANGED <<row, enqueue, indexed>>

----------------------------------------------------------------------------
\* The calls of the worker.

\* What the callee does: update_file_status overwrites the row's status, and
\* index_chunks appends the chunks.
Handle(f, call) ==
    /\ row' = IF call \in Updates THEN [row EXCEPT ![f] = call] ELSE row
    /\ indexed' = IF call = "index" THEN [indexed EXCEPT ![f] = @ + 1] ELSE indexed

Answered(f, call) ==
    LET rest == calls \ {<<f, call>>}
    IN  /\ worker[f] = call
        /\ <<f, call>> \in calls
        /\ Handle(f, call)
        /\ \/ /\ call = "index"
              /\ Ask(f, "completed", "ingested", rest)
           \/ /\ call # "index"
              /\ worker' = [worker EXCEPT ![f] = IF call = "processing" THEN "working"
                                                 ELSE "done"]
              /\ calls' = rest
              /\ UNCHANGED job
        /\ UNCHANGED enqueue

\* Mutant: a timeout of index_chunks counts as zero chunks indexed.
TimesOutQuietly(f, call) ==
    /\ worker[f] = call
    /\ <<f, call>> \in calls
    /\ IF call = "index" THEN Ask(f, "completed", "ingested", calls) ELSE Raise(f, calls)
    /\ UNCHANGED <<row, enqueue, indexed>>

\* The client gives up; the call stays under way.
TimesOut(f, call) ==
    /\ worker[f] = call
    /\ <<f, call>> \in calls
    /\ Raise(f, calls)
    /\ UNCHANGED <<row, enqueue, indexed>>

\* Mutant: a refused call is waited for.
RefusedUnnoticed(f, call) ==
    /\ worker[f] = call
    /\ <<f, call>> \in calls
    /\ calls' = calls \ {<<f, call>>}
    /\ UNCHANGED <<row, enqueue, job, worker, indexed>>

\* The callee is down or answers with an error before it does anything.
Refused(f, call) ==
    /\ worker[f] = call
    /\ <<f, call>> \in calls
    /\ Raise(f, calls \ {<<f, call>>})
    /\ UNCHANGED <<row, enqueue, indexed>>

\* A call nobody waits for any more is handled, or lost.
HandledLate(f, call) ==
    /\ worker[f] # call
    /\ <<f, call>> \in calls
    /\ Handle(f, call)
    /\ calls' = calls \ {<<f, call>>}
    /\ UNCHANGED <<enqueue, job, worker>>

LostLate(f, call) ==
    /\ worker[f] # call
    /\ <<f, call>> \in calls
    /\ calls' = calls \ {<<f, call>>}
    /\ UNCHANGED <<row, enqueue, job, worker, indexed>>

----------------------------------------------------------------------------
\* The ingestion service restarts: the JobStore is a dictionary in memory and the
\* workers are threads of the process.  What they had sent is not taken back.
Restart ==
    /\ \E f \in Files : job[f] # "none"
    /\ job' = [f \in Files |-> "none"]
    /\ worker' = [f \in Files |-> IF worker[f] \in Running THEN "dead" ELSE worker[f]]
    /\ calls' = {c \in calls : c[2] # "create"}
    /\ UNCHANGED <<row, enqueue, indexed>>

\* Everything uploaded has been dealt with, one way or the other.
Quiet ==
    /\ \A f \in Files : enqueue[f] = "over" /\ worker[f] \in Ended \cup {"none"}
    /\ calls = {}
    /\ UNCHANGED vars

\* The steps the services take for a file once it is uploaded.
Proceed(f) ==
    \/ Enqueue(f)
    \/ EnqueueLost(f)
    \/ CreateJob(f)
    \/ StartJob(f)
    \/ IndexFile(f)
    \/ WorkRaises(f)
    \/ \E call \in WorkerCalls : Answered(f, call) \/ TimesOut(f, call) \/ Refused(f, call)

Next ==
    \/ \E f \in Files : Upload(f) \/ Proceed(f)
    \/ \E f \in Files, call \in WorkerCalls : HandledLate(f, call) \/ LostLate(f, call)
    \/ Restart
    \/ Quiet

\* A task that is due runs, and every call is answered or times out.
Spec == Init /\ [][Next]_vars /\ \A f \in Files : WF_vars(Proceed(f))

----------------------------------------------------------------------------
\* Properties.

\* Rows, jobs, workers and calls stay in the values their code gives them; a job ends
\* "completed" or "failed", a row "ingested" or "failed".
TypeOK ==
    /\ row \in [Files -> {"absent", "pending"} \cup Updates]
    /\ enqueue \in [Files -> {"none", "due", "over"}]
    /\ job \in [Files -> {"none", "pending", "processing", "completed", "failed"}]
    /\ worker \in [Files -> {"none"} \cup Running \cup Ended]
    /\ calls \subseteq Call
    /\ indexed \in [Files -> Nat]

\* A file whose row says "ingested" has its chunks in the index, whatever timed out or
\* arrived late on the way.
IngestedIsSearchable ==
    \A f \in Files : row[f] = "ingested" => indexed[f] > 0

\* index_chunks appends to the BM25 corpus, so it must not run twice for a file: no
\* failure and no restart makes a job run again.
IndexedAtMostOnce ==
    \A f \in Files : indexed[f] <= 1

\* When a worker has reported and was heard, the job and the row tell the same: a
\* completed job has an ingested file; under a failed one a late "ingested" is possible.
JobTellsTheTruth ==
    \A f \in Files : worker[f] = "done" =>
        /\ job[f] = "completed" => row[f] = "ingested"
        /\ job[f] = "failed" => row[f] \in {"failed", "ingested"}

\* A row never goes back: not to "pending", and not from an outcome to "processing",
\* although updates the worker gave up on are still applied later.
StatusMovesForward ==
    [][\A f \in Files :
          /\ row[f] # "absent" => row'[f] \in Updates \cup {row[f]}
          /\ row[f] \in {"ingested", "failed"} => row'[f] \in {"ingested", "failed"}]_vars

\* A job the ingestion service has accepted ends, one way or the other.
EveryJobEnds ==
    \A f \in Files : worker[f] = "queued" ~> worker[f] \in Ended

\* ADR-006 lets the UI poll until the status is ingested or failed: every uploaded
\* file gets there.
PollEnds ==
    \A f \in Files : row[f] = "pending" ~> row[f] \in {"ingested", "failed"}
=============================================================================
