-------------------------- MODULE IngestionProofs ---------------------------
(***************************************************************************)
(* Proofs about an uploaded file, for any set of files: first the life of  *)
(* its row and its job, then the index its chunks are written to.          *)
(*                                                                         *)
(* In the first part each file has services of its own to talk to, so the  *)
(* invariant is one formula per file: it says which calls of that file can *)
(* still be under way, given where its worker is, and what they have done. *)
(*                                                                         *)
(* In the second part any number of calls share one store.  Nothing        *)
(* serialises them, so its invariant says what holds until two of them     *)
(* overlap in one of the ways the model marks, and what holds anyway.      *)
(***************************************************************************)
EXTENDS Ingestion, RetrievalIndex, FiniteSetTheorems, TLAPS

UnderWay(f, call) == <<f, call>> \in calls

\* A job is created once: the request is sent when the task is over, and it is gone
\* before there is a worker.
CreatedOnce(f) ==
    /\ row[f] = "absent" => enqueue[f] = "none"
    /\ enqueue[f] # "over" => worker[f] = "none" /\ ~UnderWay(f, "create")
    /\ UnderWay(f, "create") => worker[f] = "none"
    /\ worker[f] \in {"none", "queued"} =>
          /\ row[f] \in {"absent", "pending"}
          /\ \A call \in WorkerCalls : ~UnderWay(f, call)

\* The chunks are sent once, and the row is told "ingested" only after they arrived.
ChunksSentOnce(f) ==
    /\ worker[f] \in {"none", "queued", "processing", "working"} =>
          indexed[f] = 0 /\ ~UnderWay(f, "index")
    /\ UnderWay(f, "index") => indexed[f] = 0
    /\ indexed[f] <= 1
    /\ row[f] = "ingested" \/ UnderWay(f, "ingested") => indexed[f] > 0

\* The update to "processing" is the worker's first call: while it is under way, even
\* late, no outcome has been reported.
ProcessingFirst(f) ==
    UnderWay(f, "processing") =>
        /\ worker[f] \in {"processing", "dead"}
        /\ row[f] \notin {"ingested", "failed"}
        /\ ~UnderWay(f, "ingested")
        /\ ~UnderWay(f, "failed")

\* The job's outcome is the one the worker is reporting, or has reported.
JobReported(f) ==
    /\ UnderWay(f, "failed") => worker[f] \in {"failed", "dead"}
    /\ worker[f] = "ingested" => job[f] = "completed"
    /\ worker[f] = "failed" => job[f] = "failed"
    /\ job[f] = "completed" =>
          /\ worker[f] \in {"ingested", "done"}
          /\ worker[f] = "done" => row[f] = "ingested"
    /\ job[f] = "failed" =>
          /\ worker[f] \in {"failed", "done", "dead"}
          /\ worker[f] = "done" => row[f] \in {"failed", "ingested"}

FileInv(f) == CreatedOnce(f) /\ ChunksSentOnce(f) /\ ProcessingFirst(f) /\ JobReported(f)

IInv == TypeOK /\ \A f \in Files : FileInv(f)

-----------------------------------------------------------------------------
\* Types.

\* Every step keeps rows, jobs, workers and calls in their values.
LEMMA TypeStep == TypeOK /\ [Next]_vars => TypeOK'
<1> SUFFICES ASSUME TypeOK, [Next]_vars PROVE TypeOK'
  OBVIOUS
<1> USE DEF TypeOK, Call, WorkerCalls, Updates, Running, Ended
<1>1. ASSUME NEW f \in Files, Upload(f) PROVE TypeOK'
  BY <1>1 DEF Upload
<1>2. ASSUME NEW f \in Files, Enqueue(f) PROVE TypeOK'
  BY <1>2 DEF Enqueue
<1>3. ASSUME NEW f \in Files, EnqueueLost(f) PROVE TypeOK'
  BY <1>3 DEF EnqueueLost
<1>4. ASSUME NEW f \in Files, CreateJob(f) PROVE TypeOK'
  BY <1>4 DEF CreateJob
<1>5. ASSUME NEW f \in Files, StartJob(f) PROVE TypeOK'
  BY <1>5 DEF StartJob, Ask
<1>6. ASSUME NEW f \in Files, IndexFile(f) PROVE TypeOK'
  BY <1>6 DEF IndexFile, Ask
<1>7. ASSUME NEW f \in Files, WorkRaises(f) PROVE TypeOK'
  BY <1>7 DEF WorkRaises, Raise, Ask
<1>8. ASSUME NEW f \in Files, NEW call \in WorkerCalls, Answered(f, call) PROVE TypeOK'
  <2>1. row' \in [Files -> {"absent", "pending"} \cup Updates]
        /\ indexed' \in [Files -> Nat]
    BY <1>8 DEF Answered, Handle
  <2>2. job' \in [Files -> {"none", "pending", "processing", "completed", "failed"}]
    BY <1>8 DEF Answered, Ask
  <2>3. worker' \in [Files -> {"none"} \cup Running \cup Ended]
    BY <1>8 DEF Answered, Ask
  <2>4. calls' \subseteq Call /\ UNCHANGED enqueue
    BY <1>8 DEF Answered, Ask
  <2> QED
    BY <2>1, <2>2, <2>3, <2>4
<1>9. ASSUME NEW f \in Files, NEW call \in WorkerCalls, TimesOut(f, call) PROVE TypeOK'
  BY <1>9 DEF TimesOut, Raise, Ask
<1>10. ASSUME NEW f \in Files, NEW call \in WorkerCalls, Refused(f, call) PROVE TypeOK'
  BY <1>10 DEF Refused, Raise, Ask
<1>11. ASSUME NEW f \in Files, NEW call \in WorkerCalls, HandledLate(f, call) PROVE TypeOK'
  BY <1>11 DEF HandledLate, Handle
<1>12. ASSUME NEW f \in Files, NEW call \in WorkerCalls, LostLate(f, call) PROVE TypeOK'
  BY <1>12 DEF LostLate
<1>13. CASE Restart
  BY <1>13 DEF Restart
<1>14. CASE UNCHANGED vars
  BY <1>14 DEF vars
<1> QED
  BY <1>1, <1>2, <1>3, <1>4, <1>5, <1>6, <1>7, <1>8, <1>9, <1>10, <1>11, <1>12, <1>13,
     <1>14 DEF Next, Proceed, Quiet

-----------------------------------------------------------------------------
\* The invariant of one file, step by step.

Same(g) ==
    /\ row'[g] = row[g]
    /\ enqueue'[g] = enqueue[g]
    /\ job'[g] = job[g]
    /\ worker'[g] = worker[g]
    /\ indexed'[g] = indexed[g]
    /\ \A call \in WorkerCalls \cup {"create"} : <<g, call>> \in calls' <=> <<g, call>> \in calls

\* A step that leaves a file and its calls alone keeps the file's invariant.
LEMMA OtherFile == ASSUME NEW g \in Files, FileInv(g), Same(g) PROVE FileInv(g)'
  BY DEF FileInv, Same, CreatedOnce, ChunksSentOnce, ProcessingFirst, JobReported, UnderWay,
         WorkerCalls, Updates

\* A step that concerns one file keeps the invariant of all when it keeps that one's.
LEMMA OneFile ==
  ASSUME \A g \in Files : FileInv(g), NEW f \in Files, FileInv(f)',
         \A g \in Files : g # f => Same(g)
  PROVE  \A g \in Files : FileInv(g)'
  BY OtherFile

\* An upload starts a file without a job.
LEMMA UploadStep ==
  ASSUME TypeOK, \A g \in Files : FileInv(g), NEW f \in Files, Upload(f)
  PROVE  \A g \in Files : FileInv(g)'
<1> USE DEF TypeOK, UnderWay, Call, WorkerCalls, Updates, Running, Ended
<1>1. FileInv(f)
  OBVIOUS
<1>2. CreatedOnce(f)'
  BY <1>1 DEF FileInv, CreatedOnce, Upload
<1>3. ChunksSentOnce(f)'
  BY <1>1 DEF FileInv, CreatedOnce, ChunksSentOnce, Upload
<1>4. ProcessingFirst(f)'
  BY <1>1 DEF FileInv, CreatedOnce, ProcessingFirst, JobReported, Upload
<1>5. JobReported(f)'
  BY <1>1 DEF FileInv, CreatedOnce, ProcessingFirst, JobReported, Upload
<1>6. FileInv(f)'
  BY <1>2, <1>3, <1>4, <1>5 DEF FileInv
<1>7. \A g \in Files : g # f => Same(g)
  BY DEF Same, Upload
<1> QED
  BY <1>6, <1>7, OneFile

\* The request to create a job is sent while there is no worker.
LEMMA EnqueueStep ==
  ASSUME TypeOK, \A g \in Files : FileInv(g), NEW f \in Files, Enqueue(f)
  PROVE  \A g \in Files : FileInv(g)'
<1> USE DEF TypeOK, UnderWay, Call, WorkerCalls, Updates, Running, Ended
<1>1. FileInv(f)
  OBVIOUS
<1>2. CreatedOnce(f)'
  BY <1>1 DEF FileInv, CreatedOnce, Enqueue
<1>3. ChunksSentOnce(f)'
  BY <1>1 DEF FileInv, CreatedOnce, ChunksSentOnce, Enqueue
<1>4. ProcessingFirst(f)'
  BY <1>1 DEF FileInv, CreatedOnce, ProcessingFirst, JobReported, Enqueue
<1>5. JobReported(f)'
  BY <1>1 DEF FileInv, CreatedOnce, ProcessingFirst, JobReported, Enqueue
<1>6. FileInv(f)'
  BY <1>2, <1>3, <1>4, <1>5 DEF FileInv
<1>7. \A g \in Files : g # f => Same(g)
  BY DEF Same, Enqueue
<1> QED
  BY <1>6, <1>7, OneFile

\* A lost request leaves no trace but the task that is over.
LEMMA EnqueueLostStep ==
  ASSUME TypeOK, \A g \in Files : FileInv(g), NEW f \in Files, EnqueueLost(f)
  PROVE  \A g \in Files : FileInv(g)'
<1> USE DEF TypeOK, UnderWay, Call, WorkerCalls, Updates, Running, Ended
<1>1. FileInv(f)
  OBVIOUS
<1>2. CreatedOnce(f)'
  BY <1>1 DEF FileInv, CreatedOnce, EnqueueLost
<1>3. ChunksSentOnce(f)'
  BY <1>1 DEF FileInv, CreatedOnce, ChunksSentOnce, EnqueueLost
<1>4. ProcessingFirst(f)'
  BY <1>1 DEF FileInv, CreatedOnce, ProcessingFirst, JobReported, EnqueueLost
<1>5. JobReported(f)'
  BY <1>1 DEF FileInv, CreatedOnce, ProcessingFirst, JobReported, EnqueueLost
<1>6. FileInv(f)'
  BY <1>2, <1>3, <1>4, <1>5 DEF FileInv
<1>7. \A g \in Files : g # f => Same(g)
  BY DEF Same, EnqueueLost
<1> QED
  BY <1>6, <1>7, OneFile

\* The job is created from the only request there is.
LEMMA CreateJobStep ==
  ASSUME TypeOK, \A g \in Files : FileInv(g), NEW f \in Files, CreateJob(f)
  PROVE  \A g \in Files : FileInv(g)'
<1> USE DEF TypeOK, UnderWay, Call, WorkerCalls, Updates, Running, Ended
<1>1. FileInv(f)
  OBVIOUS
<1>2. CreatedOnce(f)'
  BY <1>1 DEF FileInv, CreatedOnce, CreateJob
<1>3. ChunksSentOnce(f)'
  BY <1>1 DEF FileInv, CreatedOnce, ChunksSentOnce, CreateJob
<1>4. ProcessingFirst(f)'
  BY <1>1 DEF FileInv, CreatedOnce, ProcessingFirst, JobReported, CreateJob
<1>5. JobReported(f)'
  BY <1>1 DEF FileInv, CreatedOnce, ProcessingFirst, JobReported, CreateJob
<1>6. FileInv(f)'
  BY <1>2, <1>3, <1>4, <1>5 DEF FileInv
<1>7. \A g \in Files : g # f => Same(g)
  BY DEF Same, CreateJob
<1> QED
  BY <1>6, <1>7, OneFile

\* The worker's first call finds nothing else under way.
LEMMA StartJobStep ==
  ASSUME TypeOK, \A g \in Files : FileInv(g), NEW f \in Files, StartJob(f)
  PROVE  \A g \in Files : FileInv(g)'
<1> USE DEF TypeOK, UnderWay, Call, WorkerCalls, Updates, Running, Ended
<1>1. FileInv(f)
  OBVIOUS
<1>2. CreatedOnce(f)'
  BY <1>1 DEF FileInv, CreatedOnce, StartJob, Ask
<1>3. ChunksSentOnce(f)'
  BY <1>1 DEF FileInv, CreatedOnce, ChunksSentOnce, StartJob, Ask
<1>4. ProcessingFirst(f)'
  BY <1>1 DEF FileInv, CreatedOnce, ProcessingFirst, JobReported, StartJob, Ask
<1>5. JobReported(f)'
  BY <1>1 DEF FileInv, CreatedOnce, ProcessingFirst, JobReported, StartJob, Ask
<1>6. FileInv(f)'
  BY <1>2, <1>3, <1>4, <1>5 DEF FileInv
<1>7. \A g \in Files : g # f => Same(g)
  BY DEF Same, StartJob, Ask
<1> QED
  BY <1>6, <1>7, OneFile

\* The chunks are sent once.
LEMMA IndexFileStep ==
  ASSUME TypeOK, \A g \in Files : FileInv(g), NEW f \in Files, IndexFile(f)
  PROVE  \A g \in Files : FileInv(g)'
<1> USE DEF TypeOK, UnderWay, Call, WorkerCalls, Updates, Running, Ended
<1>1. FileInv(f)
  OBVIOUS
<1>2. CreatedOnce(f)'
  BY <1>1 DEF FileInv, CreatedOnce, IndexFile, Ask
<1>3. ChunksSentOnce(f)'
  BY <1>1 DEF FileInv, CreatedOnce, ChunksSentOnce, IndexFile, Ask
<1>4. ProcessingFirst(f)'
  BY <1>1 DEF FileInv, CreatedOnce, ProcessingFirst, JobReported, IndexFile, Ask
<1>5. JobReported(f)'
  BY <1>1 DEF FileInv, CreatedOnce, ProcessingFirst, JobReported, IndexFile, Ask
<1>6. FileInv(f)'
  BY <1>2, <1>3, <1>4, <1>5 DEF FileInv
<1>7. \A g \in Files : g # f => Same(g)
  BY DEF Same, IndexFile, Ask
<1> QED
  BY <1>6, <1>7, OneFile

\* An exception that leaves the calls under way, or drops one, fails the job or kills
\* the worker.
LEMMA RaiseStep ==
  ASSUME TypeOK, \A g \in Files : FileInv(g), NEW f \in Files, NEW others \in SUBSET calls,
         worker[f] \in {"working"} \cup WorkerCalls,
         Raise(f, others),
         UNCHANGED <<row, enqueue, indexed>>,
         \A g \in Files : g # f =>
             \A c \in WorkerCalls \cup {"create"} : <<g, c>> \in calls => <<g, c>> \in others
  PROVE  \A g \in Files : FileInv(g)'
<1> USE DEF TypeOK, UnderWay
<1>1. FileInv(f)
  OBVIOUS
<1>2. CASE worker[f] \in {"processing", "failed"}
  <2>1. worker'[f] = "dead" /\ job' = job /\ calls' = others
    BY <1>2 DEF Raise
  <2>2. FileInv(f)'
    BY <1>1, <1>2, <2>1
    DEF FileInv, CreatedOnce, ChunksSentOnce, ProcessingFirst, JobReported, WorkerCalls, Updates
  <2>3. \A g \in Files : g # f => Same(g)
    BY <1>2 DEF Same, Raise
  <2> QED
    BY <2>2, <2>3, OneFile
<1>3. CASE worker[f] \notin {"processing", "failed"}
  <2>1. worker'[f] = "failed" /\ job'[f] = "failed"
    BY <1>3 DEF Raise, Ask
  <2>2. /\ ~UnderWay(f, "create")' /\ ~UnderWay(f, "processing")'
        /\ \A c \in {"index", "ingested"} : UnderWay(f, c)' => UnderWay(f, c)
    <3>1. worker[f] \notin {"none", "queued", "dead"}
      BY DEF WorkerCalls, Updates
    <3>2. ~UnderWay(f, "create") /\ ~UnderWay(f, "processing")
      BY <1>1, <1>3, <3>1 DEF FileInv, CreatedOnce, ProcessingFirst
    <3>3. calls' = others \cup {<<f, "failed">>}
      BY <1>3 DEF Raise, Ask
    <3> QED
      BY <3>2, <3>3
  <2>3. FileInv(f)'
    BY <1>1, <1>3, <2>1, <2>2
    DEF FileInv, CreatedOnce, ChunksSentOnce, ProcessingFirst, JobReported, WorkerCalls, Updates
  <2>4. \A g \in Files : g # f => Same(g)
    BY <1>3 DEF Same, Raise, Ask
  <2> QED
    BY <2>3, <2>4, OneFile
<1> QED
  BY <1>2, <1>3

\* An exception before the chunks are sent.
LEMMA WorkRaisesStep ==
  ASSUME TypeOK, \A g \in Files : FileInv(g), NEW f \in Files, WorkRaises(f)
  PROVE  \A g \in Files : FileInv(g)'
  BY RaiseStep DEF WorkRaises

\* A timeout leaves the call under way.
LEMMA TimesOutStep ==
  ASSUME TypeOK, \A g \in Files : FileInv(g), NEW f \in Files, NEW call \in WorkerCalls,
         TimesOut(f, call)
  PROVE  \A g \in Files : FileInv(g)'
  BY RaiseStep DEF TimesOut

\* An answer finds the worker waiting; its call has been handled and is gone.
LEMMA AnsweredStep ==
  ASSUME TypeOK, \A g \in Files : FileInv(g), NEW f \in Files, NEW call \in WorkerCalls,
         Answered(f, call)
  PROVE  \A g \in Files : FileInv(g)'
<1> USE DEF TypeOK, UnderWay
<1>1. FileInv(f) /\ worker[f] = call /\ UnderWay(f, call) /\ UNCHANGED enqueue
  BY DEF Answered
<1>2. CASE call = "index"
  <2>1. /\ worker'[f] = "ingested" /\ job'[f] = "completed"
        /\ row' = row /\ indexed'[f] = indexed[f] + 1
    BY <1>2 DEF Answered, Handle, Ask, Updates
  <2>2. calls' = (calls \ {<<f, "index">>}) \cup {<<f, "ingested">>}
    BY <1>2 DEF Answered, Ask
  <2>3. FileInv(f)'
    BY <1>1, <1>2, <2>1, <2>2
    DEF FileInv, CreatedOnce, ChunksSentOnce, ProcessingFirst, JobReported, WorkerCalls, Updates
  <2> QED
    <3>1. \A g \in Files : g # f => Same(g)
      BY <1>1, <1>2, <2>2 DEF Same, Answered, Handle, Ask, Updates
    <3> QED
      BY <2>3, <3>1, OneFile
<1>3. CASE call \in Updates
  <2>1. /\ worker'[f] = IF call = "processing" THEN "working" ELSE "done"
        /\ row'[f] = call /\ indexed' = indexed /\ job' = job
        /\ calls' = calls \ {<<f, call>>}
    BY <1>3 DEF Answered, Handle, Updates
  <2>2. FileInv(f)'
    BY <1>1, <1>3, <2>1
    DEF FileInv, CreatedOnce, ChunksSentOnce, ProcessingFirst, JobReported, WorkerCalls, Updates
  <2>3. \A g \in Files : g # f => Same(g)
    BY <1>1, <1>3, <2>1 DEF Same, Answered, Handle, Updates
  <2> QED
    BY <2>2, <2>3, OneFile
<1> QED
  BY <1>2, <1>3 DEF WorkerCalls

\* A refused call fails the job or kills the worker and is gone.
LEMMA RefusedStep ==
  ASSUME TypeOK, \A g \in Files : FileInv(g), NEW f \in Files, NEW call \in WorkerCalls, Refused(f, call)
  PROVE  \A g \in Files : FileInv(g)'
<1> DEFINE others == calls \ {<<f, call>>}
<1>1. /\ others \in SUBSET calls
      /\ worker[f] \in {"working"} \cup WorkerCalls
      /\ Raise(f, others)
      /\ UNCHANGED <<row, enqueue, indexed>>
  BY DEF Refused, WorkerCalls, Updates
<1>2. \A g \in Files : g # f =>
         \A c \in WorkerCalls \cup {"create"} : <<g, c>> \in calls => <<g, c>> \in others
  OBVIOUS
<1> HIDE DEF others
<1> QED
  BY <1>1, <1>2, RaiseStep

\* A call handled late does not contradict what was reported.
LEMMA HandledLateStep ==
  ASSUME TypeOK, \A g \in Files : FileInv(g), NEW f \in Files, NEW call \in WorkerCalls, HandledLate(f, call)
  PROVE  \A g \in Files : FileInv(g)'
<1> USE DEF TypeOK, UnderWay, Call, WorkerCalls, Updates, Running, Ended
<1>1. FileInv(f)
  OBVIOUS
<1>2. CreatedOnce(f)'
  BY <1>1 DEF FileInv, CreatedOnce, HandledLate, Handle
<1>3. ChunksSentOnce(f)'
  <2>1. CASE call = "index"
    BY <1>1, <2>1 DEF FileInv, CreatedOnce, ChunksSentOnce, HandledLate, Handle
  <2>2. CASE call \in Updates
    BY <1>1, <2>2 DEF FileInv, CreatedOnce, ChunksSentOnce, HandledLate, Handle
  <2> QED
    BY <2>1, <2>2
<1>4. ProcessingFirst(f)'
  BY <1>1 DEF FileInv, CreatedOnce, ProcessingFirst, JobReported, HandledLate, Handle
<1>5. JobReported(f)'
  BY <1>1 DEF FileInv, CreatedOnce, ProcessingFirst, JobReported, HandledLate, Handle
<1>6. FileInv(f)'
  BY <1>2, <1>3, <1>4, <1>5 DEF FileInv
<1>7. \A g \in Files : g # f => Same(g)
  BY DEF Same, HandledLate, Handle
<1> QED
  BY <1>6, <1>7, OneFile

\* A lost call changes nothing but that it is gone.
LEMMA LostLateStep ==
  ASSUME TypeOK, \A g \in Files : FileInv(g), NEW f \in Files, NEW call \in WorkerCalls, LostLate(f, call)
  PROVE  \A g \in Files : FileInv(g)'
<1> USE DEF TypeOK, UnderWay, Call, WorkerCalls, Updates, Running, Ended
<1>1. FileInv(f)
  OBVIOUS
<1>2. CreatedOnce(f)'
  BY <1>1 DEF FileInv, CreatedOnce, LostLate
<1>3. ChunksSentOnce(f)'
  BY <1>1 DEF FileInv, CreatedOnce, ChunksSentOnce, LostLate
<1>4. ProcessingFirst(f)'
  BY <1>1 DEF FileInv, CreatedOnce, ProcessingFirst, JobReported, LostLate
<1>5. JobReported(f)'
  BY <1>1 DEF FileInv, CreatedOnce, ProcessingFirst, JobReported, LostLate
<1>6. FileInv(f)'
  BY <1>2, <1>3, <1>4, <1>5 DEF FileInv
<1>7. \A g \in Files : g # f => Same(g)
  BY DEF Same, LostLate
<1> QED
  BY <1>6, <1>7, OneFile

\* A restart kills the workers and forgets the jobs, and with them the requests that
\* had not been handled; the workers' own calls stay under way.
LEMMA RestartStep ==
  ASSUME TypeOK, \A g \in Files : FileInv(g), Restart
  PROVE  \A g \in Files : FileInv(g)'
<1> SUFFICES ASSUME NEW g \in Files PROVE FileInv(g)'
  OBVIOUS
<1> USE DEF TypeOK, UnderWay, Call, WorkerCalls, Updates, Running, Ended, Restart
<1>1. FileInv(g)
  OBVIOUS
<1>2. job'[g] = "none" /\ UNCHANGED <<row, enqueue, indexed>>
  OBVIOUS
<1>3. worker'[g] = IF worker[g] \in Running THEN "dead" ELSE worker[g]
  OBVIOUS
<1>4. \A call \in WorkerCalls : <<g, call>> \in calls' <=> <<g, call>> \in calls
  OBVIOUS
<1>5. <<g, "create">> \notin calls'
  OBVIOUS
<1> QED
  BY <1>1, <1>2, <1>3, <1>4, <1>5
  DEF FileInv, CreatedOnce, ChunksSentOnce, ProcessingFirst, JobReported

-----------------------------------------------------------------------------
\* The invariant of the system.

\* Before the first upload there is nothing to contradict.
LEMMA IInvInit == Init => IInv
  BY DEF Init, IInv, TypeOK, FileInv, CreatedOnce, ChunksSentOnce, ProcessingFirst,
         JobReported, UnderWay, Call, WorkerCalls, Updates, Running, Ended

\* Every step of the three services keeps the invariant.
LEMMA IInvStep == IInv /\ [Next]_vars => IInv'
<1> SUFFICES ASSUME TypeOK, \A g \in Files : FileInv(g), [Next]_vars
             PROVE  TypeOK' /\ \A g \in Files : FileInv(g)'
  BY DEF IInv
<1>1. TypeOK'
  BY TypeStep
<1>2. ASSUME NEW f \in Files, Upload(f) \/ Proceed(f) PROVE \A g \in Files : FileInv(g)'
  BY <1>2, UploadStep, EnqueueStep, EnqueueLostStep, CreateJobStep, StartJobStep,
     IndexFileStep, WorkRaisesStep, AnsweredStep, TimesOutStep, RefusedStep DEF Proceed
<1>3. ASSUME NEW f \in Files, NEW call \in WorkerCalls, HandledLate(f, call) \/ LostLate(f, call)
      PROVE \A g \in Files : FileInv(g)'
  BY <1>3, HandledLateStep, LostLateStep
<1>4. ASSUME Restart PROVE \A g \in Files : FileInv(g)'
  BY <1>4, RestartStep
<1>5. ASSUME UNCHANGED vars PROVE \A g \in Files : FileInv(g)'
  BY <1>5, OtherFile DEF vars, Same
<1>6. \A g \in Files : FileInv(g)'
  BY <1>2, <1>3, <1>4, <1>5 DEF Next, Quiet
<1> QED
  BY <1>1, <1>6

\* The calls under way, the workers and what was reported fit together in every state.
THEOREM IngestionInvariant == Spec => []IInv
  BY IInvInit, IInvStep, PTL DEF Spec

\* Rows, jobs, workers and calls stay in the values their code gives them.
THEOREM IngestionTypes == Spec => []TypeOK
<1>1. IInv => TypeOK
  BY DEF IInv
<1> QED
  BY <1>1, IngestionInvariant, PTL

\* A file whose row says "ingested" has its chunks in the index.
THEOREM SearchableWhenIngested == Spec => []IngestedIsSearchable
<1>1. IInv => IngestedIsSearchable
  BY DEF IInv, FileInv, ChunksSentOnce, IngestedIsSearchable
<1> QED
  BY <1>1, IngestionInvariant, PTL

\* No timeout, late call or restart has a file's chunks indexed twice.
THEOREM IndexedOnce == Spec => []IndexedAtMostOnce
<1>1. IInv => IndexedAtMostOnce
  BY DEF IInv, FileInv, ChunksSentOnce, IndexedAtMostOnce
<1> QED
  BY <1>1, IngestionInvariant, PTL

\* A worker that has been heard leaves job and row in agreement.
THEOREM JobsTruthful == Spec => []JobTellsTheTruth
<1>1. IInv => JobTellsTheTruth
  BY DEF IInv, FileInv, JobReported, JobTellsTheTruth
<1> QED
  BY <1>1, IngestionInvariant, PTL

\* A step never takes a row back: the only call that could, the update to "processing",
\* is never handled after an outcome.
LEMMA RowStep ==
  ASSUME IInv, [Next]_vars, NEW f \in Files
  PROVE  /\ row[f] # "absent" => row'[f] \in Updates \cup {row[f]}
         /\ row[f] \in {"ingested", "failed"} => row'[f] \in {"ingested", "failed"}
<1> USE DEF IInv, TypeOK, Updates
<1>1. ASSUME NEW g \in Files, Upload(g)
      PROVE row[f] = row'[f] \/ row[f] = "absent"
  BY <1>1 DEF Upload
<1>2. ASSUME NEW g \in Files, NEW call \in WorkerCalls, UnderWay(g, call), Handle(g, call)
      PROVE row'[f] = row[f] \/ (call \in Updates /\ row'[f] = call /\ g = f)
  BY <1>2 DEF Handle
<1>3. UnderWay(f, "processing") => row[f] \notin {"ingested", "failed"}
  BY DEF FileInv, ProcessingFirst
<1>4. ASSUME NEW g \in Files, NEW call \in WorkerCalls,
             Answered(g, call) \/ HandledLate(g, call)
      PROVE UnderWay(g, call) /\ Handle(g, call)
  BY <1>4 DEF Answered, HandledLate, UnderWay
<1>5. CASE UNCHANGED row
  BY <1>5
<1>6. CASE \E g \in Files, call \in WorkerCalls : Answered(g, call) \/ HandledLate(g, call)
  BY <1>2, <1>3, <1>4, <1>6
<1>7. CASE \E g \in Files : Upload(g)
  BY <1>1, <1>7
<1> QED
  BY <1>5, <1>6, <1>7 DEF Next, Proceed, Quiet, vars, Enqueue, EnqueueLost, CreateJob, StartJob,
     IndexFile, WorkRaises, TimesOut, Refused, LostLate, Restart

\* The status of a file only moves forward, late updates included.
THEOREM StatusForward == Spec => StatusMovesForward
<1> DEFINE Forward(f) ==
      /\ row[f] # "absent" => row'[f] \in Updates \cup {row[f]}
      /\ row[f] \in {"ingested", "failed"} => row'[f] \in {"ingested", "failed"}
<1>1. IInv /\ [Next]_vars => [\A f \in Files : Forward(f)]_vars
  BY RowStep
<1> QED
  BY <1>1, IngestionInvariant, PTL DEF Spec, StatusMovesForward

-----------------------------------------------------------------------------
(* The index of the retrieval service, with any number of calls at once *)

Clean == overlap # "lists"
Orderly == overlap = "harmless"

\* What RowsAligned says of rows, for any store.
Aligned(r) ==
    \A i \in DOMAIN r.corpus :
        /\ i \in DOMAIN r.ids => r.ids[i] = ChunkId(r.corpus[i])
        /\ i \in DOMAIN r.projects => r.projects[i] = r.corpus[i][1]
        /\ i \in DOMAIN r.metadatas => r.metadatas[i] = r.corpus[i]

\* How long the lists are, by where the call is that is between them, if one is.
Behind(pc, steps) == IF pc \in steps THEN 1 ELSE 0
Shape(r, pc) ==
    /\ Aligned(r)
    /\ Len(r.ids) + Behind(pc, {"ids"}) = Len(r.corpus)
    /\ Len(r.projects) + Behind(pc, {"ids", "projects"}) = Len(r.corpus)
    /\ Len(r.metadatas) + Behind(pc, Between) = Len(r.corpus)

Complete(r) == Shape(r, "idle")

\* A store has a row for u that the first n scores cover.
Stored(r, n, u) == \E i \in DOMAIN r.projects \cap DOMAIN r.corpus : i <= n /\ r.corpus[i] = u

\* What a call adds is a document of its project; a wipe is alone, and nothing of its
\* project is acknowledged.
CallInv ==
    \A t \in Threads :
        /\ thread[t].pc \in AddSteps =>
              thread[t].doc \in Uploads /\ thread[t].project = thread[t].doc[1]
        /\ thread[t].pc \in WipeSteps =>
              /\ thread[t].doc = NoDoc
              /\ \A o \in Threads \ {t} : Free(o)
              /\ \A u \in acked : u[1] # thread[t].project

\* The hits of a search are of its project, and so are the rows it has picked.
SearchInv ==
    Clean => \A t \in Threads :
        /\ \A hit \in thread[t].hits : hit[1] = thread[t].project
        /\ thread[t].pc \in {"score", "read"} =>
              \A i \in thread[t].picked :
                  i \in DOMAIN rows.projects /\ rows.projects[i] = thread[t].project

\* One call at most is between the lists, and they are whole but for its document; what
\* is pickled is whole.
ListsInv ==
    Clean =>
        /\ Complete(disk.rows) /\ Complete(tmp.rows)
        /\ \A t, o \in Threads : thread[t].pc \in Between /\ thread[o].pc \in Between => t = o
        /\ (\A t \in Threads : thread[t].pc \notin Between) => Complete(rows)
        /\ \A t \in Threads : thread[t].pc \in Between =>
              Shape(rows, thread[t].pc) /\ rows.corpus[Len(rows.corpus)] = thread[t].doc

\* The documents a save owes a row to: those acknowledged and its own.
Owed(t) == acked \cup ({thread[t].doc} \ {NoDoc})

\* Where the row of a document that is being added is found, step by step.
AdderInv(t) ==
    LET me == thread[t]
    IN  /\ me.pc \in {"metadatas", "tokenize"} => Stored(rows, Len(rows.corpus), me.doc)
        /\ me.pc = "rebuild" => Stored(rows, me.count, me.doc)
        /\ me.pc \in SaveSteps /\ me.doc # NoDoc => Stored(rows, scored, me.doc)

\* Where the rows that a save owes are found, step by step.
SaverInv(t) ==
    LET me == thread[t]
    IN  /\ me.pc = "dump" => me.handle = "tmp" /\ \A u \in Owed(t) : Stored(rows, me.count, u)
        /\ me.pc = "replace" => \A u \in Owed(t) : Stored(tmp.rows, tmp.scored, u)

DurableInv ==
    Orderly =>
        /\ \A u \in acked : Stored(rows, scored, u) /\ Stored(disk.rows, disk.scored, u)
        /\ \A t, o \in Threads :
              thread[t].pc \in {"dump", "replace"} /\ thread[o].pc \in {"dump", "replace"} =>
                  t = o
        /\ \A t \in Threads : AdderInv(t) /\ SaverInv(t)

\* A document whose call has gone past Qdrant is there, unless another one took its point.
InQdrant(u) == latest[ChunkId(u)] = u => dense[ChunkId(u)] = u
QdrantInv ==
    /\ AckedInQdrant
    /\ \A t \in Threads :
          thread[t].pc \in (AddSteps \ {"dense"}) \cup SaveSteps /\ thread[t].doc # NoDoc =>
              InQdrant(thread[t].doc)

IndexInv ==
    IndexTypeOK /\ CallInv /\ SearchInv /\ ListsInv /\ DurableInv /\ QdrantInv

-----------------------------------------------------------------------------
\* What wiping keeps.

\* The place of an element of a finite set of numbers among the others tells it from
\* them, and every place is taken: no two elements come after equally many.
LEMMA PlacesTaken ==
    ASSUME NEW L \in Nat, NEW keep \in SUBSET (1..L)
    PROVE  LET place(i) == Cardinality({j \in keep : j <= i})
           IN  /\ Cardinality(keep) \in 0..L
               /\ \A i \in keep : place(i) \in 1..Cardinality(keep)
               /\ \A i, k \in keep : place(i) = place(k) => i = k
               /\ \A n \in 1..Cardinality(keep) : \E i \in keep : place(i) = n
<1> DEFINE upto(i) == {j \in keep : j <= i}
           place == [i \in keep |-> Cardinality(upto(i))]
<1>1. IsFiniteSet(1..L) /\ Cardinality(1..L) = L
  BY FS_Interval
<1>2. IsFiniteSet(keep) /\ Cardinality(keep) \in 0..L
  <2>1. IsFiniteSet(keep) /\ Cardinality(keep) <= L
    BY <1>1, FS_Subset
  <2> QED  BY <2>1, FS_CardinalityType
<1>3. \A i : IsFiniteSet(upto(i)) /\ Cardinality(upto(i)) \in 0..Cardinality(keep)
  <2> TAKE i
  <2>1. upto(i) \in SUBSET keep
    OBVIOUS
  <2> HIDE DEF upto
  <2> QED  BY <2>1, <1>2, FS_Subset, FS_CardinalityType
<1>4. \A i \in keep : Cardinality(upto(i)) \in 1..Cardinality(keep)
  <2> TAKE i \in keep
  <2>1. i \in upto(i)
    OBVIOUS
  <2> HIDE DEF upto
  <2>2. Cardinality(upto(i)) # 0
    BY <2>1, <1>3, FS_EmptySet
  <2> QED  BY <2>2, <1>2, <1>3
<1>5. ASSUME NEW i \in keep, NEW k \in keep, i < k
      PROVE  Cardinality(upto(i)) # Cardinality(upto(k))
  <2>1. ASSUME NEW j \in upto(i) PROVE j \in upto(k)
    <3>1. j \in 1..L /\ i \in 1..L /\ k \in 1..L /\ j <= i /\ i < k
      BY <1>5
    <3> QED  BY <3>1
  <2>2. k \in upto(k) /\ k \notin upto(i)
    BY <1>5
  <2> HIDE DEF upto
  <2> QED  BY <2>1, <2>2, <1>3, FS_Subset
<1>6. \A i, k \in keep : Cardinality(upto(i)) = Cardinality(upto(k)) => i = k
  BY <1>5
<1>7. place \in Injection(keep, 1..Cardinality(keep))
  <2> HIDE DEF upto
  <2> QED  BY <1>4, <1>6 DEF Injection, IsInjective
<1>8. Cardinality(1..Cardinality(keep)) = Cardinality(keep)
      /\ IsFiniteSet(1..Cardinality(keep))
  BY <1>2, FS_Interval
<1>9. place \in Surjection(keep, 1..Cardinality(keep))
  <2> HIDE DEF place
  <2> QED  BY <1>7, <1>8, FS_Injection
<1>10. \A n \in 1..Cardinality(keep) : \E i \in keep : Cardinality(upto(i)) = n
  <2> HIDE DEF upto
  <2> QED  BY <1>9 DEF Surjection
<1> QED  BY <1>2, <1>4, <1>6, <1>10

\* Of every list, Kept takes the m entries that pick names: those of the rows of other
\* projects, all of them.
KeptBy(p, m, pick) ==
    /\ \A n \in 1..m : pick[n] \in DOMAIN rows.projects /\ rows.projects[pick[n]] # p
    /\ \A i \in DOMAIN rows.projects :
          rows.projects[i] # p => \E n \in 1..m : pick[n] = i
    /\ \A list : Kept(list, p) = [n \in 1..m |-> list[pick[n]]]

\* It takes the same entries from every list.
LEMMA KeptRows ==
    ASSUME NEW p, rows.projects \in Seq(Projects)
    PROVE  \E m \in 0..Len(rows.projects) : \E pick : KeptBy(p, m, pick)
<1> DEFINE keep == {i \in DOMAIN rows.projects : rows.projects[i] # p}
           place(i) == Cardinality({j \in keep : j <= i})
           nth(n) == CHOOSE i \in keep : place(i) = n
           m == Cardinality(keep)
           pick == [n \in 1..m |-> nth(n)]
<1>1. keep \in SUBSET (1..Len(rows.projects)) /\ Len(rows.projects) \in Nat
  OBVIOUS
<1>2. /\ m \in 0..Len(rows.projects)
      /\ \A i \in keep : place(i) \in 1..m
      /\ \A i, k \in keep : place(i) = place(k) => i = k
      /\ \A n \in 1..m : \E i \in keep : place(i) = n
  <2> HIDE DEF keep
  <2> QED  BY <1>1, PlacesTaken
<1>3. \A list : Kept(list, p) = [n \in 1..m |-> list[nth(n)]]
  BY DEF Kept, Keep
<1>4. \A n \in 1..m : nth(n) \in keep /\ place(nth(n)) = n
  <2> HIDE DEF keep, place, m
  <2> QED  BY <1>2
<1>5. \A i \in keep : place(i) \in 1..m /\ nth(place(i)) = i
  <2> HIDE DEF keep, place, m
  <2> QED  BY <1>2, <1>4
<1> HIDE DEF nth, m, place
<1>6. pick \in [1..m -> keep]
  BY <1>4
<1>7. \A i \in keep : \E n \in 1..m : pick[n] = i
  BY <1>5
<1>8. \A list : [n \in 1..m |-> list[nth(n)]] = [n \in 1..m |-> list[pick[n]]]
  OBVIOUS
<1>9. \A list : Kept(list, p) = [n \in 1..m |-> list[pick[n]]]
  <2> HIDE DEF pick
  <2> QED  BY <1>3, <1>8
<1> HIDE DEF pick
<1>10. \A i \in DOMAIN rows.projects :
         rows.projects[i] # p => \E n \in 1..m : pick[n] = i
  BY <1>7
<1>11. \A n \in 1..m : pick[n] \in DOMAIN rows.projects /\ rows.projects[pick[n]] # p
  BY <1>6
<1>12. KeptBy(p, m, pick)
  BY <1>9, <1>10, <1>11 DEF KeptBy
<1> QED  BY <1>2, <1>12


-----------------------------------------------------------------------------
\* Steps of one thread.

\* No document is the absent one.
LEMMA NoDocFacts ==
    /\ NoDoc \notin Uploads
    /\ \A p \in Projects : NoDoc[1] # p /\ Unset # p
    /\ \A u \in Uploads : u[1] \in Projects /\ ChunkId(u) \in Names
  BY ProjectsAssumption DEF Projects, Names, ChunkId

\* A thread between calls has a value for every local.
LEMMA IdleTyped == Idle \in ThreadType
<1>1. Global \in Projects
  BY DEF Projects
<1> QED  BY <1>1 DEF Idle, ThreadType, Steps

\* The record is another thread's but for the name its open file goes by.
Alike(old, new) ==
    /\ new.pc = old.pc /\ new.project = old.project /\ new.doc = old.doc
    /\ new.picked = old.picked /\ new.count = old.count /\ new.hits = old.hits

\* Thread t goes on as new; only a rename touches the others.
Moves(t, new) ==
    /\ new \in ThreadType
    /\ thread' \in [Threads -> ThreadType]
    /\ thread'[t] = new
    /\ \A o \in Threads \ {t} :
          /\ Alike(thread[o], thread'[o])
          /\ thread[t].pc # "replace" => thread'[o] = thread[o]

\* Indexing starts for a document.
LEMMA StartAddMoves ==
    ASSUME IndexTypeOK, NEW t \in Threads, NEW u \in Uploads, StartAdd(t, u)
    PROVE  Moves(t, [Idle EXCEPT !.pc = "dense", !.project = u[1], !.doc = u])
<1> DEFINE new == [Idle EXCEPT !.pc = "dense", !.project = u[1], !.doc = u]
<1>1. thread[t] \in ThreadType
  BY DEF IndexTypeOK
<1>2. new \in ThreadType
  BY <1>1, NoDocFacts, IdleTyped DEF ThreadType, Steps, AddSteps, SaveSteps, WipeSteps, SearchSteps, Doc, Idle
<1>3. thread' = [thread EXCEPT ![t] = new]
  BY <1>1 DEF IndexTypeOK, StartAdd
<1> HIDE DEF new
<1>4. Moves(t, new)
  BY <1>2, <1>3 DEF Moves, Alike, IndexTypeOK
<1> QED  BY <1>4 DEF new

\* The chunk is in Qdrant, or the call is over.
LEMMA AddDenseMoves ==
    ASSUME IndexTypeOK, NEW t \in Threads, AddDense(t)
    PROVE  Moves(t, [thread[t] EXCEPT !.pc = "corpus"])
<1> DEFINE new == [thread[t] EXCEPT !.pc = "corpus"]
<1>1. thread[t] \in ThreadType
  BY DEF IndexTypeOK
<1>2. new \in ThreadType
  BY <1>1 DEF ThreadType, Steps, AddSteps, SaveSteps, WipeSteps, SearchSteps
<1>3. thread' = [thread EXCEPT ![t] = new]
  BY <1>1 DEF IndexTypeOK, AddDense, Goto
<1> HIDE DEF new
<1>4. Moves(t, new)
  BY <1>2, <1>3 DEF Moves, Alike, IndexTypeOK
<1> QED  BY <1>4 DEF new

LEMMA DenseFailsMoves ==
    ASSUME IndexTypeOK, NEW t \in Threads, DenseFails(t)
    PROVE  Moves(t, Idle)
<1> DEFINE new == Idle
<1>1. thread[t] \in ThreadType
  BY DEF IndexTypeOK
<1>2. new \in ThreadType
  BY <1>1, IdleTyped DEF ThreadType, Steps, AddSteps, SaveSteps, WipeSteps, SearchSteps, Idle
<1>3. thread' = [thread EXCEPT ![t] = new]
  BY <1>1 DEF IndexTypeOK, DenseFails, End
<1> HIDE DEF new
<1>4. Moves(t, new)
  BY <1>2, <1>3 DEF Moves, Alike, IndexTypeOK
<1> QED  BY <1>4 DEF new

\* Rows are appended, counted and scored.
LEMMA ExtendMoves ==
    ASSUME IndexTypeOK, NEW t \in Threads, NEW step, NEW list, NEW value, NEW next \in AddSteps,
           Extend(t, step, list, value, next)
    PROVE  Moves(t, [thread[t] EXCEPT !.pc = next])
<1> DEFINE new == [thread[t] EXCEPT !.pc = next]
<1>1. thread[t] \in ThreadType
  BY DEF IndexTypeOK
<1>2. new \in ThreadType
  BY <1>1 DEF ThreadType, Steps, AddSteps, SaveSteps, WipeSteps, SearchSteps
<1>3. thread' = [thread EXCEPT ![t] = new]
  BY <1>1 DEF IndexTypeOK, Extend, Goto
<1> HIDE DEF new
<1>4. Moves(t, new)
  BY <1>2, <1>3 DEF Moves, Alike, IndexTypeOK
<1> QED  BY <1>4 DEF new

LEMMA TokenizeMoves ==
    ASSUME IndexTypeOK, NEW t \in Threads, Tokenize(t)
    PROVE  Moves(t, [thread[t] EXCEPT !.pc = "rebuild", !.count = Len(rows.corpus)])
<1> DEFINE new == [thread[t] EXCEPT !.pc = "rebuild", !.count = Len(rows.corpus)]
<1>1. thread[t] \in ThreadType
  BY DEF IndexTypeOK
<1>2. new \in ThreadType
  <2>1. Len(rows.corpus) \in Nat
    BY DEF IndexTypeOK, RowsType
  <2> QED  BY <1>1, <2>1 DEF ThreadType, Steps, AddSteps, SaveSteps, WipeSteps, SearchSteps
<1>3. thread' = [thread EXCEPT ![t] = new]
  BY <1>1 DEF IndexTypeOK, Tokenize
<1> HIDE DEF new
<1>4. Moves(t, new)
  BY <1>2, <1>3 DEF Moves, Alike, IndexTypeOK
<1> QED  BY <1>4 DEF new

LEMMA RebuildMoves ==
    ASSUME IndexTypeOK, NEW t \in Threads, Rebuild(t)
    PROVE  Moves(t, [thread[t] EXCEPT !.pc = "open"])
<1> DEFINE new == [thread[t] EXCEPT !.pc = "open"]
<1>1. thread[t] \in ThreadType
  BY DEF IndexTypeOK
<1>2. new \in ThreadType
  BY <1>1 DEF ThreadType, Steps, AddSteps, SaveSteps, WipeSteps, SearchSteps
<1>3. thread' = [thread EXCEPT ![t] = new]
  BY <1>1 DEF IndexTypeOK, Rebuild, Goto
<1> HIDE DEF new
<1>4. Moves(t, new)
  BY <1>2, <1>3 DEF Moves, Alike, IndexTypeOK
<1> QED  BY <1>4 DEF new

\* A save goes on, or ends.
LEMMA SaveOpenMoves ==
    ASSUME IndexTypeOK, NEW t \in Threads, SaveOpen(t)
    PROVE  Moves(t, [thread[t] EXCEPT !.pc = "dump", !.handle = "tmp", !.count = scored])
<1> DEFINE new == [thread[t] EXCEPT !.pc = "dump", !.handle = "tmp", !.count = scored]
<1>1. thread[t] \in ThreadType
  BY DEF IndexTypeOK
<1>2. new \in ThreadType
  <2>1. scored \in Nat
    BY DEF IndexTypeOK
  <2> QED  BY <1>1, <2>1 DEF ThreadType, Steps, AddSteps, SaveSteps, WipeSteps, SearchSteps
<1>3. thread' = [thread EXCEPT ![t] = new]
  BY <1>1 DEF IndexTypeOK, SaveOpen
<1> HIDE DEF new
<1>4. Moves(t, new)
  BY <1>2, <1>3 DEF Moves, Alike, IndexTypeOK
<1> QED  BY <1>4 DEF new

LEMMA SaveDumpMoves ==
    ASSUME IndexTypeOK, NEW t \in Threads, SaveDump(t)
    PROVE  Moves(t, [thread[t] EXCEPT !.pc = "replace"])
<1> DEFINE new == [thread[t] EXCEPT !.pc = "replace"]
<1>1. thread[t] \in ThreadType
  BY DEF IndexTypeOK
<1>2. new \in ThreadType
  BY <1>1 DEF ThreadType, Steps, AddSteps, SaveSteps, WipeSteps, SearchSteps
<1>3. thread' = [thread EXCEPT ![t] = new]
  BY <1>1 DEF IndexTypeOK, SaveDump, Goto
<1> HIDE DEF new
<1>4. Moves(t, new)
  BY <1>2, <1>3 DEF Moves, Alike, IndexTypeOK
<1> QED  BY <1>4 DEF new

LEMMA SaveFailsMoves ==
    ASSUME IndexTypeOK, NEW t \in Threads, SaveFails(t)
    PROVE  Moves(t, Idle)
<1> DEFINE new == Idle
<1>1. thread[t] \in ThreadType
  BY DEF IndexTypeOK
<1>2. new \in ThreadType
  BY <1>1, IdleTyped DEF ThreadType, Steps, AddSteps, SaveSteps, WipeSteps, SearchSteps, Idle
<1>3. thread' = [thread EXCEPT ![t] = new]
  BY <1>1 DEF IndexTypeOK, SaveFails, End
<1> HIDE DEF new
<1>4. Moves(t, new)
  BY <1>2, <1>3 DEF Moves, Alike, IndexTypeOK
<1> QED  BY <1>4 DEF new

\* A project is wiped.
LEMMA StartWipeMoves ==
    ASSUME IndexTypeOK, NEW t \in Threads, NEW p \in Projects, StartWipe(t, p)
    PROVE  Moves(t, [Idle EXCEPT !.pc = "wipe dense", !.project = p])
<1> DEFINE new == [Idle EXCEPT !.pc = "wipe dense", !.project = p]
<1>1. thread[t] \in ThreadType
  BY DEF IndexTypeOK
<1>2. new \in ThreadType
  BY <1>1, IdleTyped DEF ThreadType, Steps, AddSteps, SaveSteps, WipeSteps, SearchSteps, Idle
<1>3. thread' = [thread EXCEPT ![t] = new]
  BY <1>1 DEF IndexTypeOK, StartWipe
<1> HIDE DEF new
<1>4. Moves(t, new)
  BY <1>2, <1>3 DEF Moves, Alike, IndexTypeOK
<1> QED  BY <1>4 DEF new

LEMMA WipeDenseMoves ==
    ASSUME IndexTypeOK, NEW t \in Threads, WipeDense(t)
    PROVE  Moves(t, [thread[t] EXCEPT !.pc = "wipe rows"])
<1> DEFINE new == [thread[t] EXCEPT !.pc = "wipe rows"]
<1>1. thread[t] \in ThreadType
  BY DEF IndexTypeOK
<1>2. new \in ThreadType
  BY <1>1 DEF ThreadType, Steps, AddSteps, SaveSteps, WipeSteps, SearchSteps
<1>3. thread' = [thread EXCEPT ![t] = new]
  BY <1>1 DEF IndexTypeOK, WipeDense, Goto
<1> HIDE DEF new
<1>4. Moves(t, new)
  BY <1>2, <1>3 DEF Moves, Alike, IndexTypeOK
<1> QED  BY <1>4 DEF new

\* A search starts, and goes on.
LEMMA StartSearchMoves ==
    ASSUME IndexTypeOK, NEW t \in Threads, NEW p \in Projects, StartSearch(t, p)
    PROVE  Moves(t, [Idle EXCEPT !.pc = "query", !.project = p])
<1> DEFINE new == [Idle EXCEPT !.pc = "query", !.project = p]
<1>1. thread[t] \in ThreadType
  BY DEF IndexTypeOK
<1>2. new \in ThreadType
  BY <1>1, IdleTyped DEF ThreadType, Steps, AddSteps, SaveSteps, WipeSteps, SearchSteps, Idle
<1>3. thread' = [thread EXCEPT ![t] = new]
  BY <1>1 DEF IndexTypeOK, StartSearch
<1> HIDE DEF new
<1>4. Moves(t, new)
  BY <1>2, <1>3 DEF Moves, Alike, IndexTypeOK
<1> QED  BY <1>4 DEF new

LEMMA SearchDenseMoves ==
    ASSUME IndexTypeOK, NEW t \in Threads, SearchDense(t)
    PROVE  Moves(t, [thread[t] EXCEPT
                       !.pc = IF scored = 0 THEN "found" ELSE "scope",
                       !.hits = {dense[n] : n \in {m \in Names :
                                                    dense[m][1] = thread[t].project}}])
<1> DEFINE new == [thread[t] EXCEPT
                       !.pc = IF scored = 0 THEN "found" ELSE "scope",
                       !.hits = {dense[n] : n \in {m \in Names :
                                                    dense[m][1] = thread[t].project}}]
<1>1. thread[t] \in ThreadType
  BY DEF IndexTypeOK
<1>2. new \in ThreadType
  <2> DEFINE found == {dense[n] : n \in {m \in Names : dense[m][1] = thread[t].project}}
  <2>1. found \in SUBSET Doc
    BY <1>1, NoDocFacts DEF IndexTypeOK, ThreadType
  <2> HIDE DEF found
  <2>2. [thread[t] EXCEPT !.pc = IF scored = 0 THEN "found" ELSE "scope",
                          !.hits = found] \in ThreadType
    BY <1>1, <2>1 DEF ThreadType, Steps, AddSteps, SaveSteps, WipeSteps, SearchSteps
  <2> QED  BY <2>2 DEF found
<1>3. thread' = [thread EXCEPT ![t] = new]
  BY <1>1 DEF IndexTypeOK, SearchDense
<1> HIDE DEF new
<1>4. Moves(t, new)
  BY <1>2, <1>3 DEF Moves, Alike, IndexTypeOK
<1> QED  BY <1>4 DEF new

LEMMA SearchScopeMoves ==
    ASSUME IndexTypeOK, NEW t \in Threads, SearchScope(t)
    PROVE  Moves(t, [thread[t] EXCEPT
                       !.picked = ScopedIndices(thread[t].project),
                       !.pc = IF ScopedIndices(thread[t].project) = {} THEN "found" ELSE "score"])
<1> DEFINE new == [thread[t] EXCEPT
                       !.picked = ScopedIndices(thread[t].project),
                       !.pc = IF ScopedIndices(thread[t].project) = {} THEN "found" ELSE "score"]
<1>1. thread[t] \in ThreadType
  BY DEF IndexTypeOK
<1>2. new \in ThreadType
  <2> DEFINE picked == ScopedIndices(thread[t].project)
  <2>1. picked \in SUBSET Nat
    BY DEF ScopedIndices, IndexTypeOK, RowsType
  <2> HIDE DEF picked
  <2>2. [thread[t] EXCEPT !.picked = picked,
                          !.pc = IF picked = {} THEN "found" ELSE "score"] \in ThreadType
    BY <1>1, <2>1 DEF ThreadType, Steps, AddSteps, SaveSteps, WipeSteps, SearchSteps
  <2> QED  BY <2>2 DEF picked
<1>3. thread' = [thread EXCEPT ![t] = new]
  BY <1>1 DEF IndexTypeOK, SearchScope
<1> HIDE DEF new
<1>4. Moves(t, new)
  BY <1>2, <1>3 DEF Moves, Alike, IndexTypeOK
<1> QED  BY <1>4 DEF new

\* The file is moved into place, which renames what others have open, or is not there.
LEMMA SaveReplaceMoves ==
    ASSUME IndexTypeOK, NEW t \in Threads, SaveReplace(t)
    PROVE  Moves(t, Idle)
<1>1. \A o \in Threads : thread[o] \in ThreadType
  BY DEF IndexTypeOK
<1>2. CASE tmp.state = "absent"
  <2>1. thread' = [thread EXCEPT ![t] = Idle]
    BY <1>2 DEF SaveReplace, End
  <2> QED  BY <1>1, <2>1, IdleTyped DEF Moves, Alike, IndexTypeOK
<1>3. CASE tmp.state # "absent"
  <2>1. thread' = [o \in Threads |-> IF o = t THEN Idle ELSE Renamed(thread[o])]
    BY <1>3 DEF SaveReplace
  <2>2. ASSUME NEW th \in ThreadType PROVE Renamed(th) \in ThreadType /\ Alike(th, Renamed(th))
    <3>1. PICK name \in {"none", "tmp", "disk", "gone"} : Renamed(th) = [th EXCEPT !.handle = name]
      BY DEF Renamed, ThreadType
    <3> QED  BY <3>1 DEF ThreadType, Alike
  <2>3. \A o \in Threads : Renamed(thread[o]) \in ThreadType /\ Alike(thread[o], Renamed(thread[o]))
    BY <1>1, <2>2
  <2>4. thread' \in [Threads -> ThreadType] /\ thread'[t] = Idle
    BY <2>1, <2>3, IdleTyped
  <2>5. \A o \in Threads \ {t} : Alike(thread[o], thread'[o])
    BY <2>1, <2>3
  <2>6. thread[t].pc = "replace"
    BY DEF SaveReplace, At
  <2> QED  BY <2>4, <2>5, <2>6, IdleTyped DEF Moves
<1> QED  BY <1>2, <1>3

LEMMA WipeRowsMoves ==
    ASSUME IndexTypeOK, NEW t \in Threads, WipeRows(t)
    PROVE  Moves(t, [thread[t] EXCEPT !.pc = "open"]) \/ Moves(t, Idle)
<1> DEFINE new == [thread[t] EXCEPT !.pc = "open"]
<1>1. thread[t] \in ThreadType
  BY DEF IndexTypeOK
<1>2. new \in ThreadType
  BY <1>1 DEF ThreadType, Steps, AddSteps, SaveSteps, WipeSteps, SearchSteps
<1>3. thread' = [thread EXCEPT ![t] = new] \/ thread' = [thread EXCEPT ![t] = Idle]
  BY <1>1 DEF IndexTypeOK, WipeRows, Goto, End
<1> HIDE DEF new
<1>4. Moves(t, new) \/ Moves(t, Idle)
  BY <1>2, <1>3, IdleTyped DEF Moves, Alike, IndexTypeOK
<1> QED  BY <1>4 DEF new

LEMMA SearchScoreMoves ==
    ASSUME IndexTypeOK, NEW t \in Threads, SearchScore(t)
    PROVE  Moves(t, [thread[t] EXCEPT !.pc = "read"]) \/ Moves(t, Idle)
<1> DEFINE new == [thread[t] EXCEPT !.pc = "read"]
<1>1. thread[t] \in ThreadType
  BY DEF IndexTypeOK
<1>2. new \in ThreadType
  BY <1>1 DEF ThreadType, Steps, AddSteps, SaveSteps, WipeSteps, SearchSteps
<1>3. thread' = [thread EXCEPT ![t] = new] \/ thread' = [thread EXCEPT ![t] = Idle]
  BY <1>1 DEF IndexTypeOK, SearchScore, Goto, End
<1> HIDE DEF new
<1>4. Moves(t, new) \/ Moves(t, Idle)
  BY <1>2, <1>3, IdleTyped DEF Moves, Alike, IndexTypeOK
<1> QED  BY <1>4 DEF new

\* What a search reads of the rows it has picked.
Read(t) ==
    [thread[t] EXCEPT !.pc = "found", !.picked = {},
                      !.hits = @ \cup {rows.corpus[i] : i \in thread[t].picked}]

LEMMA SearchReadMoves ==
    ASSUME IndexTypeOK, NEW t \in Threads, SearchRead(t)
    PROVE  \/ Moves(t, Idle)
           \/ thread[t].picked \subseteq DOMAIN rows.corpus /\ Moves(t, Read(t))
<1>1. thread[t] \in ThreadType
  BY DEF IndexTypeOK
<1> DEFINE there == thread[t].picked \subseteq DOMAIN rows.metadatas \cap DOMAIN rows.ids
                                                 \cap DOMAIN rows.corpus
<1>2. CASE there
  <2>1. thread' = [thread EXCEPT ![t] = Read(t)]
    BY <1>1, <1>2 DEF IndexTypeOK, SearchRead, Read
  <2> DEFINE found == thread[t].hits \cup {rows.corpus[i] : i \in thread[t].picked}
  <2>2. found \in SUBSET Doc
    BY <1>1, <1>2 DEF IndexTypeOK, RowsType, ThreadType
  <2>3. Read(t) = [thread[t] EXCEPT !.pc = "found", !.picked = {}, !.hits = found]
    BY DEF Read
  <2> HIDE DEF found
  <2>4. Read(t) \in ThreadType
    BY <1>1, <2>2, <2>3 DEF ThreadType, Steps
  <2>5. Moves(t, Read(t))
    BY <2>1, <2>4 DEF Moves, Alike, IndexTypeOK
  <2> QED  BY <1>2, <2>5
<1>3. CASE ~there
  <2>1. thread' = [thread EXCEPT ![t] = Idle]
    BY <1>3 DEF SearchRead, End
  <2> QED  BY <2>1, IdleTyped DEF Moves, Alike, IndexTypeOK
<1> QED  BY <1>2, <1>3

-----------------------------------------------------------------------------
\* Rows are only added, but by a wipe and a restart.
RowsGrow ==
    /\ Len(rows.corpus) <= Len(rows'.corpus)
    /\ \A i \in DOMAIN rows.corpus :
          i \in DOMAIN rows'.corpus /\ rows'.corpus[i] = rows.corpus[i]
    /\ \A i \in DOMAIN rows.projects :
          i \in DOMAIN rows'.projects /\ rows'.projects[i] = rows.projects[i]

LEMMA SameRowsGrow == ASSUME IndexTypeOK, rows' = rows PROVE RowsGrow
<1>1. Len(rows.corpus) \in Nat
  BY DEF IndexTypeOK, RowsType
<1> QED  BY <1>1 DEF RowsGrow

\* Each of the four lists in turn.
LEMMA AddRowsExtends ==
    ASSUME IndexTypeOK, CallInv, NEW t \in Threads, AddRows(t)
    PROVE  /\ RowsGrow /\ rows' \in RowsType
           /\ OverlapLists(OtherAt(t, Between \cup {"dump"}))
           /\ UNCHANGED <<dense, scored, disk, tmp, acked, latest>>
           /\ \E next \in {"ids", "projects", "metadatas", "tokenize"} :
                 Moves(t, [thread[t] EXCEPT !.pc = next])
           /\ thread[t].pc \in {"corpus", "ids", "projects", "metadatas"}
<1> DEFINE me == thread[t]
<1>1. me \in ThreadType /\ rows \in RowsType
  BY DEF IndexTypeOK
<1>2. me.doc \in Doc /\ me.project \in Projects /\ ChunkId(me.doc) \in Names
  <2>1. me.pc \in AddSteps
    BY DEF AddRows, Extend, At, AddSteps
  <2> QED  BY <1>1, <2>1, NoDocFacts DEF CallInv, Doc, ThreadType
<1>3. ASSUME NEW seq, NEW S, seq \in Seq(S), NEW value \in S
      PROVE  /\ Append(seq, value) \in Seq(S)
             /\ Len(seq) \in Nat /\ Len(Append(seq, value)) = Len(seq) + 1
             /\ \A i \in DOMAIN seq : i \in DOMAIN Append(seq, value)
                                      /\ Append(seq, value)[i] = seq[i]
  BY <1>3
<1>4. CASE Extend(t, "corpus", "corpus", me.doc, "ids")
  <2>1. rows' = [rows EXCEPT !.corpus = Append(rows.corpus, me.doc)]
    BY <1>4 DEF Extend
  <2>2. /\ rows.corpus \in Seq(Doc)
        /\ rows'.corpus = Append(rows.corpus, me.doc)
        /\ rows'.ids = rows.ids /\ rows'.projects = rows.projects /\ rows'.metadatas = rows.metadatas
    BY <1>1, <2>1 DEF RowsType
  <2>3. Append(rows.corpus, me.doc) \in Seq(Doc)
    BY <1>2, <2>2
  <2>4. rows' \in RowsType
    BY <1>1, <2>1, <2>3 DEF RowsType
  <2>5. RowsGrow
    <3>1. rows.corpus \in Seq(Doc) /\ rows.projects \in Seq(Projects) /\ Len(rows.corpus) \in Nat
      BY <1>1 DEF RowsType
    <3> QED  BY <1>2, <1>3, <2>2, <3>1 DEF RowsGrow
  <2>6. Moves(t, [thread[t] EXCEPT !.pc = "ids"])
    BY <1>4, ExtendMoves DEF AddSteps
  <2> QED  BY <1>4, <2>4, <2>5, <2>6 DEF Extend, At
<1>5. CASE Extend(t, "ids", "ids", ChunkId(me.doc), "projects")
  <2>1. rows' = [rows EXCEPT !.ids = Append(rows.ids, ChunkId(me.doc))]
    BY <1>5 DEF Extend
  <2>2. /\ rows.ids \in Seq(Names)
        /\ rows'.ids = Append(rows.ids, ChunkId(me.doc))
        /\ rows'.corpus = rows.corpus /\ rows'.projects = rows.projects /\ rows'.metadatas = rows.metadatas
    BY <1>1, <2>1 DEF RowsType
  <2>3. Append(rows.ids, ChunkId(me.doc)) \in Seq(Names)
    BY <1>2, <2>2
  <2>4. rows' \in RowsType
    BY <1>1, <2>1, <2>3 DEF RowsType
  <2>5. RowsGrow
    <3>1. rows.corpus \in Seq(Doc) /\ rows.projects \in Seq(Projects) /\ Len(rows.corpus) \in Nat
      BY <1>1 DEF RowsType
    <3> QED  BY <1>2, <1>3, <2>2, <3>1 DEF RowsGrow
  <2>6. Moves(t, [thread[t] EXCEPT !.pc = "projects"])
    BY <1>5, ExtendMoves DEF AddSteps
  <2> QED  BY <1>5, <2>4, <2>5, <2>6 DEF Extend, At
<1>6. CASE Extend(t, "projects", "projects", me.project, "metadatas")
  <2>1. rows' = [rows EXCEPT !.projects = Append(rows.projects, me.project)]
    BY <1>6 DEF Extend
  <2>2. /\ rows.projects \in Seq(Projects)
        /\ rows'.projects = Append(rows.projects, me.project)
        /\ rows'.corpus = rows.corpus /\ rows'.ids = rows.ids /\ rows'.metadatas = rows.metadatas
    BY <1>1, <2>1 DEF RowsType
  <2>3. Append(rows.projects, me.project) \in Seq(Projects)
    BY <1>2, <2>2
  <2>4. rows' \in RowsType
    BY <1>1, <2>1, <2>3 DEF RowsType
  <2>5. RowsGrow
    <3>1. rows.corpus \in Seq(Doc) /\ rows.projects \in Seq(Projects) /\ Len(rows.corpus) \in Nat
      BY <1>1 DEF RowsType
    <3> QED  BY <1>2, <1>3, <2>2, <3>1 DEF RowsGrow
  <2>6. Moves(t, [thread[t] EXCEPT !.pc = "metadatas"])
    BY <1>6, ExtendMoves DEF AddSteps
  <2> QED  BY <1>6, <2>4, <2>5, <2>6 DEF Extend, At
<1>7. CASE Extend(t, "metadatas", "metadatas", me.doc, "tokenize")
  <2>1. rows' = [rows EXCEPT !.metadatas = Append(rows.metadatas, me.doc)]
    BY <1>7 DEF Extend
  <2>2. /\ rows.metadatas \in Seq(Doc)
        /\ rows'.metadatas = Append(rows.metadatas, me.doc)
        /\ rows'.corpus = rows.corpus /\ rows'.ids = rows.ids /\ rows'.projects = rows.projects
    BY <1>1, <2>1 DEF RowsType
  <2>3. Append(rows.metadatas, me.doc) \in Seq(Doc)
    BY <1>2, <2>2
  <2>4. rows' \in RowsType
    BY <1>1, <2>1, <2>3 DEF RowsType
  <2>5. RowsGrow
    <3>1. rows.corpus \in Seq(Doc) /\ rows.projects \in Seq(Projects) /\ Len(rows.corpus) \in Nat
      BY <1>1 DEF RowsType
    <3> QED  BY <1>2, <1>3, <2>2, <3>1 DEF RowsGrow
  <2>6. Moves(t, [thread[t] EXCEPT !.pc = "tokenize"])
    BY <1>7, ExtendMoves DEF AddSteps
  <2> QED  BY <1>7, <2>4, <2>5, <2>6 DEF Extend, At
<1> QED  BY <1>4, <1>5, <1>6, <1>7 DEF AddRows

\* A wipe of complete lists goes through and leaves complete lists, of the other rows.
LEMMA WipedLists ==
    ASSUME IndexTypeOK, NEW t \in Threads, WipeRows(t)
    PROVE  /\ rows' \in RowsType /\ scored' \in Nat
           /\ Complete(rows) =>
                 /\ Complete(rows')
                 /\ \A u : u[1] # thread[t].project /\ Stored(rows, scored, u) =>
                              Stored(rows', scored', u)
<1> DEFINE p == thread[t].project
<1>1. /\ rows \in RowsType /\ scored \in Nat
      /\ \A name \in {"corpus", "ids", "projects", "metadatas"} : Len(rows[name]) \in Nat
  BY DEF IndexTypeOK, RowsType
<1>2. rows.projects \in Seq(Projects)
  BY <1>1 DEF RowsType
<1>3. PICK m \in 0..Len(rows.projects) : \E pick : KeptBy(p, m, pick)
  BY <1>2, KeptRows
<1>4. PICK pick : KeptBy(p, m, pick)
  BY <1>3
<1>5. m \in Nat
  BY <1>1, <1>3
<1>6. ASSUME NEW S, NEW list \in Seq(S), Keep(p) \subseteq DOMAIN list
      PROVE  /\ Kept(list, p) \in Seq(S) /\ Len(Kept(list, p)) = m
             /\ DOMAIN Kept(list, p) = 1..m
             /\ \A n \in 1..m : pick[n] \in DOMAIN list /\ Kept(list, p)[n] = list[pick[n]]
  <2>1. Kept(list, p) = [n \in 1..m |-> list[pick[n]]]
    BY <1>4 DEF KeptBy
  <2>2. \A n \in 1..m : pick[n] \in DOMAIN list
    BY <1>4, <1>6 DEF KeptBy, Keep
  <2> HIDE DEF p
  <2>3. \A n \in 1..m : list[pick[n]] \in S
    BY <2>2
  <2> QED  BY <1>5, <2>1, <2>2, <2>3
<1>7. Keep(p) \subseteq DOMAIN rows.projects
  BY DEF Keep
<1> DEFINE has(list) == Keep(p) \subseteq DOMAIN list
           some == has(rows.corpus)
           most == some /\ has(rows.ids)
           all == most /\ has(rows.metadatas)
<1>8. CASE Keep(p) = DOMAIN rows.projects
  <2>1. rows' = rows /\ scored' = scored
    BY <1>8 DEF WipeRows
  <2> QED  BY <1>1, <2>1
<1>9. CASE Keep(p) # DOMAIN rows.projects
  <2>1. /\ rows' = [corpus |-> IF some THEN Kept(rows.corpus, p) ELSE rows.corpus,
                    ids |-> IF most THEN Kept(rows.ids, p) ELSE rows.ids,
                    projects |-> IF most THEN Kept(rows.projects, p) ELSE rows.projects,
                    metadatas |-> IF all THEN Kept(rows.metadatas, p) ELSE rows.metadatas]
        /\ scored' = IF all THEN Cardinality(Keep(p)) ELSE scored
    BY <1>9 DEF WipeRows
  <2>2. Cardinality(Keep(p)) = m
    <3>1. Kept(rows.projects, p) = [n \in 1..m |-> rows.projects[pick[n]]]
      BY <1>4 DEF KeptBy
    <3>2. Kept(rows.projects, p) =
            [n \in 1..Cardinality(Keep(p)) |->
               rows.projects[CHOOSE i \in Keep(p) : Cardinality({j \in Keep(p) : j <= i}) = n]]
      BY DEF Kept
    <3>3. 1..m = 1..Cardinality(Keep(p))
      <4> HIDE DEF p
      <4> QED  BY <3>1, <3>2
    <3>4. Cardinality(Keep(p)) \in Nat
      <4>1. Keep(p) \in SUBSET (1..Len(rows.projects))
        BY <1>2 DEF Keep
      <4>2. Len(rows.projects) \in Nat
        BY <1>2
      <4>3. Cardinality(Keep(p)) \in 0..Len(rows.projects)
        BY <4>1, <4>2, PlacesTaken
      <4> QED  BY <4>2, <4>3
    <3> QED  BY <3>3, <3>4, <1>5
  <2> HIDE DEF p
  <2>3. some => /\ Kept(rows.corpus, p) \in Seq(Doc) /\ Len(Kept(rows.corpus, p)) = m
                /\ DOMAIN Kept(rows.corpus, p) = 1..m
                /\ \A n \in 1..m : Kept(rows.corpus, p)[n] = rows.corpus[pick[n]]
    BY <1>1, <1>6 DEF RowsType
  <2>4. has(rows.ids) =>
                /\ Kept(rows.ids, p) \in Seq(Names) /\ Len(Kept(rows.ids, p)) = m
                /\ DOMAIN Kept(rows.ids, p) = 1..m
                /\ \A n \in 1..m : Kept(rows.ids, p)[n] = rows.ids[pick[n]]
    BY <1>1, <1>6 DEF RowsType
  <2>5. /\ Kept(rows.projects, p) \in Seq(Projects) /\ Len(Kept(rows.projects, p)) = m
        /\ DOMAIN Kept(rows.projects, p) = 1..m
        /\ \A n \in 1..m : Kept(rows.projects, p)[n] = rows.projects[pick[n]]
                           /\ pick[n] \in DOMAIN rows.projects
    BY <1>2, <1>6, <1>7
  <2>6. has(rows.metadatas) =>
                /\ Kept(rows.metadatas, p) \in Seq(Doc) /\ Len(Kept(rows.metadatas, p)) = m
                /\ DOMAIN Kept(rows.metadatas, p) = 1..m
                /\ \A n \in 1..m : Kept(rows.metadatas, p)[n] = rows.metadatas[pick[n]]
    BY <1>1, <1>6 DEF RowsType
  <2>7. rows' \in RowsType
    <3>1. (IF some THEN Kept(rows.corpus, p) ELSE rows.corpus) \in Seq(Doc)
      BY <1>1, <2>3 DEF RowsType
    <3>2. (IF most THEN Kept(rows.ids, p) ELSE rows.ids) \in Seq(Names)
      BY <1>1, <2>4 DEF RowsType
    <3>3. (IF most THEN Kept(rows.projects, p) ELSE rows.projects) \in Seq(Projects)
      BY <1>2, <2>5
    <3>4. (IF all THEN Kept(rows.metadatas, p) ELSE rows.metadatas) \in Seq(Doc)
      BY <1>1, <2>6 DEF RowsType
    <3> HIDE DEF some, most, all
    <3> QED  BY <2>1, <3>1, <3>2, <3>3, <3>4 DEF RowsType
  <2>8. scored' \in Nat
    BY <1>1, <1>5, <2>1, <2>2
  <2>9. ASSUME Complete(rows)
        PROVE  /\ Complete(rows')
               /\ \A u : u[1] # p /\ Stored(rows, scored, u) => Stored(rows', scored', u)
    <3>1. /\ DOMAIN rows.corpus = DOMAIN rows.projects /\ DOMAIN rows.ids = DOMAIN rows.projects
          /\ DOMAIN rows.metadatas = DOMAIN rows.projects
          /\ \A i \in DOMAIN rows.projects :
                /\ rows.ids[i] = ChunkId(rows.corpus[i])
                /\ rows.projects[i] = rows.corpus[i][1]
                /\ rows.metadatas[i] = rows.corpus[i]
      <4>1. /\ Len(rows.corpus) = Len(rows.projects) /\ Len(rows.ids) = Len(rows.projects)
            /\ Len(rows.metadatas) = Len(rows.projects)
        BY <1>1, <2>9 DEF Complete, Shape, Behind, Between
      <4>2. /\ DOMAIN rows.corpus = 1..Len(rows.corpus) /\ DOMAIN rows.ids = 1..Len(rows.ids)
            /\ DOMAIN rows.projects = 1..Len(rows.projects)
            /\ DOMAIN rows.metadatas = 1..Len(rows.metadatas)
        BY <1>1 DEF RowsType
      <4> QED  BY <2>9, <4>1, <4>2 DEF Complete, Shape, Aligned
    <3>2. some /\ most /\ all
      BY <1>7, <3>1
    <3>3. /\ rows'.corpus = Kept(rows.corpus, p) /\ rows'.ids = Kept(rows.ids, p)
          /\ rows'.projects = Kept(rows.projects, p)
          /\ rows'.metadatas = Kept(rows.metadatas, p) /\ scored' = m
      <4> HIDE DEF some, most, all
      <4> QED  BY <2>1, <2>2, <3>2
    <3>4. Aligned(rows')
      BY <2>3, <2>4, <2>5, <2>6, <3>1, <3>2, <3>3 DEF Aligned
    <3>5. Complete(rows')
      BY <1>5, <2>3, <2>4, <2>5, <2>6, <3>2, <3>3, <3>4 DEF Complete, Shape, Behind, Between
    <3>6. ASSUME NEW u, u[1] # p, Stored(rows, scored, u) PROVE Stored(rows', scored', u)
      <4>1. PICK i \in DOMAIN rows.projects : rows.corpus[i] = u
        BY <3>6 DEF Stored
      <4>2. rows.projects[i] # p
        BY <3>1, <3>6, <4>1
      <4>3. PICK n \in 1..m : pick[n] = i
        BY <1>4, <4>1, <4>2 DEF KeptBy
      <4>4. n \in DOMAIN rows'.projects \cap DOMAIN rows'.corpus /\ n <= scored'
        BY <1>5, <2>3, <2>5, <3>2, <3>3
      <4>5. rows'.corpus[n] = u
        BY <2>3, <3>2, <3>3, <4>1, <4>3
      <4> QED  BY <4>4, <4>5 DEF Stored
    <3> QED  BY <3>5, <3>6
  <2> QED  BY <2>7, <2>8, <2>9 DEF p
<1> QED  BY <1>8, <1>9

-----------------------------------------------------------------------------
\* Every action in turn, for each part of the invariant.

\* The marks an overlap leaves are never taken back.
LEMMA OverlapStays ==
    ASSUME IndexTypeOK, [IndexNext]_indexVars
    PROVE  (Clean' => Clean) /\ (Orderly' => Orderly) /\ (Orderly => Clean)
           /\ overlap' \in {"harmless", "saves", "lists"}
<1>1. overlap \in {"harmless", "saves", "lists"}
  BY DEF IndexTypeOK
<1>2. overlap' \in {overlap, "lists"} \/ (overlap' = "saves" /\ overlap # "lists")
  BY DEF IndexNext, indexVars, ghosts, StartAdd, AddDense, DenseFails, AddRows, Extend, Tokenize,
         Rebuild, SaveOpen, SaveDump, SaveReplace, SaveFails, StartWipe, WipeDense, WipeRows,
         StartSearch, SearchDense, SearchScope, SearchScore, SearchRead, ServiceRestart,
         OverlapLists, OverlapSaves
<1> QED  BY <1>1, <1>2 DEF Clean, Orderly

\* Thread t goes from one step to another of its call, or its call is over.
Goes(t, from, to) ==
    /\ Moves(t, thread'[t])
    /\ thread[t].pc = from /\ thread'[t].pc = to
    /\ thread'[t].project = thread[t].project
    /\ thread'[t].doc = thread[t].doc
    /\ thread'[t].hits = thread[t].hits

Ends(t) == Moves(t, thread'[t]) /\ thread'[t] = Idle

\* A call begins.
Starts(t, step, project, doc) ==
    /\ Moves(t, thread'[t])
    /\ Free(t)
    /\ thread'[t].pc = step /\ thread'[t].project = project /\ thread'[t].doc = doc
    /\ thread'[t].hits = {}

\* A thread between calls has nothing in hand.
LEMMA IdleFields ==
    Idle.pc = "idle" /\ Idle.project = Global /\ Idle.doc = NoDoc /\ Idle.hits = {}
  BY DEF Idle

\* Where each action takes its thread.
LEMMA WriterSteps ==
    ASSUME IndexTypeOK, NEW t \in Threads
    PROVE  /\ \A u \in Uploads : StartAdd(t, u) => Starts(t, "dense", u[1], u)
           /\ AddDense(t) => Goes(t, "dense", "corpus")
           /\ DenseFails(t) => Ends(t) /\ thread[t].pc \in {"dense", "wipe dense"}
           /\ Tokenize(t) => /\ Goes(t, "tokenize", "rebuild")
                             /\ thread'[t].count = Len(rows.corpus)
           /\ Rebuild(t) => Goes(t, "rebuild", "open")
           /\ SaveOpen(t) => /\ Goes(t, "open", "dump")
                             /\ thread'[t].handle = "tmp" /\ thread'[t].count = scored
           /\ SaveDump(t) => Goes(t, "dump", "replace")
           /\ SaveReplace(t) => Ends(t) /\ thread[t].pc = "replace"
           /\ SaveFails(t) => Ends(t) /\ thread[t].pc \in SaveSteps
<1>1. thread[t] \in ThreadType
  BY DEF IndexTypeOK
<1>2. ASSUME NEW u \in Uploads, StartAdd(t, u) PROVE Starts(t, "dense", u[1], u)
  <2> DEFINE new == [Idle EXCEPT !.pc = "dense", !.project = u[1], !.doc = u]
  <2>1. Moves(t, new) /\ Free(t)
    BY <1>2, StartAddMoves DEF StartAdd
  <2>2. new.pc = "dense" /\ new.project = u[1] /\ new.doc = u /\ new.hits = {}
    BY DEF Idle
  <2> HIDE DEF new
  <2> QED  BY <2>1, <2>2 DEF Starts, Moves
<1>3. ASSUME AddDense(t) PROVE Goes(t, "dense", "corpus")
  BY <1>1, <1>3, AddDenseMoves DEF Goes, Moves, ThreadType, AddDense, At
<1>4. ASSUME DenseFails(t) PROVE Ends(t) /\ thread[t].pc \in {"dense", "wipe dense"}
  BY <1>4, DenseFailsMoves DEF Ends, Moves, DenseFails
<1>5. ASSUME Tokenize(t)
      PROVE  Goes(t, "tokenize", "rebuild") /\ thread'[t].count = Len(rows.corpus)
  BY <1>1, <1>5, TokenizeMoves DEF Goes, Moves, ThreadType, Tokenize, At
<1>6. ASSUME Rebuild(t) PROVE Goes(t, "rebuild", "open")
  BY <1>1, <1>6, RebuildMoves DEF Goes, Moves, ThreadType, Rebuild, At
<1>7. ASSUME SaveOpen(t)
      PROVE  Goes(t, "open", "dump") /\ thread'[t].handle = "tmp" /\ thread'[t].count = scored
  BY <1>1, <1>7, SaveOpenMoves DEF Goes, Moves, ThreadType, SaveOpen, At
<1>8. ASSUME SaveDump(t) PROVE Goes(t, "dump", "replace")
  BY <1>1, <1>8, SaveDumpMoves DEF Goes, Moves, ThreadType, SaveDump, At
<1>9. ASSUME SaveReplace(t) PROVE Ends(t) /\ thread[t].pc = "replace"
  BY <1>9, SaveReplaceMoves DEF Ends, Moves, SaveReplace, At
<1>10. ASSUME SaveFails(t) PROVE Ends(t) /\ thread[t].pc \in SaveSteps
  BY <1>10, SaveFailsMoves DEF Ends, Moves, SaveFails
<1> QED  BY <1>2, <1>3, <1>4, <1>5, <1>6, <1>7, <1>8, <1>9, <1>10

LEMMA OtherSteps ==
    ASSUME IndexTypeOK, NEW t \in Threads
    PROVE  /\ \A p \in Projects : StartWipe(t, p) => Starts(t, "wipe dense", p, NoDoc)
           /\ WipeDense(t) => Goes(t, "wipe dense", "wipe rows")
           /\ WipeRows(t) => /\ Goes(t, "wipe rows", "open") \/ Ends(t)
                             /\ thread[t].pc = "wipe rows"
           /\ \A p \in Projects : StartSearch(t, p) => Starts(t, "query", p, NoDoc)
           /\ SearchDense(t) =>
                 /\ Moves(t, thread'[t])
                 /\ thread[t].pc = "query" /\ thread'[t].pc \in {"found", "scope"}
                 /\ thread'[t].project = thread[t].project
                 /\ thread'[t].hits =
                       {dense[n] : n \in {m \in Names : dense[m][1] = thread[t].project}}
           /\ SearchScope(t) =>
                 /\ Goes(t, "scope", "found") \/ Goes(t, "scope", "score")
                 /\ thread'[t].picked = ScopedIndices(thread[t].project)
                 /\ thread'[t].picked = {} => thread'[t].pc = "found"
           /\ SearchScore(t) =>
                 /\ thread[t].pc = "score"
                 /\ \/ Goes(t, "score", "read") /\ thread'[t].picked = thread[t].picked
                    \/ Ends(t)
           /\ SearchRead(t) =>
                 /\ thread[t].pc = "read"
                 /\ \/ Ends(t)
                    \/ /\ Moves(t, thread'[t]) /\ thread'[t].pc = "found"
                       /\ thread'[t].project = thread[t].project
                       /\ thread[t].picked \subseteq DOMAIN rows.corpus
                       /\ thread'[t].hits =
                             thread[t].hits \cup {rows.corpus[i] : i \in thread[t].picked}
<1>1. thread[t] \in ThreadType
  BY DEF IndexTypeOK
<1>2. ASSUME NEW p \in Projects, StartWipe(t, p) PROVE Starts(t, "wipe dense", p, NoDoc)
  <2> DEFINE new == [Idle EXCEPT !.pc = "wipe dense", !.project = p]
  <2>1. \A o \in Threads : Free(o)
    BY <1>2 DEF StartWipe
  <2>2. Moves(t, new) /\ Free(t)
    BY <1>2, <2>1, StartWipeMoves
  <2>3. new.pc = "wipe dense" /\ new.project = p /\ new.doc = NoDoc /\ new.hits = {}
    BY DEF Idle
  <2> HIDE DEF new
  <2> QED  BY <2>2, <2>3 DEF Starts, Moves
<1>3. ASSUME WipeDense(t) PROVE Goes(t, "wipe dense", "wipe rows")
  BY <1>1, <1>3, WipeDenseMoves DEF Goes, Moves, ThreadType, WipeDense, At
<1>4. ASSUME WipeRows(t)
      PROVE  (Goes(t, "wipe rows", "open") \/ Ends(t)) /\ thread[t].pc = "wipe rows"
  <2>1. thread[t].pc = "wipe rows"
    BY <1>4 DEF WipeRows, At
  <2> QED  BY <1>1, <1>4, <2>1, WipeRowsMoves DEF Goes, Ends, Moves, ThreadType
<1>5. ASSUME NEW p \in Projects, StartSearch(t, p) PROVE Starts(t, "query", p, NoDoc)
  <2> DEFINE new == [Idle EXCEPT !.pc = "query", !.project = p]
  <2>1. Moves(t, new) /\ Free(t)
    BY <1>5, StartSearchMoves DEF StartSearch
  <2>2. new.pc = "query" /\ new.project = p /\ new.doc = NoDoc /\ new.hits = {}
    BY DEF Idle
  <2> HIDE DEF new
  <2> QED  BY <2>1, <2>2 DEF Starts, Moves
<1>6. ASSUME SearchDense(t)
      PROVE  /\ Moves(t, thread'[t])
             /\ thread[t].pc = "query" /\ thread'[t].pc \in {"found", "scope"}
             /\ thread'[t].project = thread[t].project
             /\ thread'[t].hits =
                   {dense[n] : n \in {m \in Names : dense[m][1] = thread[t].project}}
  <2> DEFINE found == {dense[n] : n \in {m \in Names : dense[m][1] = thread[t].project}}
             new == [thread[t] EXCEPT !.pc = IF scored = 0 THEN "found" ELSE "scope",
                                      !.hits = found]
  <2>1. Moves(t, new)
    BY <1>6, SearchDenseMoves
  <2>2. thread'[t] = new /\ Moves(t, thread'[t])
    <3> HIDE DEF new
    <3> QED  BY <2>1 DEF Moves
  <2>3. thread[t].pc = "query"
    BY <1>6 DEF SearchDense, At
  <2> HIDE DEF found
  <2> QED  BY <1>1, <2>2, <2>3 DEF ThreadType, found
<1>7. ASSUME SearchScope(t)
      PROVE  /\ Goes(t, "scope", "found") \/ Goes(t, "scope", "score")
             /\ thread'[t].picked = ScopedIndices(thread[t].project)
             /\ thread'[t].picked = {} => thread'[t].pc = "found"
  <2> DEFINE picked == ScopedIndices(thread[t].project)
             new == [thread[t] EXCEPT !.picked = picked,
                                      !.pc = IF picked = {} THEN "found" ELSE "score"]
  <2>1. Moves(t, new)
    BY <1>7, SearchScopeMoves
  <2>2. thread'[t] = new /\ Moves(t, thread'[t])
    <3> HIDE DEF new
    <3> QED  BY <2>1 DEF Moves
  <2>3. thread[t].pc = "scope"
    BY <1>7 DEF SearchScope, At
  <2> HIDE DEF picked
  <2> QED  BY <1>1, <2>2, <2>3 DEF ThreadType, picked, Goes
<1>8. ASSUME SearchScore(t)
      PROVE  /\ thread[t].pc = "score"
             /\ \/ Goes(t, "score", "read") /\ thread'[t].picked = thread[t].picked
                \/ Ends(t)
  <2>1. thread[t].pc = "score"
    BY <1>8 DEF SearchScore, At
  <2> QED  BY <1>1, <1>8, <2>1, SearchScoreMoves DEF Goes, Ends, Moves, ThreadType
<1>9. ASSUME SearchRead(t)
      PROVE  /\ thread[t].pc = "read"
             /\ \/ Ends(t)
                \/ /\ Moves(t, thread'[t]) /\ thread'[t].pc = "found"
                   /\ thread'[t].project = thread[t].project
                   /\ thread[t].picked \subseteq DOMAIN rows.corpus
                   /\ thread'[t].hits =
                         thread[t].hits \cup {rows.corpus[i] : i \in thread[t].picked}
  <2>1. thread[t].pc = "read"
    BY <1>9 DEF SearchRead, At
  <2>2. Ends(t) \/ (thread[t].picked \subseteq DOMAIN rows.corpus /\ thread'[t] = Read(t)
                    /\ Moves(t, thread'[t]))
    BY <1>9, SearchReadMoves DEF Moves, Ends
  <2>3. /\ Read(t).pc = "found" /\ Read(t).project = thread[t].project
        /\ Read(t).hits = thread[t].hits \cup {rows.corpus[i] : i \in thread[t].picked}
    BY <1>1 DEF Read, ThreadType
  <2> QED  BY <2>1, <2>2, <2>3
<1> QED  BY <1>2, <1>3, <1>4, <1>5, <1>6, <1>7, <1>8, <1>9

LEMMA FilesTyped == NoFile \in FileType /\ PartialFile \in FileType
<1>1. EmptyRows \in RowsType
  BY DEF EmptyRows, RowsType
<1> QED  BY <1>1 DEF NoFile, PartialFile, FileType

\* Types are kept.
LEMMA TypesKept ==
    ASSUME IndexInv, [IndexNext]_indexVars
    PROVE  IndexTypeOK'
<1>0. IndexTypeOK /\ CallInv /\ SearchInv /\ ListsInv /\ DurableInv /\ QdrantInv
  BY DEF IndexInv
<1>1. /\ Clean' => Clean
      /\ Orderly' => Orderly
      /\ Orderly => Clean
      /\ overlap' \in {"harmless", "saves", "lists"}
  BY <1>0, OverlapStays
<1>2. ASSUME NEW t \in Threads, NEW u \in Uploads, StartAdd(t, u) PROVE IndexTypeOK'
  <2>1. thread' \in [Threads -> ThreadType]
    BY <1>0, <1>2, WriterSteps DEF Starts, Goes, Ends, Moves
  <2> QED
    BY <1>0, <1>1, <1>2, <2>1 DEF StartAdd, IndexTypeOK, ghosts
<1>3. ASSUME NEW t \in Threads, AddDense(t) PROVE IndexTypeOK'
  <2>1. thread' \in [Threads -> ThreadType]
    BY <1>0, <1>3, WriterSteps DEF Starts, Goes, Ends, Moves
  <2>2. thread[t].doc \in Doc /\ ChunkId(thread[t].doc) \in Names
    BY <1>0, <1>3, NoDocFacts DEF AddDense, At, AddSteps, CallInv, Doc
  <2> QED
    BY <1>0, <1>1, <1>3, <2>1, <2>2 DEF AddDense, IndexTypeOK, ghosts
<1>4. ASSUME NEW t \in Threads, DenseFails(t) PROVE IndexTypeOK'
  <2>1. thread' \in [Threads -> ThreadType]
    BY <1>0, <1>4, WriterSteps DEF Starts, Goes, Ends, Moves
  <2> QED
    BY <1>0, <1>1, <1>4, <2>1 DEF DenseFails, IndexTypeOK, ghosts
<1>5. ASSUME NEW t \in Threads, AddRows(t) PROVE IndexTypeOK'
  <2>1. rows' \in RowsType /\ thread' \in [Threads -> ThreadType]
    BY <1>0, <1>5, AddRowsExtends DEF Moves
  <2> QED  BY <1>0, <1>1, <1>5, <2>1, AddRowsExtends DEF IndexTypeOK
<1>6. ASSUME NEW t \in Threads, Tokenize(t) PROVE IndexTypeOK'
  <2>1. thread' \in [Threads -> ThreadType]
    BY <1>0, <1>6, WriterSteps DEF Starts, Goes, Ends, Moves
  <2> QED
    BY <1>0, <1>1, <1>6, <2>1 DEF Tokenize, IndexTypeOK, ghosts
<1>7. ASSUME NEW t \in Threads, Rebuild(t) PROVE IndexTypeOK'
  <2>1. thread' \in [Threads -> ThreadType]
    BY <1>0, <1>7, WriterSteps DEF Starts, Goes, Ends, Moves
  <2>2. thread[t].count \in Nat
    BY <1>0 DEF IndexTypeOK, ThreadType
  <2> QED
    BY <1>0, <1>1, <1>7, <2>1, <2>2 DEF Rebuild, IndexTypeOK, ghosts
<1>8. ASSUME NEW t \in Threads, SaveOpen(t) PROVE IndexTypeOK'
  <2>1. thread' \in [Threads -> ThreadType]
    BY <1>0, <1>8, WriterSteps DEF Starts, Goes, Ends, Moves
  <2> QED
    BY <1>0, <1>1, <1>8, <2>1, FilesTyped DEF SaveOpen, IndexTypeOK, ghosts
<1>9. ASSUME NEW t \in Threads, SaveDump(t) PROVE IndexTypeOK'
  <2>1. thread' \in [Threads -> ThreadType]
    BY <1>0, <1>9, WriterSteps DEF Starts, Goes, Ends, Moves
  <2>2. thread[t].count \in Nat
    BY <1>0 DEF IndexTypeOK, ThreadType
  <2>3. Pickle(rows, thread[t].count) \in FileType
    BY <1>0, <2>2 DEF Pickle, FileType, IndexTypeOK
  <2> QED
    BY <1>0, <1>1, <1>9, <2>1, <2>3 DEF SaveDump, IndexTypeOK, ghosts
<1>10. ASSUME NEW t \in Threads, SaveReplace(t) PROVE IndexTypeOK'
  <2>1. thread' \in [Threads -> ThreadType]
    BY <1>0, <1>10, WriterSteps DEF Starts, Goes, Ends, Moves
  <2>2. {thread[t].doc} \ {NoDoc} \subseteq Doc
    BY <1>0 DEF IndexTypeOK, ThreadType
  <2> QED
    BY <1>0, <1>1, <1>10, <2>1, <2>2, FilesTyped DEF SaveReplace, IndexTypeOK, ghosts
<1>11. ASSUME NEW t \in Threads, SaveFails(t) PROVE IndexTypeOK'
  <2>1. thread' \in [Threads -> ThreadType]
    BY <1>0, <1>11, WriterSteps DEF Starts, Goes, Ends, Moves
  <2> QED
    BY <1>0, <1>1, <1>11, <2>1, FilesTyped DEF SaveFails, IndexTypeOK, ghosts
<1>12. ASSUME NEW t \in Threads, NEW p \in Projects, StartWipe(t, p) PROVE IndexTypeOK'
  <2>1. thread' \in [Threads -> ThreadType]
    BY <1>0, <1>12, OtherSteps DEF Starts, Goes, Ends, Moves
  <2> QED
    BY <1>0, <1>1, <1>12, <2>1 DEF StartWipe, IndexTypeOK, ghosts
<1>13. ASSUME NEW t \in Threads, WipeDense(t) PROVE IndexTypeOK'
  <2>1. thread' \in [Threads -> ThreadType]
    BY <1>0, <1>13, OtherSteps DEF Starts, Goes, Ends, Moves
  <2> QED
    BY <1>0, <1>1, <1>13, <2>1 DEF WipeDense, IndexTypeOK, ghosts
<1>14. ASSUME NEW t \in Threads, WipeRows(t) PROVE IndexTypeOK'
  <2>1. thread' \in [Threads -> ThreadType]
    BY <1>0, <1>14, OtherSteps DEF Starts, Goes, Ends, Moves
  <2>2. rows' \in RowsType /\ scored' \in Nat
    BY <1>0, <1>14, WipedLists
  <2> QED
    BY <1>0, <1>1, <1>14, <2>1, <2>2 DEF WipeRows, IndexTypeOK, ghosts
<1>15. ASSUME NEW t \in Threads, NEW p \in Projects, StartSearch(t, p) PROVE IndexTypeOK'
  <2>1. thread' \in [Threads -> ThreadType]
    BY <1>0, <1>15, OtherSteps DEF Starts, Goes, Ends, Moves
  <2> QED
    BY <1>0, <1>1, <1>15, <2>1 DEF StartSearch, IndexTypeOK, ghosts
<1>16. ASSUME NEW t \in Threads, SearchDense(t) PROVE IndexTypeOK'
  <2>1. thread' \in [Threads -> ThreadType]
    BY <1>0, <1>16, OtherSteps DEF Starts, Goes, Ends, Moves
  <2> QED
    BY <1>0, <1>1, <1>16, <2>1 DEF SearchDense, IndexTypeOK, ghosts
<1>17. ASSUME NEW t \in Threads, SearchScope(t) PROVE IndexTypeOK'
  <2>1. thread' \in [Threads -> ThreadType]
    BY <1>0, <1>17, OtherSteps DEF Starts, Goes, Ends, Moves
  <2> QED
    BY <1>0, <1>1, <1>17, <2>1 DEF SearchScope, IndexTypeOK, ghosts
<1>18. ASSUME NEW t \in Threads, SearchScore(t) PROVE IndexTypeOK'
  <2>1. thread' \in [Threads -> ThreadType]
    BY <1>0, <1>18, OtherSteps DEF Starts, Goes, Ends, Moves
  <2> QED
    BY <1>0, <1>1, <1>18, <2>1 DEF SearchScore, IndexTypeOK, ghosts
<1>19. ASSUME NEW t \in Threads, SearchRead(t) PROVE IndexTypeOK'
  <2>1. thread' \in [Threads -> ThreadType]
    BY <1>0, <1>19, OtherSteps DEF Starts, Goes, Ends, Moves
  <2> QED
    BY <1>0, <1>1, <1>19, <2>1 DEF SearchRead, IndexTypeOK, ghosts
<1>20. ASSUME ServiceRestart PROVE IndexTypeOK'
  <2>1. thread' \in [Threads -> ThreadType]
    BY <1>20, IdleTyped DEF ServiceRestart
  <2>2. rows' \in RowsType /\ scored' \in Nat
    BY <1>0, <1>20 DEF ServiceRestart, IndexTypeOK, FileType
  <2> QED  BY <1>0, <1>1, FilesTyped, <1>20, <2>1, <2>2 DEF ServiceRestart, IndexTypeOK, ghosts
<1>21. ASSUME UNCHANGED indexVars PROVE IndexTypeOK'
  BY <1>0, <1>21 DEF IndexTypeOK, indexVars
<1> QED
  BY <1>2, <1>3, <1>4, <1>5, <1>6, <1>7, <1>8, <1>9, <1>10, <1>11, <1>12, <1>13,
     <1>14, <1>15, <1>16, <1>17, <1>18, <1>19, <1>20, <1>21
  DEF IndexNext

\* A call that goes on or ends is of the kind it was, and no wipe is beside it.
LEMMA CallKept ==
    ASSUME IndexTypeOK, CallInv, NEW t \in Threads, Moves(t, thread'[t]), ~Free(t),
           thread'[t].pc \in AddSteps =>
              Goes(t, thread[t].pc, thread'[t].pc) /\ thread[t].pc \in AddSteps,
           thread'[t].pc \in WipeSteps =>
              Goes(t, thread[t].pc, thread'[t].pc) /\ thread[t].pc \in WipeSteps,
           thread[t].pc \in WipeSteps => acked' = acked
    PROVE  CallInv'
<1> SUFFICES ASSUME NEW o \in Threads
             PROVE  /\ thread'[o].pc \in AddSteps =>
                          thread'[o].doc \in Uploads /\ thread'[o].project = thread'[o].doc[1]
                    /\ thread'[o].pc \in WipeSteps =>
                          /\ thread'[o].doc = NoDoc
                          /\ \A x \in Threads \ {o} : Free(x)'
                          /\ \A u \in acked' : u[1] # thread'[o].project
  BY DEF CallInv
<1>1. \A x \in Threads \ {t} : Alike(thread[x], thread'[x])
  BY DEF Moves
<1>2. CASE o = t
  BY <1>1, <1>2 DEF CallInv, Goes, Alike, Free
<1>3. CASE o # t
  <2>1. thread[o].pc \notin WipeSteps
    BY <1>3 DEF CallInv
  <2> QED  BY <1>1, <1>3, <2>1 DEF CallInv, Alike
<1> QED  BY <1>2, <1>3

\* Who adds adds its own document, and who wipes is alone.
LEMMA CallsKept ==
    ASSUME IndexInv, [IndexNext]_indexVars
    PROVE  CallInv'
<1>0. IndexTypeOK /\ CallInv /\ SearchInv /\ ListsInv /\ DurableInv /\ QdrantInv
  BY DEF IndexInv
<1>1. /\ Clean' => Clean
      /\ Orderly' => Orderly
      /\ Orderly => Clean
      /\ overlap' \in {"harmless", "saves", "lists"}
  BY <1>0, OverlapStays
<1>2. ASSUME NEW t \in Threads, NEW u \in Uploads, StartAdd(t, u) PROVE CallInv'
  <2>1. Moves(t, thread'[t]) /\ thread'[t].pc \notin WipeSteps /\ acked' = acked
    BY <1>0, <1>2, WriterSteps DEF Starts, WipeSteps, StartAdd
  <2>2. \A o \in Threads : thread[o].pc \notin WipeSteps
    BY <1>2 DEF StartAdd, Wiping
  <2>3. thread'[t].pc \in AddSteps =>
          thread'[t].doc \in Uploads /\ thread'[t].project = thread'[t].doc[1]
    BY <1>0, <1>2, WriterSteps DEF Starts, AddSteps
  <2> QED  BY <1>0, <2>1, <2>2, <2>3 DEF CallInv, Moves, Alike
<1>3. ASSUME NEW t \in Threads, AddDense(t) PROVE CallInv'
  <2>1. Moves(t, thread'[t]) /\ acked' = acked
    BY <1>0, <1>3, WriterSteps DEF Goes, Ends, AddDense
  <2>2. /\ thread'[t].pc \in AddSteps =>
             Goes(t, thread[t].pc, thread'[t].pc) /\ thread[t].pc \in AddSteps
        /\ thread'[t].pc \in WipeSteps =>
             Goes(t, thread[t].pc, thread'[t].pc) /\ thread[t].pc \in WipeSteps
        /\ ~Free(t)
    BY <1>0, <1>3, WriterSteps, IdleFields
    DEF Goes, Ends, Free, AddSteps, WipeSteps, SaveSteps
  <2> QED  BY <1>0, <2>1, <2>2, CallKept
<1>4. ASSUME NEW t \in Threads, DenseFails(t) PROVE CallInv'
  <2>1. Moves(t, thread'[t]) /\ acked' = acked
    BY <1>0, <1>4, WriterSteps DEF Goes, Ends, DenseFails
  <2>2. /\ thread'[t].pc \in AddSteps =>
             Goes(t, thread[t].pc, thread'[t].pc) /\ thread[t].pc \in AddSteps
        /\ thread'[t].pc \in WipeSteps =>
             Goes(t, thread[t].pc, thread'[t].pc) /\ thread[t].pc \in WipeSteps
        /\ ~Free(t)
    BY <1>0, <1>4, WriterSteps, IdleFields
    DEF Goes, Ends, Free, AddSteps, WipeSteps, SaveSteps
  <2> QED  BY <1>0, <2>1, <2>2, CallKept
<1>5. ASSUME NEW t \in Threads, AddRows(t) PROVE CallInv'
  <2>1. PICK next \in {"ids", "projects", "metadatas", "tokenize"} :
                 Moves(t, [thread[t] EXCEPT !.pc = next])
    BY <1>0, <1>5, AddRowsExtends
  <2>2. thread[t].pc \in {"corpus", "ids", "projects", "metadatas"} /\ acked' = acked
    BY <1>0, <1>5, AddRowsExtends
  <2>3. thread[t] \in ThreadType
    BY <1>0 DEF IndexTypeOK
  <2>4. Goes(t, thread[t].pc, next)
    BY <2>1, <2>3 DEF Goes, Moves, ThreadType
  <2> QED  BY <1>0, <2>2, <2>4, CallKept DEF Goes, Free, AddSteps, WipeSteps
<1>6. ASSUME NEW t \in Threads, Tokenize(t) PROVE CallInv'
  <2>1. Moves(t, thread'[t]) /\ acked' = acked
    BY <1>0, <1>6, WriterSteps DEF Goes, Ends, Tokenize
  <2>2. /\ thread'[t].pc \in AddSteps =>
             Goes(t, thread[t].pc, thread'[t].pc) /\ thread[t].pc \in AddSteps
        /\ thread'[t].pc \in WipeSteps =>
             Goes(t, thread[t].pc, thread'[t].pc) /\ thread[t].pc \in WipeSteps
        /\ ~Free(t)
    BY <1>0, <1>6, WriterSteps, IdleFields
    DEF Goes, Ends, Free, AddSteps, WipeSteps, SaveSteps
  <2> QED  BY <1>0, <2>1, <2>2, CallKept
<1>7. ASSUME NEW t \in Threads, Rebuild(t) PROVE CallInv'
  <2>1. Moves(t, thread'[t]) /\ acked' = acked
    BY <1>0, <1>7, WriterSteps DEF Goes, Ends, Rebuild
  <2>2. /\ thread'[t].pc \in AddSteps =>
             Goes(t, thread[t].pc, thread'[t].pc) /\ thread[t].pc \in AddSteps
        /\ thread'[t].pc \in WipeSteps =>
             Goes(t, thread[t].pc, thread'[t].pc) /\ thread[t].pc \in WipeSteps
        /\ ~Free(t)
    BY <1>0, <1>7, WriterSteps, IdleFields
    DEF Goes, Ends, Free, AddSteps, WipeSteps, SaveSteps
  <2> QED  BY <1>0, <2>1, <2>2, CallKept
<1>8. ASSUME NEW t \in Threads, SaveOpen(t) PROVE CallInv'
  <2>1. Moves(t, thread'[t]) /\ acked' = acked
    BY <1>0, <1>8, WriterSteps DEF Goes, Ends, SaveOpen
  <2>2. /\ thread'[t].pc \in AddSteps =>
             Goes(t, thread[t].pc, thread'[t].pc) /\ thread[t].pc \in AddSteps
        /\ thread'[t].pc \in WipeSteps =>
             Goes(t, thread[t].pc, thread'[t].pc) /\ thread[t].pc \in WipeSteps
        /\ ~Free(t)
    BY <1>0, <1>8, WriterSteps, IdleFields
    DEF Goes, Ends, Free, AddSteps, WipeSteps, SaveSteps
  <2> QED  BY <1>0, <2>1, <2>2, CallKept
<1>9. ASSUME NEW t \in Threads, SaveDump(t) PROVE CallInv'
  <2>1. Moves(t, thread'[t]) /\ acked' = acked
    BY <1>0, <1>9, WriterSteps DEF Goes, Ends, SaveDump
  <2>2. /\ thread'[t].pc \in AddSteps =>
             Goes(t, thread[t].pc, thread'[t].pc) /\ thread[t].pc \in AddSteps
        /\ thread'[t].pc \in WipeSteps =>
             Goes(t, thread[t].pc, thread'[t].pc) /\ thread[t].pc \in WipeSteps
        /\ ~Free(t)
    BY <1>0, <1>9, WriterSteps, IdleFields
    DEF Goes, Ends, Free, AddSteps, WipeSteps, SaveSteps
  <2> QED  BY <1>0, <2>1, <2>2, CallKept
<1>10. ASSUME NEW t \in Threads, SaveReplace(t) PROVE CallInv'
  <2>1. Moves(t, thread'[t])
    BY <1>0, <1>10, WriterSteps DEF Ends
  <2>2. /\ thread'[t].pc \in AddSteps =>
             Goes(t, thread[t].pc, thread'[t].pc) /\ thread[t].pc \in AddSteps
        /\ thread'[t].pc \in WipeSteps =>
             Goes(t, thread[t].pc, thread'[t].pc) /\ thread[t].pc \in WipeSteps
        /\ ~Free(t) /\ thread[t].pc \notin WipeSteps
    BY <1>0, <1>10, WriterSteps, IdleFields
    DEF Goes, Ends, Free, AddSteps, WipeSteps, SaveSteps
  <2> QED  BY <1>0, <2>1, <2>2, CallKept
<1>11. ASSUME NEW t \in Threads, SaveFails(t) PROVE CallInv'
  <2>1. Moves(t, thread'[t]) /\ acked' = acked
    BY <1>0, <1>11, WriterSteps DEF Goes, Ends, SaveFails
  <2>2. /\ thread'[t].pc \in AddSteps =>
             Goes(t, thread[t].pc, thread'[t].pc) /\ thread[t].pc \in AddSteps
        /\ thread'[t].pc \in WipeSteps =>
             Goes(t, thread[t].pc, thread'[t].pc) /\ thread[t].pc \in WipeSteps
        /\ ~Free(t)
    BY <1>0, <1>11, WriterSteps, IdleFields
    DEF Goes, Ends, Free, AddSteps, WipeSteps, SaveSteps
  <2> QED  BY <1>0, <2>1, <2>2, CallKept
<1>12. ASSUME NEW t \in Threads, NEW p \in Projects, StartWipe(t, p) PROVE CallInv'
  <2>1. /\ Moves(t, thread'[t])
        /\ thread'[t].pc \notin AddSteps /\ thread'[t].doc = NoDoc /\ thread'[t].project = p
    BY <1>0, <1>12, OtherSteps DEF Starts, AddSteps
  <2>2. \A o \in Threads : Free(o)
    BY <1>12 DEF StartWipe
  <2>3. \A u \in acked' : u[1] # p
    BY <1>12 DEF StartWipe
  <2> QED  BY <2>1, <2>2, <2>3 DEF CallInv, Moves, Alike, Free, AddSteps, WipeSteps
<1>13. ASSUME NEW t \in Threads, WipeDense(t) PROVE CallInv'
  <2>1. Moves(t, thread'[t]) /\ acked' = acked
    BY <1>0, <1>13, OtherSteps DEF Goes, Ends, WipeDense
  <2>2. /\ thread'[t].pc \in AddSteps =>
             Goes(t, thread[t].pc, thread'[t].pc) /\ thread[t].pc \in AddSteps
        /\ thread'[t].pc \in WipeSteps =>
             Goes(t, thread[t].pc, thread'[t].pc) /\ thread[t].pc \in WipeSteps
        /\ ~Free(t)
    BY <1>0, <1>13, OtherSteps, IdleFields
    DEF Goes, Ends, Free, AddSteps, WipeSteps, SaveSteps
  <2> QED  BY <1>0, <2>1, <2>2, CallKept
<1>14. ASSUME NEW t \in Threads, WipeRows(t) PROVE CallInv'
  <2>1. Moves(t, thread'[t]) /\ acked' = acked
    BY <1>0, <1>14, OtherSteps DEF Goes, Ends, WipeRows
  <2>2. /\ thread'[t].pc \in AddSteps =>
             Goes(t, thread[t].pc, thread'[t].pc) /\ thread[t].pc \in AddSteps
        /\ thread'[t].pc \in WipeSteps =>
             Goes(t, thread[t].pc, thread'[t].pc) /\ thread[t].pc \in WipeSteps
        /\ ~Free(t)
    BY <1>0, <1>14, OtherSteps, IdleFields
    DEF Goes, Ends, Free, AddSteps, WipeSteps, SaveSteps
  <2> QED  BY <1>0, <2>1, <2>2, CallKept
<1>15. ASSUME NEW t \in Threads, NEW p \in Projects, StartSearch(t, p) PROVE CallInv'
  <2>1. Moves(t, thread'[t]) /\ thread'[t].pc \notin WipeSteps /\ acked' = acked
    BY <1>0, <1>15, OtherSteps DEF Starts, WipeSteps, StartSearch
  <2>2. \A o \in Threads : thread[o].pc \notin WipeSteps
    BY <1>15 DEF StartSearch, Wiping
  <2>3. thread'[t].pc \in AddSteps =>
          thread'[t].doc \in Uploads /\ thread'[t].project = thread'[t].doc[1]
    BY <1>0, <1>15, OtherSteps DEF Starts, AddSteps
  <2> QED  BY <1>0, <2>1, <2>2, <2>3 DEF CallInv, Moves, Alike
<1>16. ASSUME NEW t \in Threads, SearchDense(t) PROVE CallInv'
  <2>1. Moves(t, thread'[t]) /\ acked' = acked
    BY <1>0, <1>16, OtherSteps DEF Goes, Ends, SearchDense
  <2>2. /\ thread'[t].pc \in AddSteps =>
             Goes(t, thread[t].pc, thread'[t].pc) /\ thread[t].pc \in AddSteps
        /\ thread'[t].pc \in WipeSteps =>
             Goes(t, thread[t].pc, thread'[t].pc) /\ thread[t].pc \in WipeSteps
        /\ ~Free(t)
    BY <1>0, <1>16, OtherSteps, IdleFields
    DEF Goes, Ends, Free, AddSteps, WipeSteps, SaveSteps
  <2> QED  BY <1>0, <2>1, <2>2, CallKept
<1>17. ASSUME NEW t \in Threads, SearchScope(t) PROVE CallInv'
  <2>1. Moves(t, thread'[t]) /\ acked' = acked
    BY <1>0, <1>17, OtherSteps DEF Goes, Ends, SearchScope
  <2>2. /\ thread'[t].pc \in AddSteps =>
             Goes(t, thread[t].pc, thread'[t].pc) /\ thread[t].pc \in AddSteps
        /\ thread'[t].pc \in WipeSteps =>
             Goes(t, thread[t].pc, thread'[t].pc) /\ thread[t].pc \in WipeSteps
        /\ ~Free(t)
    BY <1>0, <1>17, OtherSteps, IdleFields
    DEF Goes, Ends, Free, AddSteps, WipeSteps, SaveSteps
  <2> QED  BY <1>0, <2>1, <2>2, CallKept
<1>18. ASSUME NEW t \in Threads, SearchScore(t) PROVE CallInv'
  <2>1. Moves(t, thread'[t]) /\ acked' = acked
    BY <1>0, <1>18, OtherSteps DEF Goes, Ends, SearchScore
  <2>2. /\ thread'[t].pc \in AddSteps =>
             Goes(t, thread[t].pc, thread'[t].pc) /\ thread[t].pc \in AddSteps
        /\ thread'[t].pc \in WipeSteps =>
             Goes(t, thread[t].pc, thread'[t].pc) /\ thread[t].pc \in WipeSteps
        /\ ~Free(t)
    BY <1>0, <1>18, OtherSteps, IdleFields
    DEF Goes, Ends, Free, AddSteps, WipeSteps, SaveSteps
  <2> QED  BY <1>0, <2>1, <2>2, CallKept
<1>19. ASSUME NEW t \in Threads, SearchRead(t) PROVE CallInv'
  <2>1. Moves(t, thread'[t]) /\ acked' = acked
    BY <1>0, <1>19, OtherSteps DEF Goes, Ends, SearchRead
  <2>2. /\ thread'[t].pc \in AddSteps =>
             Goes(t, thread[t].pc, thread'[t].pc) /\ thread[t].pc \in AddSteps
        /\ thread'[t].pc \in WipeSteps =>
             Goes(t, thread[t].pc, thread'[t].pc) /\ thread[t].pc \in WipeSteps
        /\ ~Free(t)
    BY <1>0, <1>19, OtherSteps, IdleFields
    DEF Goes, Ends, Free, AddSteps, WipeSteps, SaveSteps
  <2> QED  BY <1>0, <2>1, <2>2, CallKept
<1>20. ASSUME ServiceRestart PROVE CallInv'
  BY <1>20 DEF ServiceRestart, CallInv, Idle, AddSteps, WipeSteps
<1>21. ASSUME UNCHANGED indexVars PROVE CallInv'
  BY <1>0, <1>21 DEF CallInv, indexVars, Free
<1> QED
  BY <1>2, <1>3, <1>4, <1>5, <1>6, <1>7, <1>8, <1>9, <1>10, <1>11, <1>12, <1>13,
     <1>14, <1>15, <1>16, <1>17, <1>18, <1>19, <1>20, <1>21
  DEF IndexNext

\* Rows that are only added stay where a search has picked them.
LEMMA SearchKept ==
    ASSUME SearchInv, NEW t \in Threads, Moves(t, thread'[t]), RowsGrow,
           Clean' => Clean,
           Clean => \A hit \in thread'[t].hits : hit[1] = thread'[t].project,
           Clean /\ thread'[t].pc \in {"score", "read"} =>
              \A i \in thread'[t].picked :
                  i \in DOMAIN rows.projects /\ rows.projects[i] = thread'[t].project
    PROVE  SearchInv'
<1> SUFFICES ASSUME Clean, NEW o \in Threads
             PROVE  /\ \A hit \in thread'[o].hits : hit[1] = thread'[o].project
                    /\ thread'[o].pc \in {"score", "read"} =>
                          \A i \in thread'[o].picked :
                              i \in DOMAIN rows'.projects
                              /\ rows'.projects[i] = thread'[o].project
  BY DEF SearchInv
<1>1. CASE o = t
  BY <1>1 DEF RowsGrow
<1>2. CASE o # t
  <2>1. Alike(thread[o], thread'[o])
    BY <1>2 DEF Moves
  <2> QED  BY <2>1 DEF SearchInv, Alike, RowsGrow
<1> QED  BY <1>1, <1>2

\* A call that has nothing new in hand.
LEMMA SearchAside ==
    ASSUME SearchInv, NEW t \in Threads, RowsGrow, Clean' => Clean,
           Moves(t, thread'[t]), thread'[t].pc \notin {"score", "read"},
           \/ thread'[t].hits = {}
           \/ thread'[t].hits = thread[t].hits /\ thread'[t].project = thread[t].project
    PROVE  SearchInv'
<1>1. Clean => \A hit \in thread[t].hits : hit[1] = thread[t].project
  BY DEF SearchInv
<1> QED  BY <1>1, SearchKept

\* The lists of a clean store are aligned, whoever is between them.
LEMMA ListsAligned == ASSUME ListsInv, Clean PROVE Aligned(rows)
  BY DEF ListsInv, Complete, Shape

\* Hits, and the rows picked, are of the search's project.
LEMMA SearchesKept ==
    ASSUME IndexInv, [IndexNext]_indexVars
    PROVE  SearchInv'
<1>0. IndexTypeOK /\ CallInv /\ SearchInv /\ ListsInv /\ DurableInv /\ QdrantInv
  BY DEF IndexInv
<1>1. /\ Clean' => Clean
      /\ Orderly' => Orderly
      /\ Orderly => Clean
      /\ overlap' \in {"harmless", "saves", "lists"}
  BY <1>0, OverlapStays
<1>2. ASSUME NEW t \in Threads, NEW u \in Uploads, StartAdd(t, u) PROVE SearchInv'
  <2>1. RowsGrow
    BY <1>0, <1>2, SameRowsGrow DEF StartAdd
  <2>2. /\ Moves(t, thread'[t]) /\ thread'[t].pc \notin {"score", "read"}
        /\ \/ thread'[t].hits = {}
           \/ thread'[t].hits = thread[t].hits /\ thread'[t].project = thread[t].project
    BY <1>0, <1>2, WriterSteps, IdleFields DEF Starts, Goes, Ends
  <2> QED  BY <1>0, <1>1, <2>1, <2>2, SearchAside
<1>3. ASSUME NEW t \in Threads, AddDense(t) PROVE SearchInv'
  <2>1. RowsGrow
    BY <1>0, <1>3, SameRowsGrow DEF AddDense
  <2>2. /\ Moves(t, thread'[t]) /\ thread'[t].pc \notin {"score", "read"}
        /\ \/ thread'[t].hits = {}
           \/ thread'[t].hits = thread[t].hits /\ thread'[t].project = thread[t].project
    BY <1>0, <1>3, WriterSteps, IdleFields DEF Starts, Goes, Ends
  <2> QED  BY <1>0, <1>1, <2>1, <2>2, SearchAside
<1>4. ASSUME NEW t \in Threads, DenseFails(t) PROVE SearchInv'
  <2>1. RowsGrow
    BY <1>0, <1>4, SameRowsGrow DEF DenseFails
  <2>2. /\ Moves(t, thread'[t]) /\ thread'[t].pc \notin {"score", "read"}
        /\ \/ thread'[t].hits = {}
           \/ thread'[t].hits = thread[t].hits /\ thread'[t].project = thread[t].project
    BY <1>0, <1>4, WriterSteps, IdleFields DEF Starts, Goes, Ends
  <2> QED  BY <1>0, <1>1, <2>1, <2>2, SearchAside
<1>5. ASSUME NEW t \in Threads, AddRows(t) PROVE SearchInv'
  <2>1. PICK next \in {"ids", "projects", "metadatas", "tokenize"} :
                 Moves(t, [thread[t] EXCEPT !.pc = next])
    BY <1>0, <1>5, AddRowsExtends
  <2>2. thread[t].pc \in {"corpus", "ids", "projects", "metadatas"} /\ RowsGrow
    BY <1>0, <1>5, AddRowsExtends
  <2>3. thread[t] \in ThreadType
    BY <1>0 DEF IndexTypeOK
  <2>4. Goes(t, thread[t].pc, next)
    BY <2>1, <2>3 DEF Goes, Moves, ThreadType
  <2> QED  BY <1>0, <1>1, <2>2, <2>4, SearchAside DEF Goes
<1>6. ASSUME NEW t \in Threads, Tokenize(t) PROVE SearchInv'
  <2>1. RowsGrow
    BY <1>0, <1>6, SameRowsGrow DEF Tokenize
  <2>2. /\ Moves(t, thread'[t]) /\ thread'[t].pc \notin {"score", "read"}
        /\ \/ thread'[t].hits = {}
           \/ thread'[t].hits = thread[t].hits /\ thread'[t].project = thread[t].project
    BY <1>0, <1>6, WriterSteps, IdleFields DEF Starts, Goes, Ends
  <2> QED  BY <1>0, <1>1, <2>1, <2>2, SearchAside
<1>7. ASSUME NEW t \in Threads, Rebuild(t) PROVE SearchInv'
  <2>1. RowsGrow
    BY <1>0, <1>7, SameRowsGrow DEF Rebuild
  <2>2. /\ Moves(t, thread'[t]) /\ thread'[t].pc \notin {"score", "read"}
        /\ \/ thread'[t].hits = {}
           \/ thread'[t].hits = thread[t].hits /\ thread'[t].project = thread[t].project
    BY <1>0, <1>7, WriterSteps, IdleFields DEF Starts, Goes, Ends
  <2> QED  BY <1>0, <1>1, <2>1, <2>2, SearchAside
<1>8. ASSUME NEW t \in Threads, SaveOpen(t) PROVE SearchInv'
  <2>1. RowsGrow
    BY <1>0, <1>8, SameRowsGrow DEF SaveOpen
  <2>2. /\ Moves(t, thread'[t]) /\ thread'[t].pc \notin {"score", "read"}
        /\ \/ thread'[t].hits = {}
           \/ thread'[t].hits = thread[t].hits /\ thread'[t].project = thread[t].project
    BY <1>0, <1>8, WriterSteps, IdleFields DEF Starts, Goes, Ends
  <2> QED  BY <1>0, <1>1, <2>1, <2>2, SearchAside
<1>9. ASSUME NEW t \in Threads, SaveDump(t) PROVE SearchInv'
  <2>1. RowsGrow
    BY <1>0, <1>9, SameRowsGrow DEF SaveDump
  <2>2. /\ Moves(t, thread'[t]) /\ thread'[t].pc \notin {"score", "read"}
        /\ \/ thread'[t].hits = {}
           \/ thread'[t].hits = thread[t].hits /\ thread'[t].project = thread[t].project
    BY <1>0, <1>9, WriterSteps, IdleFields DEF Starts, Goes, Ends
  <2> QED  BY <1>0, <1>1, <2>1, <2>2, SearchAside
<1>10. ASSUME NEW t \in Threads, SaveReplace(t) PROVE SearchInv'
  <2>1. RowsGrow
    BY <1>0, <1>10, SameRowsGrow DEF SaveReplace
  <2>2. /\ Moves(t, thread'[t]) /\ thread'[t].pc \notin {"score", "read"}
        /\ \/ thread'[t].hits = {}
           \/ thread'[t].hits = thread[t].hits /\ thread'[t].project = thread[t].project
    BY <1>0, <1>10, WriterSteps, IdleFields DEF Starts, Goes, Ends
  <2> QED  BY <1>0, <1>1, <2>1, <2>2, SearchAside
<1>11. ASSUME NEW t \in Threads, SaveFails(t) PROVE SearchInv'
  <2>1. RowsGrow
    BY <1>0, <1>11, SameRowsGrow DEF SaveFails
  <2>2. /\ Moves(t, thread'[t]) /\ thread'[t].pc \notin {"score", "read"}
        /\ \/ thread'[t].hits = {}
           \/ thread'[t].hits = thread[t].hits /\ thread'[t].project = thread[t].project
    BY <1>0, <1>11, WriterSteps, IdleFields DEF Starts, Goes, Ends
  <2> QED  BY <1>0, <1>1, <2>1, <2>2, SearchAside
<1>12. ASSUME NEW t \in Threads, NEW p \in Projects, StartWipe(t, p) PROVE SearchInv'
  <2>1. RowsGrow
    BY <1>0, <1>12, SameRowsGrow DEF StartWipe
  <2>2. /\ Moves(t, thread'[t]) /\ thread'[t].pc \notin {"score", "read"}
        /\ \/ thread'[t].hits = {}
           \/ thread'[t].hits = thread[t].hits /\ thread'[t].project = thread[t].project
    BY <1>0, <1>12, OtherSteps, IdleFields DEF Starts, Goes, Ends
  <2> QED  BY <1>0, <1>1, <2>1, <2>2, SearchAside
<1>13. ASSUME NEW t \in Threads, WipeDense(t) PROVE SearchInv'
  <2>1. RowsGrow
    BY <1>0, <1>13, SameRowsGrow DEF WipeDense
  <2>2. /\ Moves(t, thread'[t]) /\ thread'[t].pc \notin {"score", "read"}
        /\ \/ thread'[t].hits = {}
           \/ thread'[t].hits = thread[t].hits /\ thread'[t].project = thread[t].project
    BY <1>0, <1>13, OtherSteps, IdleFields DEF Starts, Goes, Ends
  <2> QED  BY <1>0, <1>1, <2>1, <2>2, SearchAside
<1>14. ASSUME NEW t \in Threads, WipeRows(t) PROVE SearchInv'
  <2>1. Moves(t, thread'[t]) /\ thread[t].pc \in WipeSteps
    BY <1>0, <1>14, OtherSteps DEF Goes, Ends, WipeSteps
  <2>2. \A o \in Threads \ {t} : Free(o)
    BY <1>0, <2>1 DEF CallInv
  <2>3. \A o \in Threads \ {t} : thread'[o].pc \notin {"score", "read"}
    BY <2>1, <2>2 DEF Free, Moves, Alike
  <2>4. /\ thread'[t].pc \notin {"score", "read"}
        /\ \/ thread'[t].hits = {}
           \/ thread'[t].hits = thread[t].hits /\ thread'[t].project = thread[t].project
    BY <1>0, <1>14, OtherSteps, IdleFields DEF Goes, Ends
  <2>5. \A o \in Threads \ {t} : thread'[o].hits = thread[o].hits
                                  /\ thread'[o].project = thread[o].project
    BY <2>1 DEF Moves, Alike
  <2> QED  BY <1>0, <1>1, <2>3, <2>4, <2>5 DEF SearchInv
<1>15. ASSUME NEW t \in Threads, NEW p \in Projects, StartSearch(t, p) PROVE SearchInv'
  <2>1. RowsGrow
    BY <1>0, <1>15, SameRowsGrow DEF StartSearch
  <2>2. /\ Moves(t, thread'[t]) /\ thread'[t].pc \notin {"score", "read"}
        /\ \/ thread'[t].hits = {}
           \/ thread'[t].hits = thread[t].hits /\ thread'[t].project = thread[t].project
    BY <1>0, <1>15, OtherSteps, IdleFields DEF Starts, Goes, Ends
  <2> QED  BY <1>0, <1>1, <2>1, <2>2, SearchAside
<1>16. ASSUME NEW t \in Threads, SearchDense(t) PROVE SearchInv'
  <2>1. RowsGrow
    BY <1>0, <1>16, SameRowsGrow DEF SearchDense
  <2>2. /\ Moves(t, thread'[t]) /\ thread'[t].pc \in {"found", "scope"}
        /\ thread'[t].project = thread[t].project
        /\ thread'[t].hits =
              {dense[n] : n \in {m \in Names : dense[m][1] = thread[t].project}}
    BY <1>0, <1>16, OtherSteps
  <2>3. \A hit \in thread'[t].hits : hit[1] = thread'[t].project
    BY <2>2
  <2> QED  BY <1>0, <1>1, <2>1, <2>2, <2>3, SearchKept
<1>17. ASSUME NEW t \in Threads, SearchScope(t) PROVE SearchInv'
  <2>1. RowsGrow
    BY <1>0, <1>17, SameRowsGrow DEF SearchScope
  <2> DEFINE p == thread[t].project
  <2>2. p \in Projects
    BY <1>0 DEF IndexTypeOK, ThreadType
  <2>3. /\ Moves(t, thread'[t]) /\ thread'[t].picked = ScopedIndices(p)
        /\ thread'[t].project = p /\ thread'[t].hits = thread[t].hits
        /\ thread'[t].picked = {} => thread'[t].pc = "found"
    BY <1>0, <1>17, OtherSteps DEF Goes
  <2>4. Clean => \A hit \in thread[t].hits : hit[1] = p
    BY <1>0 DEF SearchInv
  <2>5. \A i \in ScopedIndices(p) : i \in DOMAIN rows.projects /\ rows.projects[i] = Bm25Pid(p)
    BY DEF ScopedIndices
  <2>6. CASE p = Global
    <3>1. \A i \in DOMAIN rows.projects : rows.projects[i] \in Projects
      BY <1>0 DEF IndexTypeOK, RowsType
    <3>2. ScopedIndices(p) = {}
      BY <2>2, <2>5, <2>6, <3>1, NoDocFacts DEF Bm25Pid
    <3> QED  BY <1>0, <1>1, <2>1, <2>3, <2>4, <3>2, SearchKept
  <2>7. CASE p # Global
    BY <1>0, <1>1, <2>1, <2>3, <2>4, <2>5, <2>7, SearchKept DEF Bm25Pid
  <2> QED  BY <2>6, <2>7
<1>18. ASSUME NEW t \in Threads, SearchScore(t) PROVE SearchInv'
  <2>1. RowsGrow
    BY <1>0, <1>18, SameRowsGrow DEF SearchScore
  <2>2. CASE Ends(t)
    BY <1>0, <1>1, <2>1, <2>2, IdleFields, SearchAside DEF Ends
  <2>3. CASE Goes(t, "score", "read") /\ thread'[t].picked = thread[t].picked
    BY <1>0, <1>1, <2>1, <2>3, SearchKept DEF SearchInv, Goes
  <2> QED  BY <1>0, <1>18, <2>2, <2>3, OtherSteps
<1>19. ASSUME NEW t \in Threads, SearchRead(t) PROVE SearchInv'
  <2>1. RowsGrow
    BY <1>0, <1>19, SameRowsGrow DEF SearchRead
  <2>2. CASE Ends(t)
    BY <1>0, <1>1, <2>1, <2>2, IdleFields, SearchAside DEF Ends
  <2>3. CASE ~Ends(t)
    <3>1. /\ thread[t].pc = "read" /\ Moves(t, thread'[t]) /\ thread'[t].pc = "found"
          /\ thread'[t].project = thread[t].project
          /\ thread[t].picked \subseteq DOMAIN rows.corpus
          /\ thread'[t].hits =
                thread[t].hits \cup {rows.corpus[i] : i \in thread[t].picked}
      BY <1>0, <1>19, <2>3, OtherSteps
    <3>2. ASSUME Clean, NEW hit \in thread'[t].hits PROVE hit[1] = thread'[t].project
      <4>1. CASE hit \in thread[t].hits
        BY <1>0, <3>1, <3>2, <4>1 DEF SearchInv
      <4>2. CASE \E i \in thread[t].picked : hit = rows.corpus[i]
        <5>1. PICK i \in thread[t].picked : hit = rows.corpus[i]
          BY <4>2
        <5>2. i \in DOMAIN rows.projects /\ rows.projects[i] = thread[t].project
          BY <1>0, <3>1, <3>2 DEF SearchInv
        <5>3. rows.projects[i] = rows.corpus[i][1]
          BY <1>0, <3>1, <3>2, <5>2, ListsAligned DEF Aligned
        <5> QED  BY <3>1, <5>1, <5>2, <5>3
      <4> QED  BY <3>1, <4>1, <4>2
    <3> QED  BY <1>0, <1>1, <2>1, <3>1, <3>2, SearchKept
  <2> QED  BY <2>2, <2>3
<1>20. ASSUME ServiceRestart PROVE SearchInv'
  <2>1. \A t \in Threads : thread'[t] = Idle
    BY <1>20 DEF ServiceRestart
  <2> QED  BY <2>1, IdleFields DEF SearchInv
<1>21. ASSUME UNCHANGED indexVars PROVE SearchInv'
  BY <1>0, <1>21 DEF SearchInv, Clean, indexVars
<1> QED
  BY <1>2, <1>3, <1>4, <1>5, <1>6, <1>7, <1>8, <1>9, <1>10, <1>11, <1>12, <1>13,
     <1>14, <1>15, <1>16, <1>17, <1>18, <1>19, <1>20, <1>21
  DEF IndexNext

\* A step that leaves the lists alone, of a call that is not between them.
LEMMA ListsKept ==
    ASSUME ListsInv, NEW t \in Threads, Moves(t, thread'[t]), rows' = rows,
           Clean' => Clean,
           thread[t].pc \notin Between, thread'[t].pc \notin Between,
           Clean' => Complete(disk'.rows) /\ Complete(tmp'.rows)
    PROVE  ListsInv'
<1>1. /\ \A o \in Threads : thread'[o].pc \in Between =>
            thread[o].pc = thread'[o].pc /\ thread'[o].doc = thread[o].doc
      /\ \A o \in Threads : thread[o].pc \in Between => thread'[o].pc = thread[o].pc
  BY DEF Moves, Alike
<1> QED  BY <1>1 DEF ListsInv

\* Lists that are whole become longer by one document, one after the other.
LEMMA ListsExtended ==
    ASSUME IndexTypeOK, NEW doc \in Uploads
    PROVE  /\ rows' = [rows EXCEPT !.corpus = Append(@, doc)] /\ Complete(rows) =>
                 Shape(rows', "ids") /\ rows'.corpus[Len(rows'.corpus)] = doc
           /\ rows.corpus[Len(rows.corpus)] = doc =>
                 /\ rows' = [rows EXCEPT !.ids = Append(@, ChunkId(doc))]
                       /\ Shape(rows, "ids") =>
                       Shape(rows', "projects") /\ rows'.corpus[Len(rows'.corpus)] = doc
                 /\ rows' = [rows EXCEPT !.projects = Append(@, doc[1])]
                       /\ Shape(rows, "projects") =>
                       Shape(rows', "metadatas") /\ rows'.corpus[Len(rows'.corpus)] = doc
                 /\ rows' = [rows EXCEPT !.metadatas = Append(@, doc)]
                       /\ Shape(rows, "metadatas") => Complete(rows')
<1>1. /\ rows.corpus \in Seq(Doc) /\ rows.ids \in Seq(Names)
      /\ rows.projects \in Seq(Projects) /\ rows.metadatas \in Seq(Doc)
      /\ Len(rows.corpus) \in Nat /\ Len(rows.ids) \in Nat
      /\ Len(rows.projects) \in Nat /\ Len(rows.metadatas) \in Nat
  BY DEF IndexTypeOK, RowsType
<1>2. doc \in Doc /\ ChunkId(doc) \in Names /\ doc[1] \in Projects
  BY NoDocFacts DEF Doc
<1>3. rows \in RowsType
  BY DEF IndexTypeOK
<1>4. ASSUME NEW S, NEW seq \in Seq(S), NEW value \in S
      PROVE  /\ DOMAIN seq = 1..Len(seq)
             /\ DOMAIN Append(seq, value) = 1..(Len(seq) + 1)
             /\ Len(Append(seq, value)) = Len(seq) + 1
             /\ Append(seq, value)[Len(seq) + 1] = value
             /\ \A i \in 1..Len(seq) : Append(seq, value)[i] = seq[i]
  BY <1>4
<1>5. ASSUME rows' = [rows EXCEPT !.corpus = Append(@, doc)], Complete(rows)
      PROVE  Shape(rows', "ids") /\ rows'.corpus[Len(rows'.corpus)] = doc
  <2>1. /\ rows'.corpus = Append(rows.corpus, doc)
        /\ rows'.ids = rows.ids /\ rows'.projects = rows.projects
        /\ rows'.metadatas = rows.metadatas
    BY <1>3, <1>5 DEF RowsType
  <2>2. /\ Aligned(rows)
        /\ Len(rows.ids) = Len(rows.corpus)
        /\ Len(rows.projects) = Len(rows.corpus)
        /\ Len(rows.metadatas) = Len(rows.corpus)
    BY <1>1, <1>5 DEF Complete, Shape, Behind, Between
  <2>3. /\ DOMAIN rows.corpus = 1..Len(rows.corpus)
        /\ DOMAIN Append(rows.corpus, doc) = 1..(Len(rows.corpus) + 1)
        /\ Len(Append(rows.corpus, doc)) = Len(rows.corpus) + 1
        /\ Append(rows.corpus, doc)[Len(rows.corpus) + 1] = doc
        /\ \A i \in 1..Len(rows.corpus) : Append(rows.corpus, doc)[i] = rows.corpus[i]
    BY <1>1, <1>2, <1>4
  <2>4. /\ DOMAIN rows.corpus = 1..Len(rows.corpus) /\ DOMAIN rows.ids = 1..Len(rows.ids)
        /\ DOMAIN rows.projects = 1..Len(rows.projects)
        /\ DOMAIN rows.metadatas = 1..Len(rows.metadatas)
    BY <1>1
  <2>5. Aligned(rows')
    <3>1. DOMAIN rows'.corpus = 1..Len(rows'.corpus) /\ Len(rows'.corpus) \in Nat
      BY <1>1, <2>1, <2>3, <2>4
    <3>2. SUFFICES ASSUME NEW i \in DOMAIN rows'.corpus
                   PROVE  /\ i \in DOMAIN rows'.ids => rows'.ids[i] = ChunkId(rows'.corpus[i])
                          /\ i \in DOMAIN rows'.projects =>
                                rows'.projects[i] = rows'.corpus[i][1]
                          /\ i \in DOMAIN rows'.metadatas =>
                                rows'.metadatas[i] = rows'.corpus[i]
      BY DEF Aligned
    <3>3. CASE i \in DOMAIN rows.corpus /\ (i \in DOMAIN rows'.corpus => i \in DOMAIN rows.corpus)
      <4>1. i \in DOMAIN rows.corpus => rows'.corpus[i] = rows.corpus[i]
        BY <2>1, <2>3
      <4> QED  BY <2>1, <2>2, <3>3, <4>1 DEF Aligned
    <3>4. CASE ~(i \in DOMAIN rows.corpus /\ (i \in DOMAIN rows'.corpus => i \in DOMAIN rows.corpus))
      <4>1. i = Len(rows.corpus) + 1
        BY <1>1, <2>1, <2>3, <2>4, <3>1, <3>4
      <4>2. rows'.corpus[i] = doc
        BY <2>1, <2>3, <4>1
      <4> QED  BY <1>1, <1>5, <2>1, <2>2, <2>3, <2>4, <3>4, <4>1, <4>2 DEF Aligned
    <3> QED  BY <3>3, <3>4
  <2> QED
    BY <1>1, <1>5, <2>1, <2>2, <2>3, <2>5 DEF Complete, Shape, Behind, Between
<1>6. ASSUME rows' = [rows EXCEPT !.ids = Append(@, ChunkId(doc))], Shape(rows, "ids"), rows.corpus[Len(rows.corpus)] = doc
      PROVE  Shape(rows', "projects") /\ rows'.corpus[Len(rows'.corpus)] = doc
  <2>1. /\ rows'.ids = Append(rows.ids, ChunkId(doc))
        /\ rows'.corpus = rows.corpus /\ rows'.projects = rows.projects
        /\ rows'.metadatas = rows.metadatas
    BY <1>3, <1>6 DEF RowsType
  <2>2. /\ Aligned(rows)
        /\ Len(rows.ids) = Len(rows.corpus) - 1
        /\ Len(rows.projects) = Len(rows.corpus) - 1
        /\ Len(rows.metadatas) = Len(rows.corpus) - 1
    BY <1>1, <1>6 DEF Complete, Shape, Behind, Between
  <2>3. /\ DOMAIN rows.ids = 1..Len(rows.ids)
        /\ DOMAIN Append(rows.ids, ChunkId(doc)) = 1..(Len(rows.ids) + 1)
        /\ Len(Append(rows.ids, ChunkId(doc))) = Len(rows.ids) + 1
        /\ Append(rows.ids, ChunkId(doc))[Len(rows.ids) + 1] = ChunkId(doc)
        /\ \A i \in 1..Len(rows.ids) : Append(rows.ids, ChunkId(doc))[i] = rows.ids[i]
    BY <1>1, <1>2, <1>4
  <2>4. /\ DOMAIN rows.corpus = 1..Len(rows.corpus) /\ DOMAIN rows.ids = 1..Len(rows.ids)
        /\ DOMAIN rows.projects = 1..Len(rows.projects)
        /\ DOMAIN rows.metadatas = 1..Len(rows.metadatas)
    BY <1>1
  <2>5. Aligned(rows')
    <3>1. DOMAIN rows'.corpus = 1..Len(rows'.corpus) /\ Len(rows'.corpus) \in Nat
      BY <1>1, <2>1, <2>3, <2>4
    <3>2. SUFFICES ASSUME NEW i \in DOMAIN rows'.corpus
                   PROVE  /\ i \in DOMAIN rows'.ids => rows'.ids[i] = ChunkId(rows'.corpus[i])
                          /\ i \in DOMAIN rows'.projects =>
                                rows'.projects[i] = rows'.corpus[i][1]
                          /\ i \in DOMAIN rows'.metadatas =>
                                rows'.metadatas[i] = rows'.corpus[i]
      BY DEF Aligned
    <3>3. CASE i \in DOMAIN rows.corpus /\ (i \in DOMAIN rows'.ids => i \in DOMAIN rows.ids)
      <4>1. i \in DOMAIN rows.ids => rows'.ids[i] = rows.ids[i]
        BY <2>1, <2>3
      <4> QED  BY <2>1, <2>2, <3>3, <4>1 DEF Aligned
    <3>4. CASE ~(i \in DOMAIN rows.corpus /\ (i \in DOMAIN rows'.ids => i \in DOMAIN rows.ids))
      <4>1. i = Len(rows.ids) + 1
        BY <1>1, <2>1, <2>3, <2>4, <3>1, <3>4
      <4>2. rows'.ids[i] = ChunkId(doc)
        BY <2>1, <2>3, <4>1
      <4> QED  BY <1>1, <1>6, <2>1, <2>2, <2>3, <2>4, <3>4, <4>1, <4>2 DEF Aligned
    <3> QED  BY <3>3, <3>4
  <2> QED
    BY <1>1, <1>6, <2>1, <2>2, <2>3, <2>5 DEF Complete, Shape, Behind, Between
<1>7. ASSUME rows' = [rows EXCEPT !.projects = Append(@, doc[1])], Shape(rows, "projects"), rows.corpus[Len(rows.corpus)] = doc
      PROVE  Shape(rows', "metadatas") /\ rows'.corpus[Len(rows'.corpus)] = doc
  <2>1. /\ rows'.projects = Append(rows.projects, doc[1])
        /\ rows'.corpus = rows.corpus /\ rows'.ids = rows.ids
        /\ rows'.metadatas = rows.metadatas
    BY <1>3, <1>7 DEF RowsType
  <2>2. /\ Aligned(rows)
        /\ Len(rows.ids) = Len(rows.corpus)
        /\ Len(rows.projects) = Len(rows.corpus) - 1
        /\ Len(rows.metadatas) = Len(rows.corpus) - 1
    BY <1>1, <1>7 DEF Complete, Shape, Behind, Between
  <2>3. /\ DOMAIN rows.projects = 1..Len(rows.projects)
        /\ DOMAIN Append(rows.projects, doc[1]) = 1..(Len(rows.projects) + 1)
        /\ Len(Append(rows.projects, doc[1])) = Len(rows.projects) + 1
        /\ Append(rows.projects, doc[1])[Len(rows.projects) + 1] = doc[1]
        /\ \A i \in 1..Len(rows.projects) : Append(rows.projects, doc[1])[i] = rows.projects[i]
    BY <1>1, <1>2, <1>4
  <2>4. /\ DOMAIN rows.corpus = 1..Len(rows.corpus) /\ DOMAIN rows.ids = 1..Len(rows.ids)
        /\ DOMAIN rows.projects = 1..Len(rows.projects)
        /\ DOMAIN rows.metadatas = 1..Len(rows.metadatas)
    BY <1>1
  <2>5. Aligned(rows')
    <3>1. DOMAIN rows'.corpus = 1..Len(rows'.corpus) /\ Len(rows'.corpus) \in Nat
      BY <1>1, <2>1, <2>3, <2>4
    <3>2. SUFFICES ASSUME NEW i \in DOMAIN rows'.corpus
                   PROVE  /\ i \in DOMAIN rows'.ids => rows'.ids[i] = ChunkId(rows'.corpus[i])
                          /\ i \in DOMAIN rows'.projects =>
                                rows'.projects[i] = rows'.corpus[i][1]
                          /\ i \in DOMAIN rows'.metadatas =>
                                rows'.metadatas[i] = rows'.corpus[i]
      BY DEF Aligned
    <3>3. CASE i \in DOMAIN rows.corpus /\ (i \in DOMAIN rows'.projects => i \in DOMAIN rows.projects)
      <4>1. i \in DOMAIN rows.projects => rows'.projects[i] = rows.projects[i]
        BY <2>1, <2>3
      <4> QED  BY <2>1, <2>2, <3>3, <4>1 DEF Aligned
    <3>4. CASE ~(i \in DOMAIN rows.corpus /\ (i \in DOMAIN rows'.projects => i \in DOMAIN rows.projects))
      <4>1. i = Len(rows.projects) + 1
        BY <1>1, <2>1, <2>3, <2>4, <3>1, <3>4
      <4>2. rows'.projects[i] = doc[1]
        BY <2>1, <2>3, <4>1
      <4> QED  BY <1>1, <1>7, <2>1, <2>2, <2>3, <2>4, <3>4, <4>1, <4>2 DEF Aligned
    <3> QED  BY <3>3, <3>4
  <2> QED
    BY <1>1, <1>7, <2>1, <2>2, <2>3, <2>5 DEF Complete, Shape, Behind, Between
<1>8. ASSUME rows' = [rows EXCEPT !.metadatas = Append(@, doc)], Shape(rows, "metadatas"), rows.corpus[Len(rows.corpus)] = doc
      PROVE  Complete(rows')
  <2>1. /\ rows'.metadatas = Append(rows.metadatas, doc)
        /\ rows'.corpus = rows.corpus /\ rows'.ids = rows.ids
        /\ rows'.projects = rows.projects
    BY <1>3, <1>8 DEF RowsType
  <2>2. /\ Aligned(rows)
        /\ Len(rows.ids) = Len(rows.corpus)
        /\ Len(rows.projects) = Len(rows.corpus)
        /\ Len(rows.metadatas) = Len(rows.corpus) - 1
    BY <1>1, <1>8 DEF Complete, Shape, Behind, Between
  <2>3. /\ DOMAIN rows.metadatas = 1..Len(rows.metadatas)
        /\ DOMAIN Append(rows.metadatas, doc) = 1..(Len(rows.metadatas) + 1)
        /\ Len(Append(rows.metadatas, doc)) = Len(rows.metadatas) + 1
        /\ Append(rows.metadatas, doc)[Len(rows.metadatas) + 1] = doc
        /\ \A i \in 1..Len(rows.metadatas) : Append(rows.metadatas, doc)[i] = rows.metadatas[i]
    BY <1>1, <1>2, <1>4
  <2>4. /\ DOMAIN rows.corpus = 1..Len(rows.corpus) /\ DOMAIN rows.ids = 1..Len(rows.ids)
        /\ DOMAIN rows.projects = 1..Len(rows.projects)
        /\ DOMAIN rows.metadatas = 1..Len(rows.metadatas)
    BY <1>1
  <2>5. Aligned(rows')
    <3>1. DOMAIN rows'.corpus = 1..Len(rows'.corpus) /\ Len(rows'.corpus) \in Nat
      BY <1>1, <2>1, <2>3, <2>4
    <3>2. SUFFICES ASSUME NEW i \in DOMAIN rows'.corpus
                   PROVE  /\ i \in DOMAIN rows'.ids => rows'.ids[i] = ChunkId(rows'.corpus[i])
                          /\ i \in DOMAIN rows'.projects =>
                                rows'.projects[i] = rows'.corpus[i][1]
                          /\ i \in DOMAIN rows'.metadatas =>
                                rows'.metadatas[i] = rows'.corpus[i]
      BY DEF Aligned
    <3>3. CASE i \in DOMAIN rows.corpus /\ (i \in DOMAIN rows'.metadatas => i \in DOMAIN rows.metadatas)
      <4>1. i \in DOMAIN rows.metadatas => rows'.metadatas[i] = rows.metadatas[i]
        BY <2>1, <2>3
      <4> QED  BY <2>1, <2>2, <3>3, <4>1 DEF Aligned
    <3>4. CASE ~(i \in DOMAIN rows.corpus /\ (i \in DOMAIN rows'.metadatas => i \in DOMAIN rows.metadatas))
      <4>1. i = Len(rows.metadatas) + 1
        BY <1>1, <2>1, <2>3, <2>4, <3>1, <3>4
      <4>2. rows'.metadatas[i] = doc
        BY <2>1, <2>3, <4>1
      <4> QED  BY <1>1, <1>8, <2>1, <2>2, <2>3, <2>4, <3>4, <4>1, <4>2 DEF Aligned
    <3> QED  BY <3>3, <3>4
  <2> QED
    BY <1>1, <1>8, <2>1, <2>2, <2>3, <2>5 DEF Complete, Shape, Behind, Between
<1> QED  BY <1>5, <1>6, <1>7, <1>8

LEMMA NoRows == Complete(EmptyRows)
  BY DEF Complete, Shape, Aligned, Behind, Between, EmptyRows

\* The lists agree but where one call is between them.
LEMMA ListsStayAligned ==
    ASSUME IndexInv, [IndexNext]_indexVars
    PROVE  ListsInv'
<1>0. IndexTypeOK /\ CallInv /\ SearchInv /\ ListsInv /\ DurableInv /\ QdrantInv
  BY DEF IndexInv
<1>1. /\ Clean' => Clean
      /\ Orderly' => Orderly
      /\ Orderly => Clean
      /\ overlap' \in {"harmless", "saves", "lists"}
  BY <1>0, OverlapStays
<1>2. ASSUME NEW t \in Threads, NEW u \in Uploads, StartAdd(t, u) PROVE ListsInv'
  <2>1. Moves(t, thread'[t]) /\ rows' = rows
    BY <1>0, <1>2, WriterSteps DEF Starts, Goes, Ends, StartAdd
  <2>2. thread[t].pc \notin Between /\ thread'[t].pc \notin Between
    BY <1>0, <1>2, WriterSteps, IdleFields DEF Starts, Goes, Ends, Free, Between, SaveSteps
  <2>3. Clean' => Complete(disk'.rows) /\ Complete(tmp'.rows)
    BY <1>0, <1>1, <1>2 DEF StartAdd, ListsInv
  <2> QED  BY <1>0, <1>1, <2>1, <2>2, <2>3, ListsKept
<1>3. ASSUME NEW t \in Threads, AddDense(t) PROVE ListsInv'
  <2>1. Moves(t, thread'[t]) /\ rows' = rows
    BY <1>0, <1>3, WriterSteps DEF Starts, Goes, Ends, AddDense
  <2>2. thread[t].pc \notin Between /\ thread'[t].pc \notin Between
    BY <1>0, <1>3, WriterSteps, IdleFields DEF Starts, Goes, Ends, Free, Between, SaveSteps
  <2>3. Clean' => Complete(disk'.rows) /\ Complete(tmp'.rows)
    BY <1>0, <1>1, <1>3 DEF AddDense, ListsInv
  <2> QED  BY <1>0, <1>1, <2>1, <2>2, <2>3, ListsKept
<1>4. ASSUME NEW t \in Threads, DenseFails(t) PROVE ListsInv'
  <2>1. Moves(t, thread'[t]) /\ rows' = rows
    BY <1>0, <1>4, WriterSteps DEF Starts, Goes, Ends, DenseFails
  <2>2. thread[t].pc \notin Between /\ thread'[t].pc \notin Between
    BY <1>0, <1>4, WriterSteps, IdleFields DEF Starts, Goes, Ends, Free, Between, SaveSteps
  <2>3. Clean' => Complete(disk'.rows) /\ Complete(tmp'.rows)
    BY <1>0, <1>1, <1>4 DEF DenseFails, ListsInv
  <2> QED  BY <1>0, <1>1, <2>1, <2>2, <2>3, ListsKept
<1>5. ASSUME NEW t \in Threads, AddRows(t) PROVE ListsInv'
  <2> DEFINE doc == thread[t].doc
  <2>1. SUFFICES ASSUME Clean' PROVE ListsInv'
    BY DEF ListsInv
  <2>2. Clean
    BY <1>1, <2>1
  <2>3. /\ Complete(disk'.rows) /\ Complete(tmp'.rows)
        /\ thread[t].pc \in {"corpus", "ids", "projects", "metadatas"}
        /\ \A o \in Threads \ {t} : thread[o].pc \notin Between
    BY <1>0, <1>5, <2>1, <2>2, AddRowsExtends DEF ListsInv, OverlapLists, Clean, OtherAt
  <2>4. doc \in Uploads /\ thread[t].project = doc[1]
    BY <1>0, <2>3 DEF CallInv, AddSteps
  <2>5. PICK next \in {"ids", "projects", "metadatas", "tokenize"} :
                 Moves(t, [thread[t] EXCEPT !.pc = next])
    BY <1>0, <1>5, AddRowsExtends
  <2>6. thread[t] \in ThreadType
    BY <1>0 DEF IndexTypeOK
  <2>7. \A o \in Threads \ {t} : thread'[o].pc \notin Between
    BY <2>3, <2>5 DEF Moves, Alike
  <2>8. CASE Extend(t, "corpus", "corpus", doc, "ids")
    <3>1. thread[t].pc = "corpus" /\ rows' = [rows EXCEPT !.corpus = Append(@, doc)]
      BY <2>8 DEF Extend, At
    <3>2. Moves(t, [thread[t] EXCEPT !.pc = "ids"])
      BY <1>0, <2>8, ExtendMoves DEF AddSteps
    <3>3. thread'[t].pc = "ids" /\ thread'[t].doc = doc
      BY <2>6, <3>2 DEF Moves, ThreadType
    <3>4. Complete(rows)
      BY <1>0, <2>2, <2>3, <3>1 DEF ListsInv, Between
    <3>5. Shape(rows', "ids") /\ rows'.corpus[Len(rows'.corpus)] = doc
      BY <1>0, <2>4, <3>1, <3>4, ListsExtended
    <3> QED  BY <2>3, <2>7, <3>3, <3>5 DEF ListsInv, Between
  <2>9. CASE Extend(t, "ids", "ids", ChunkId(doc), "projects")
    <3>1. thread[t].pc = "ids" /\ rows' = [rows EXCEPT !.ids = Append(@, ChunkId(doc))]
      BY <2>9 DEF Extend, At
    <3>2. Moves(t, [thread[t] EXCEPT !.pc = "projects"])
      BY <1>0, <2>9, ExtendMoves DEF AddSteps
    <3>3. thread'[t].pc = "projects" /\ thread'[t].doc = doc
      BY <2>6, <3>2 DEF Moves, ThreadType
    <3>4. Shape(rows, "ids") /\ rows.corpus[Len(rows.corpus)] = doc
      BY <1>0, <2>2, <2>3, <3>1 DEF ListsInv, Between
    <3>5. Shape(rows', "projects") /\ rows'.corpus[Len(rows'.corpus)] = doc
      BY <1>0, <2>4, <3>1, <3>4, ListsExtended
    <3> QED  BY <2>3, <2>7, <3>3, <3>5 DEF ListsInv, Between
  <2>10. CASE Extend(t, "projects", "projects", thread[t].project, "metadatas")
    <3>1. thread[t].pc = "projects" /\ rows' = [rows EXCEPT !.projects = Append(@, thread[t].project)]
      BY <2>10 DEF Extend, At
    <3>2. Moves(t, [thread[t] EXCEPT !.pc = "metadatas"])
      BY <1>0, <2>10, ExtendMoves DEF AddSteps
    <3>3. thread'[t].pc = "metadatas" /\ thread'[t].doc = doc
      BY <2>6, <3>2 DEF Moves, ThreadType
    <3>4. Shape(rows, "projects") /\ rows.corpus[Len(rows.corpus)] = doc
      BY <1>0, <2>2, <2>3, <3>1 DEF ListsInv, Between
    <3>5. Shape(rows', "metadatas") /\ rows'.corpus[Len(rows'.corpus)] = doc
      BY <1>0, <2>4, <3>1, <3>4, ListsExtended
    <3> QED  BY <2>3, <2>7, <3>3, <3>5 DEF ListsInv, Between
  <2>11. CASE Extend(t, "metadatas", "metadatas", doc, "tokenize")
    <3>1. thread[t].pc = "metadatas" /\ rows' = [rows EXCEPT !.metadatas = Append(@, doc)]
      BY <2>11 DEF Extend, At
    <3>2. Moves(t, [thread[t] EXCEPT !.pc = "tokenize"])
      BY <1>0, <2>11, ExtendMoves DEF AddSteps
    <3>3. thread'[t].pc = "tokenize" /\ thread'[t].doc = doc
      BY <2>6, <3>2 DEF Moves, ThreadType
    <3>4. Shape(rows, "metadatas") /\ rows.corpus[Len(rows.corpus)] = doc
      BY <1>0, <2>2, <2>3, <3>1 DEF ListsInv, Between
    <3>5. Complete(rows')
      BY <1>0, <2>4, <3>1, <3>4, ListsExtended
    <3> QED  BY <2>3, <2>7, <3>3, <3>5 DEF ListsInv, Between
  <2> QED  BY <1>5, <2>8, <2>9, <2>10, <2>11 DEF AddRows
<1>6. ASSUME NEW t \in Threads, Tokenize(t) PROVE ListsInv'
  <2>1. Moves(t, thread'[t]) /\ rows' = rows
    BY <1>0, <1>6, WriterSteps DEF Starts, Goes, Ends, Tokenize
  <2>2. thread[t].pc \notin Between /\ thread'[t].pc \notin Between
    BY <1>0, <1>6, WriterSteps, IdleFields DEF Starts, Goes, Ends, Free, Between, SaveSteps
  <2>3. Clean' => Complete(disk'.rows) /\ Complete(tmp'.rows)
    BY <1>0, <1>1, <1>6 DEF Tokenize, ListsInv
  <2> QED  BY <1>0, <1>1, <2>1, <2>2, <2>3, ListsKept
<1>7. ASSUME NEW t \in Threads, Rebuild(t) PROVE ListsInv'
  <2>1. Moves(t, thread'[t]) /\ rows' = rows
    BY <1>0, <1>7, WriterSteps DEF Starts, Goes, Ends, Rebuild
  <2>2. thread[t].pc \notin Between /\ thread'[t].pc \notin Between
    BY <1>0, <1>7, WriterSteps, IdleFields DEF Starts, Goes, Ends, Free, Between, SaveSteps
  <2>3. Clean' => Complete(disk'.rows) /\ Complete(tmp'.rows)
    BY <1>0, <1>1, <1>7 DEF Rebuild, ListsInv
  <2> QED  BY <1>0, <1>1, <2>1, <2>2, <2>3, ListsKept
<1>8. ASSUME NEW t \in Threads, SaveOpen(t) PROVE ListsInv'
  <2>1. Moves(t, thread'[t]) /\ rows' = rows
    BY <1>0, <1>8, WriterSteps DEF Starts, Goes, Ends, SaveOpen
  <2>2. thread[t].pc \notin Between /\ thread'[t].pc \notin Between
    BY <1>0, <1>8, WriterSteps, IdleFields DEF Starts, Goes, Ends, Free, Between, SaveSteps
  <2>3. Clean' => Complete(disk'.rows) /\ Complete(tmp'.rows)
    BY <1>0, <1>1, <1>8, NoRows DEF SaveOpen, ListsInv, PartialFile, NoFile
  <2> QED  BY <1>0, <1>1, <2>1, <2>2, <2>3, ListsKept
<1>9. ASSUME NEW t \in Threads, SaveDump(t) PROVE ListsInv'
  <2>1. Moves(t, thread'[t]) /\ rows' = rows
    BY <1>0, <1>9, WriterSteps DEF Starts, Goes, Ends, SaveDump
  <2>2. thread[t].pc \notin Between /\ thread'[t].pc \notin Between
    BY <1>0, <1>9, WriterSteps, IdleFields DEF Starts, Goes, Ends, Free, Between, SaveSteps
  <2>3. ASSUME Clean' PROVE Complete(disk'.rows) /\ Complete(tmp'.rows)
    <3>1. \A o \in Threads : thread[o].pc \notin Between
      BY <2>2, <2>3, <1>9 DEF SaveDump, OverlapLists, Clean, OtherAt
    <3>2. Complete(rows) /\ Complete(disk.rows) /\ Complete(tmp.rows)
      BY <1>0, <1>1, <2>3, <3>1 DEF ListsInv
    <3> QED  BY <1>9, <3>2 DEF SaveDump, Pickle
  <2> QED  BY <1>0, <1>1, <2>1, <2>2, <2>3, ListsKept
<1>10. ASSUME NEW t \in Threads, SaveReplace(t) PROVE ListsInv'
  <2>1. Moves(t, thread'[t]) /\ rows' = rows
    BY <1>0, <1>10, WriterSteps DEF Starts, Goes, Ends, SaveReplace
  <2>2. thread[t].pc \notin Between /\ thread'[t].pc \notin Between
    BY <1>0, <1>10, WriterSteps, IdleFields DEF Starts, Goes, Ends, Free, Between, SaveSteps
  <2>3. Clean' => Complete(disk'.rows) /\ Complete(tmp'.rows)
    BY <1>0, <1>1, <1>10, NoRows DEF SaveReplace, ListsInv, NoFile
  <2> QED  BY <1>0, <1>1, <2>1, <2>2, <2>3, ListsKept
<1>11. ASSUME NEW t \in Threads, SaveFails(t) PROVE ListsInv'
  <2>1. Moves(t, thread'[t]) /\ rows' = rows
    BY <1>0, <1>11, WriterSteps DEF Starts, Goes, Ends, SaveFails
  <2>2. thread[t].pc \notin Between /\ thread'[t].pc \notin Between
    BY <1>0, <1>11, WriterSteps, IdleFields DEF Starts, Goes, Ends, Free, Between, SaveSteps
  <2>3. Clean' => Complete(disk'.rows) /\ Complete(tmp'.rows)
    BY <1>0, <1>1, <1>11, NoRows DEF SaveFails, ListsInv, PartialFile, NoFile
  <2> QED  BY <1>0, <1>1, <2>1, <2>2, <2>3, ListsKept
<1>12. ASSUME NEW t \in Threads, NEW p \in Projects, StartWipe(t, p) PROVE ListsInv'
  <2>1. Moves(t, thread'[t]) /\ rows' = rows
    BY <1>0, <1>12, OtherSteps DEF Starts, Goes, Ends, StartWipe
  <2>2. thread[t].pc \notin Between /\ thread'[t].pc \notin Between
    BY <1>0, <1>12, OtherSteps, IdleFields DEF Starts, Goes, Ends, Free, Between, SaveSteps
  <2>3. Clean' => Complete(disk'.rows) /\ Complete(tmp'.rows)
    BY <1>0, <1>1, <1>12 DEF StartWipe, ListsInv
  <2> QED  BY <1>0, <1>1, <2>1, <2>2, <2>3, ListsKept
<1>13. ASSUME NEW t \in Threads, WipeDense(t) PROVE ListsInv'
  <2>1. Moves(t, thread'[t]) /\ rows' = rows
    BY <1>0, <1>13, OtherSteps DEF Starts, Goes, Ends, WipeDense
  <2>2. thread[t].pc \notin Between /\ thread'[t].pc \notin Between
    BY <1>0, <1>13, OtherSteps, IdleFields DEF Starts, Goes, Ends, Free, Between, SaveSteps
  <2>3. Clean' => Complete(disk'.rows) /\ Complete(tmp'.rows)
    BY <1>0, <1>1, <1>13 DEF WipeDense, ListsInv
  <2> QED  BY <1>0, <1>1, <2>1, <2>2, <2>3, ListsKept
<1>14. ASSUME NEW t \in Threads, WipeRows(t) PROVE ListsInv'
  <2>1. Moves(t, thread'[t]) /\ thread[t].pc \in WipeSteps /\ thread'[t].pc \notin Between
    BY <1>0, <1>14, OtherSteps, IdleFields DEF Goes, Ends, WipeSteps, Between
  <2>2. ASSUME NEW o \in Threads
        PROVE  thread[o].pc \notin Between /\ thread'[o].pc \notin Between
    <3>1. CASE o = t
      BY <2>1, <3>1 DEF Between, WipeSteps
    <3>2. CASE o # t
      <4>1. Free(o)
        BY <1>0, <2>1, <3>2 DEF CallInv
      <4>2. thread'[o].pc = thread[o].pc
        BY <2>1, <3>2 DEF Moves, Alike
      <4> QED  BY <4>1, <4>2 DEF Free, Between
    <3> QED  BY <3>1, <3>2
  <2>3. Clean => Complete(rows')
    BY <1>0, <1>14, <2>2, WipedLists DEF ListsInv
  <2>4. disk' = disk /\ tmp' = tmp
    BY <1>14 DEF WipeRows
  <2> QED  BY <1>0, <1>1, <2>2, <2>3, <2>4 DEF ListsInv
<1>15. ASSUME NEW t \in Threads, NEW p \in Projects, StartSearch(t, p) PROVE ListsInv'
  <2>1. Moves(t, thread'[t]) /\ rows' = rows
    BY <1>0, <1>15, OtherSteps DEF Starts, Goes, Ends, StartSearch
  <2>2. thread[t].pc \notin Between /\ thread'[t].pc \notin Between
    BY <1>0, <1>15, OtherSteps, IdleFields DEF Starts, Goes, Ends, Free, Between, SaveSteps
  <2>3. Clean' => Complete(disk'.rows) /\ Complete(tmp'.rows)
    BY <1>0, <1>1, <1>15 DEF StartSearch, ListsInv
  <2> QED  BY <1>0, <1>1, <2>1, <2>2, <2>3, ListsKept
<1>16. ASSUME NEW t \in Threads, SearchDense(t) PROVE ListsInv'
  <2>1. Moves(t, thread'[t]) /\ rows' = rows
    BY <1>0, <1>16, OtherSteps DEF Starts, Goes, Ends, SearchDense
  <2>2. thread[t].pc \notin Between /\ thread'[t].pc \notin Between
    BY <1>0, <1>16, OtherSteps, IdleFields DEF Starts, Goes, Ends, Free, Between, SaveSteps
  <2>3. Clean' => Complete(disk'.rows) /\ Complete(tmp'.rows)
    BY <1>0, <1>1, <1>16 DEF SearchDense, ListsInv
  <2> QED  BY <1>0, <1>1, <2>1, <2>2, <2>3, ListsKept
<1>17. ASSUME NEW t \in Threads, SearchScope(t) PROVE ListsInv'
  <2>1. Moves(t, thread'[t]) /\ rows' = rows
    BY <1>0, <1>17, OtherSteps DEF Starts, Goes, Ends, SearchScope
  <2>2. thread[t].pc \notin Between /\ thread'[t].pc \notin Between
    BY <1>0, <1>17, OtherSteps, IdleFields DEF Starts, Goes, Ends, Free, Between, SaveSteps
  <2>3. Clean' => Complete(disk'.rows) /\ Complete(tmp'.rows)
    BY <1>0, <1>1, <1>17 DEF SearchScope, ListsInv
  <2> QED  BY <1>0, <1>1, <2>1, <2>2, <2>3, ListsKept
<1>18. ASSUME NEW t \in Threads, SearchScore(t) PROVE ListsInv'
  <2>1. Moves(t, thread'[t]) /\ rows' = rows
    BY <1>0, <1>18, OtherSteps DEF Starts, Goes, Ends, SearchScore
  <2>2. thread[t].pc \notin Between /\ thread'[t].pc \notin Between
    BY <1>0, <1>18, OtherSteps, IdleFields DEF Starts, Goes, Ends, Free, Between, SaveSteps
  <2>3. Clean' => Complete(disk'.rows) /\ Complete(tmp'.rows)
    BY <1>0, <1>1, <1>18 DEF SearchScore, ListsInv
  <2> QED  BY <1>0, <1>1, <2>1, <2>2, <2>3, ListsKept
<1>19. ASSUME NEW t \in Threads, SearchRead(t) PROVE ListsInv'
  <2>1. Moves(t, thread'[t]) /\ rows' = rows
    BY <1>0, <1>19, OtherSteps DEF Starts, Goes, Ends, SearchRead
  <2>2. thread[t].pc \notin Between /\ thread'[t].pc \notin Between
    BY <1>0, <1>19, OtherSteps, IdleFields DEF Starts, Goes, Ends, Free, Between, SaveSteps
  <2>3. Clean' => Complete(disk'.rows) /\ Complete(tmp'.rows)
    BY <1>0, <1>1, <1>19 DEF SearchRead, ListsInv
  <2> QED  BY <1>0, <1>1, <2>1, <2>2, <2>3, ListsKept
<1>20. ASSUME ServiceRestart PROVE ListsInv'
  <2>1. \A t \in Threads : thread'[t].pc \notin Between
    BY <1>20, IdleFields DEF ServiceRestart, Between
  <2>2. Clean' => Complete(rows') /\ Complete(disk'.rows)
    BY <1>0, <1>1, <1>20 DEF ServiceRestart, ListsInv
  <2>3. tmp'.rows = EmptyRows
    BY <1>20 DEF ServiceRestart, NoFile
  <2> QED  BY <2>1, <2>2, <2>3, NoRows DEF ListsInv
<1>21. ASSUME UNCHANGED indexVars PROVE ListsInv'
  BY <1>0, <1>21 DEF ListsInv, Clean, indexVars
<1> QED
  BY <1>2, <1>3, <1>4, <1>5, <1>6, <1>7, <1>8, <1>9, <1>10, <1>11, <1>12, <1>13,
     <1>14, <1>15, <1>16, <1>17, <1>18, <1>19, <1>20, <1>21
  DEF IndexNext

\* What is stored stays stored as rows are added and more of them are scored.
LEMMA StoredGrows ==
    ASSUME IndexTypeOK, RowsGrow, NEW n \in Nat, NEW m \in Nat, n <= m,
           NEW u, Stored(rows, n, u)
    PROVE  Stored(rows', m, u)
<1>1. PICK i \in DOMAIN rows.projects \cap DOMAIN rows.corpus : i <= n /\ rows.corpus[i] = u
  BY DEF Stored
<1>2. i \in Nat
  BY <1>1 DEF IndexTypeOK, RowsType
<1>3. i <= m
  BY <1>1, <1>2
<1> QED  BY <1>1, <1>3 DEF RowsGrow, Stored

\* Thread t takes a step that adds rows or none, and no save is beside it that it disturbs.
LEMMA DurableKept ==
    ASSUME IndexTypeOK, IndexTypeOK', DurableInv, Orderly,
           NEW t \in Threads, Moves(t, thread'[t]), RowsGrow, scored <= scored',
           \/ acked' \subseteq acked /\ tmp' = tmp
           \/ ~OtherAt(t, {"dump", "replace"}),
           thread'[t].pc \in {"dump", "replace"} => ~OtherAt(t, {"dump", "replace"}),
           \A u \in acked' : Stored(rows', scored', u) /\ Stored(disk'.rows, disk'.scored, u),
           AdderInv(t)', SaverInv(t)'
    PROVE  DurableInv'
<1>1. \A o \in Threads \ {t} : Alike(thread[o], thread'[o])
  BY DEF Moves
<1>2. /\ Len(rows.corpus) \in Nat /\ Len(rows'.corpus) \in Nat /\ scored \in Nat /\ scored' \in Nat
      /\ \A o \in Threads : thread[o].count \in Nat /\ thread[o].count <= thread[o].count
  BY DEF IndexTypeOK, RowsType, ThreadType
<1>3. Len(rows.corpus) <= Len(rows'.corpus)
  BY DEF RowsGrow
<1>4. ASSUME NEW o \in Threads \ {t} PROVE AdderInv(o)'
  <2>1. AdderInv(o)
    BY DEF DurableInv
  <2>2. /\ Stored(rows, Len(rows.corpus), thread[o].doc) =>
              Stored(rows', Len(rows'.corpus), thread[o].doc)
        /\ Stored(rows, thread[o].count, thread[o].doc) =>
              Stored(rows', thread[o].count, thread[o].doc)
        /\ Stored(rows, scored, thread[o].doc) => Stored(rows', scored', thread[o].doc)
    BY <1>2, <1>3, StoredGrows
  <2> QED  BY <1>1, <2>1, <2>2 DEF AdderInv, Alike
<1>5. ASSUME NEW o \in Threads \ {t} PROVE SaverInv(o)'
  <2>1. thread'[o].pc = thread[o].pc
    BY <1>1 DEF Alike
  <2>2. CASE thread[o].pc \notin {"dump", "replace"}
    BY <2>1, <2>2 DEF SaverInv
  <2>3. CASE thread[o].pc \in {"dump", "replace"}
    <3>1. acked' \subseteq acked /\ tmp' = tmp
      BY <2>3 DEF OtherAt
    <3>2. thread[t].pc # "replace"
      BY <2>3 DEF DurableInv
    <3>3. thread'[o] = thread[o]
      BY <3>2 DEF Moves
    <3>4. Owed(o)' \subseteq Owed(o)
      BY <3>1, <3>3 DEF Owed
    <3>5. SaverInv(o)
      BY DEF DurableInv
    <3>6. \A u : Stored(rows, thread[o].count, u) => Stored(rows', thread[o].count, u)
      BY <1>2, StoredGrows
    <3> QED  BY <3>1, <3>3, <3>4, <3>5, <3>6 DEF SaverInv
  <2> QED  BY <2>2, <2>3
<1>6. ASSUME NEW o \in Threads, NEW x \in Threads,
             thread'[o].pc \in {"dump", "replace"}, thread'[x].pc \in {"dump", "replace"}
      PROVE  o = x
  BY <1>1, <1>6 DEF OtherAt, Alike, DurableInv
<1> QED  BY <1>4, <1>5, <1>6 DEF DurableInv

\* A step before or after the saving.
LEMMA DurableAside ==
    ASSUME IndexTypeOK, IndexTypeOK', DurableInv, Orderly,
           NEW t \in Threads, Moves(t, thread'[t]), RowsGrow, scored <= scored',
           acked' \subseteq acked, tmp' = tmp, disk' = disk,
           thread'[t].pc \notin {"dump", "replace"}, AdderInv(t)'
    PROVE  DurableInv'
<1>1. SaverInv(t)'
  BY DEF SaverInv
<1>2. scored \in Nat /\ scored' \in Nat
  BY DEF IndexTypeOK
<1>3. \A u \in acked' : Stored(rows', scored', u) /\ Stored(disk'.rows, disk'.scored, u)
  BY <1>2, StoredGrows DEF DurableInv
<1> QED  BY <1>1, <1>3, DurableKept

\* A wipe is alone.
LEMMA WipesAlone ==
    ASSUME CallInv, NEW t \in Threads, Moves(t, thread'[t]), thread[t].pc \in WipeSteps
    PROVE  /\ \A o \in Threads \ {t} : thread'[o].pc \in {"idle", "found"}
           /\ \A o \in Threads : thread[o].pc \notin Between
<1>1. \A o \in Threads \ {t} : Free(o)
  BY DEF CallInv
<1> QED  BY <1>1 DEF Moves, Alike, Free, WipeSteps, Between

\* What is acknowledged stays in memory and on disk.
LEMMA DurableStays ==
    ASSUME IndexInv, [IndexNext]_indexVars
    PROVE  DurableInv'
<1>0. IndexTypeOK /\ CallInv /\ SearchInv /\ ListsInv /\ DurableInv /\ QdrantInv
  BY DEF IndexInv
<1>1. /\ Clean' => Clean
      /\ Orderly' => Orderly
      /\ Orderly => Clean
      /\ overlap' \in {"harmless", "saves", "lists"}
  BY <1>0, OverlapStays
<1>2. ASSUME NEW t \in Threads, NEW u \in Uploads, StartAdd(t, u) PROVE DurableInv'
  <2>1. SUFFICES ASSUME Orderly' PROVE DurableInv'
    BY DEF DurableInv
  <2>2. Orderly /\ Clean /\ IndexTypeOK'
    BY <1>1, <2>1, TypesKept
  <2>3. Moves(t, thread'[t])
    BY <1>0, <1>2, WriterSteps DEF Starts, Goes, Ends
  <2>4. RowsGrow /\ scored <= scored'
    <3>1. scored \in Nat /\ rows' = rows /\ scored' = scored
      BY <1>0, <1>2 DEF StartAdd, IndexTypeOK
    <3> QED  BY <1>0, <3>1, SameRowsGrow
  <2>5. thread'[t].pc \notin {"metadatas", "tokenize", "rebuild"} \cup SaveSteps
    BY <1>0, <1>2, WriterSteps, IdleFields DEF Starts, Goes, Ends, SaveSteps
  <2>6. AdderInv(t)' /\ thread'[t].pc \notin {"dump", "replace"}
    BY <2>5 DEF AdderInv, SaveSteps
  <2>7. acked' \subseteq acked /\ tmp' = tmp /\ disk' = disk
    BY <1>2 DEF StartAdd
  <2> QED  BY <1>0, <2>2, <2>3, <2>4, <2>6, <2>7, DurableAside
<1>3. ASSUME NEW t \in Threads, AddDense(t) PROVE DurableInv'
  <2>1. SUFFICES ASSUME Orderly' PROVE DurableInv'
    BY DEF DurableInv
  <2>2. Orderly /\ Clean /\ IndexTypeOK'
    BY <1>1, <2>1, TypesKept
  <2>3. Moves(t, thread'[t])
    BY <1>0, <1>3, WriterSteps DEF Starts, Goes, Ends
  <2>4. RowsGrow /\ scored <= scored'
    <3>1. scored \in Nat /\ rows' = rows /\ scored' = scored
      BY <1>0, <1>3 DEF AddDense, IndexTypeOK
    <3> QED  BY <1>0, <3>1, SameRowsGrow
  <2>5. thread'[t].pc \notin {"metadatas", "tokenize", "rebuild"} \cup SaveSteps
    BY <1>0, <1>3, WriterSteps, IdleFields DEF Starts, Goes, Ends, SaveSteps
  <2>6. AdderInv(t)' /\ thread'[t].pc \notin {"dump", "replace"}
    BY <2>5 DEF AdderInv, SaveSteps
  <2>7. acked' \subseteq acked /\ tmp' = tmp /\ disk' = disk
    BY <1>3 DEF AddDense
  <2> QED  BY <1>0, <2>2, <2>3, <2>4, <2>6, <2>7, DurableAside
<1>4. ASSUME NEW t \in Threads, DenseFails(t) PROVE DurableInv'
  <2>1. SUFFICES ASSUME Orderly' PROVE DurableInv'
    BY DEF DurableInv
  <2>2. Orderly /\ Clean /\ IndexTypeOK'
    BY <1>1, <2>1, TypesKept
  <2>3. Moves(t, thread'[t])
    BY <1>0, <1>4, WriterSteps DEF Starts, Goes, Ends
  <2>4. RowsGrow /\ scored <= scored'
    <3>1. scored \in Nat /\ rows' = rows /\ scored' = scored
      BY <1>0, <1>4 DEF DenseFails, IndexTypeOK
    <3> QED  BY <1>0, <3>1, SameRowsGrow
  <2>5. thread'[t].pc \notin {"metadatas", "tokenize", "rebuild"} \cup SaveSteps
    BY <1>0, <1>4, WriterSteps, IdleFields DEF Starts, Goes, Ends, SaveSteps
  <2>6. AdderInv(t)' /\ thread'[t].pc \notin {"dump", "replace"}
    BY <2>5 DEF AdderInv, SaveSteps
  <2>7. acked' \subseteq acked /\ tmp' = tmp /\ disk' = disk
    BY <1>4 DEF DenseFails
  <2> QED  BY <1>0, <2>2, <2>3, <2>4, <2>6, <2>7, DurableAside
<1>5. ASSUME NEW t \in Threads, AddRows(t) PROVE DurableInv'
  <2>1. SUFFICES ASSUME Orderly' PROVE DurableInv'
    BY DEF DurableInv
  <2>2. Orderly /\ Clean /\ IndexTypeOK'
    BY <1>1, <2>1, TypesKept
  <2> DEFINE doc == thread[t].doc
  <2>3. /\ RowsGrow /\ scored' = scored /\ disk' = disk /\ tmp' = tmp /\ acked' = acked
        /\ scored \in Nat /\ thread[t] \in ThreadType
    BY <1>0, <1>5, AddRowsExtends DEF IndexTypeOK
  <2>4. scored <= scored'
    BY <2>3
  <2>5. CASE Extend(t, "corpus", "corpus", doc, "ids")
    <3>1. Moves(t, [thread[t] EXCEPT !.pc = "ids"])
      BY <1>0, <2>5, ExtendMoves DEF AddSteps
    <3>2. Moves(t, thread'[t]) /\ thread'[t].pc = "ids" /\ thread'[t].doc = doc
      BY <2>3, <3>1 DEF Moves, ThreadType
    <3>3. AdderInv(t)'
      BY <3>2 DEF AdderInv, SaveSteps
    <3> QED  BY <1>0, <2>2, <2>3, <2>4, <3>2, <3>3, DurableAside
  <2>6. CASE Extend(t, "ids", "ids", ChunkId(doc), "projects")
    <3>1. Moves(t, [thread[t] EXCEPT !.pc = "projects"])
      BY <1>0, <2>6, ExtendMoves DEF AddSteps
    <3>2. Moves(t, thread'[t]) /\ thread'[t].pc = "projects" /\ thread'[t].doc = doc
      BY <2>3, <3>1 DEF Moves, ThreadType
    <3>3. AdderInv(t)'
      BY <3>2 DEF AdderInv, SaveSteps
    <3> QED  BY <1>0, <2>2, <2>3, <2>4, <3>2, <3>3, DurableAside
  <2>7. CASE Extend(t, "projects", "projects", thread[t].project, "metadatas")
    <3>1. Moves(t, [thread[t] EXCEPT !.pc = "metadatas"])
      BY <1>0, <2>7, ExtendMoves DEF AddSteps
    <3>2. Moves(t, thread'[t]) /\ thread'[t].pc = "metadatas" /\ thread'[t].doc = doc
      BY <2>3, <3>1 DEF Moves, ThreadType
    <3>3. Stored(rows', Len(rows'.corpus), doc)
      <4>1. /\ thread[t].pc = "projects"
            /\ rows' = [rows EXCEPT !.projects = Append(@, thread[t].project)]
        BY <2>7 DEF Extend, At
      <4>2. Shape(rows, "projects") /\ rows.corpus[Len(rows.corpus)] = doc
        BY <1>0, <2>2, <4>1 DEF ListsInv, Between
      <4>3. /\ rows.corpus \in Seq(Doc) /\ rows.projects \in Seq(Projects)
            /\ Len(rows.corpus) \in Nat /\ Len(rows.projects) \in Nat
            /\ rows'.corpus = rows.corpus
            /\ rows'.projects = Append(rows.projects, thread[t].project)
        BY <1>0, <4>1 DEF IndexTypeOK, RowsType
      <4>4. Len(rows.projects) + 1 = Len(rows.corpus)
        BY <4>2 DEF Shape, Behind
      <4>5. Len(rows.corpus) \in DOMAIN rows'.projects \cap DOMAIN rows'.corpus
        BY <4>3, <4>4
      <4>6. Len(rows.corpus) <= Len(rows'.corpus)
        BY <4>3
      <4> QED  BY <4>2, <4>3, <4>5, <4>6 DEF Stored
    <3>4. AdderInv(t)'
      BY <3>2, <3>3 DEF AdderInv, SaveSteps
    <3> QED  BY <1>0, <2>2, <2>3, <2>4, <3>2, <3>4, DurableAside
  <2>8. CASE Extend(t, "metadatas", "metadatas", doc, "tokenize")
    <3>1. Moves(t, [thread[t] EXCEPT !.pc = "tokenize"])
      BY <1>0, <2>8, ExtendMoves DEF AddSteps
    <3>2. Moves(t, thread'[t]) /\ thread'[t].pc = "tokenize" /\ thread'[t].doc = doc
      BY <2>3, <3>1 DEF Moves, ThreadType
    <3>3. Stored(rows, Len(rows.corpus), doc)
      <4>1. thread[t].pc = "metadatas"
        BY <2>8 DEF Extend, At
      <4> QED  BY <1>0, <2>2, <4>1 DEF DurableInv, AdderInv
    <3>4. Stored(rows', Len(rows'.corpus), doc)
      <4>1. Len(rows.corpus) \in Nat /\ Len(rows'.corpus) \in Nat
        BY <1>0, <2>2 DEF IndexTypeOK, RowsType
      <4>2. Len(rows.corpus) <= Len(rows'.corpus)
        BY <2>3 DEF RowsGrow
      <4> QED  BY <1>0, <2>3, <3>3, <4>1, <4>2, StoredGrows
    <3>5. AdderInv(t)'
      BY <3>2, <3>4 DEF AdderInv, SaveSteps
    <3> QED  BY <1>0, <2>2, <2>3, <2>4, <3>2, <3>5, DurableAside
  <2> QED  BY <1>5, <2>5, <2>6, <2>7, <2>8 DEF AddRows
<1>6. ASSUME NEW t \in Threads, Tokenize(t) PROVE DurableInv'
  <2>1. SUFFICES ASSUME Orderly' PROVE DurableInv'
    BY DEF DurableInv
  <2>2. Orderly /\ Clean /\ IndexTypeOK'
    BY <1>1, <2>1, TypesKept
  <2>3. Moves(t, thread'[t])
    BY <1>0, <1>6, WriterSteps DEF Starts, Goes, Ends
  <2>4. RowsGrow /\ scored <= scored'
    <3>1. scored \in Nat /\ rows' = rows /\ scored' = scored
      BY <1>0, <1>6 DEF Tokenize, IndexTypeOK
    <3> QED  BY <1>0, <3>1, SameRowsGrow
  <2>5. Stored(rows, Len(rows.corpus), thread[t].doc)
    BY <1>0, <1>6, <2>2 DEF Tokenize, At, DurableInv, AdderInv
  <2>6. AdderInv(t)' /\ thread'[t].pc = "rebuild"
    <3>1. /\ thread'[t].pc = "rebuild" /\ thread'[t].doc = thread[t].doc
          /\ thread'[t].count = Len(rows.corpus)
      BY <1>0, <1>6, WriterSteps DEF Goes
    <3>2. rows' = rows
      BY <1>6 DEF Tokenize
    <3> QED  BY <2>5, <3>1, <3>2 DEF AdderInv, SaveSteps
  <2>7. acked' = acked /\ tmp' = tmp /\ disk' = disk
    BY <1>6 DEF Tokenize
  <2> QED  BY <1>0, <2>2, <2>3, <2>4, <2>6, <2>7, DurableAside
<1>7. ASSUME NEW t \in Threads, Rebuild(t) PROVE DurableInv'
  <2>1. SUFFICES ASSUME Orderly' PROVE DurableInv'
    BY DEF DurableInv
  <2>2. Orderly /\ Clean /\ IndexTypeOK'
    BY <1>1, <2>1, TypesKept
  <2>3. Moves(t, thread'[t])
    BY <1>0, <1>7, WriterSteps DEF Starts, Goes, Ends
  <2>4. RowsGrow /\ rows' = rows
    BY <1>0, <1>7, SameRowsGrow DEF Rebuild
  <2>5. scored' = thread[t].count /\ scored \in Nat /\ thread[t].count \in Nat
    BY <1>0, <1>7 DEF Rebuild, IndexTypeOK, ThreadType
  <2>6. ~(thread[t].count < scored)
    BY <1>7, <2>1 DEF Rebuild, OverlapSaves, Orderly
  <2>7. scored <= scored'
    BY <2>5, <2>6
  <2>8. Stored(rows, thread[t].count, thread[t].doc)
    BY <1>0, <1>7, <2>2 DEF Rebuild, At, DurableInv, AdderInv
  <2>9. AdderInv(t)' /\ thread'[t].pc = "open"
    <3>1. thread'[t].pc = "open" /\ thread'[t].doc = thread[t].doc
      BY <1>0, <1>7, WriterSteps DEF Goes
    <3> QED  BY <2>4, <2>5, <2>8, <3>1 DEF AdderInv, SaveSteps
  <2>10. acked' = acked /\ tmp' = tmp /\ disk' = disk
    BY <1>7 DEF Rebuild
  <2> QED  BY <1>0, <2>2, <2>3, <2>4, <2>7, <2>9, <2>10, DurableAside
<1>8. ASSUME NEW t \in Threads, SaveOpen(t) PROVE DurableInv'
  <2>1. SUFFICES ASSUME Orderly' PROVE DurableInv'
    BY DEF DurableInv
  <2>2. Orderly /\ Clean /\ IndexTypeOK'
    BY <1>1, <2>1, TypesKept
  <2>3. Moves(t, thread'[t])
    BY <1>0, <1>8, WriterSteps DEF Starts, Goes, Ends
  <2>4. RowsGrow /\ scored <= scored'
    <3>1. scored \in Nat /\ rows' = rows /\ scored' = scored
      BY <1>0, <1>8 DEF SaveOpen, IndexTypeOK
    <3> QED  BY <1>0, <3>1, SameRowsGrow
  <2>5. /\ thread'[t].pc = "dump" /\ thread'[t].doc = thread[t].doc /\ thread[t].pc \in SaveSteps
    BY <1>0, <1>8, WriterSteps DEF Goes, SaveSteps
  <2>6. /\ acked' = acked /\ disk' = disk /\ rows' = rows /\ scored' = scored
        /\ ~OtherAt(t, {"dump", "replace"})
    BY <1>8, <2>1 DEF SaveOpen, OverlapSaves, Orderly
  <2>7. \A u \in Owed(t) : Stored(rows, scored, u)
    BY <1>0, <2>2, <2>5 DEF Owed, DurableInv, AdderInv
  <2>8. Owed(t)' = Owed(t)
    BY <2>5, <2>6 DEF Owed
  <2>9. SaverInv(t)'
    <3>1. thread'[t].handle = "tmp" /\ thread'[t].count = scored
      BY <1>0, <1>8, WriterSteps
    <3> QED  BY <2>5, <2>6, <2>7, <2>8, <3>1 DEF SaverInv
  <2>10. AdderInv(t)'
    BY <1>0, <2>2, <2>5, <2>6 DEF DurableInv, AdderInv, SaveSteps
  <2>11. \A u \in acked' : Stored(rows', scored', u) /\ Stored(disk'.rows, disk'.scored, u)
    BY <1>0, <2>2, <2>6 DEF DurableInv
  <2> QED  BY <1>0, <2>2, <2>3, <2>4, <2>6, <2>9, <2>10, <2>11, DurableKept
<1>9. ASSUME NEW t \in Threads, SaveDump(t) PROVE DurableInv'
  <2>1. SUFFICES ASSUME Orderly' PROVE DurableInv'
    BY DEF DurableInv
  <2>2. Orderly /\ Clean /\ IndexTypeOK'
    BY <1>1, <2>1, TypesKept
  <2>3. Moves(t, thread'[t])
    BY <1>0, <1>9, WriterSteps DEF Starts, Goes, Ends
  <2>4. RowsGrow /\ scored <= scored'
    <3>1. scored \in Nat /\ rows' = rows /\ scored' = scored
      BY <1>0, <1>9 DEF SaveDump, IndexTypeOK
    <3> QED  BY <1>0, <3>1, SameRowsGrow
  <2>5. /\ thread'[t].pc = "replace" /\ thread'[t].doc = thread[t].doc /\ thread[t].pc \in SaveSteps
    BY <1>0, <1>9, WriterSteps DEF Goes, SaveSteps
  <2>6. /\ acked' = acked /\ disk' = disk /\ rows' = rows /\ scored' = scored
        /\ ~OtherAt(t, {"dump", "replace"})
    <3>1. thread[t].handle = "tmp"
      BY <1>0, <1>9, <2>2 DEF SaveDump, At, DurableInv, SaverInv
    <3>2. ~OtherAt(t, {"dump", "replace"})
      BY <1>0, <1>9, <2>2 DEF SaveDump, At, DurableInv, OtherAt
    <3> QED  BY <1>9, <3>1, <3>2 DEF SaveDump
  <2>7. \A u \in Owed(t) : Stored(rows, thread[t].count, u)
    BY <1>0, <1>9, <2>2 DEF SaveDump, At, DurableInv, SaverInv
  <2>8. Owed(t)' = Owed(t)
    BY <2>5, <2>6 DEF Owed
  <2>9. SaverInv(t)'
    <3>1. tmp' = Pickle(rows, thread[t].count)
      BY <1>0, <1>9, <2>2 DEF SaveDump, At, DurableInv, SaverInv
    <3> QED  BY <2>5, <2>7, <2>8, <3>1 DEF SaverInv, Pickle
  <2>10. AdderInv(t)'
    BY <1>0, <2>2, <2>5, <2>6 DEF DurableInv, AdderInv, SaveSteps
  <2>11. \A u \in acked' : Stored(rows', scored', u) /\ Stored(disk'.rows, disk'.scored, u)
    BY <1>0, <2>2, <2>6 DEF DurableInv
  <2> QED  BY <1>0, <2>2, <2>3, <2>4, <2>6, <2>9, <2>10, <2>11, DurableKept
<1>10. ASSUME NEW t \in Threads, SaveReplace(t) PROVE DurableInv'
  <2>1. SUFFICES ASSUME Orderly' PROVE DurableInv'
    BY DEF DurableInv
  <2>2. Orderly /\ Clean /\ IndexTypeOK'
    BY <1>1, <2>1, TypesKept
  <2>3. Moves(t, thread'[t])
    BY <1>0, <1>10, WriterSteps DEF Starts, Goes, Ends
  <2>4. RowsGrow /\ scored <= scored'
    <3>1. scored \in Nat /\ rows' = rows /\ scored' = scored
      BY <1>0, <1>10 DEF SaveReplace, IndexTypeOK
    <3> QED  BY <1>0, <3>1, SameRowsGrow
  <2>5. thread'[t].pc = "idle" /\ thread[t].pc \in SaveSteps
    BY <1>0, <1>10, WriterSteps, IdleFields DEF Ends, SaveSteps
  <2>6. AdderInv(t)' /\ SaverInv(t)'
    BY <2>5 DEF AdderInv, SaverInv, SaveSteps
  <2>7. rows' = rows /\ scored' = scored
    BY <1>10 DEF SaveReplace
  <2>8. ~OtherAt(t, {"dump", "replace"}) /\ thread[t].pc = "replace"
    BY <1>0, <1>10, <2>2 DEF SaveReplace, At, DurableInv, OtherAt
  <2>9. \A u \in acked' : Stored(rows, scored, u) /\ Stored(disk'.rows, disk'.scored, u)
    <3>1. CASE tmp.state = "absent"
      BY <1>0, <1>10, <2>2, <3>1 DEF SaveReplace, DurableInv
    <3>2. CASE tmp.state # "absent"
      <4>1. disk' = tmp /\ acked' = Owed(t)
        BY <1>10, <3>2 DEF SaveReplace, Owed
      <4>2. \A u \in Owed(t) : Stored(tmp.rows, tmp.scored, u)
        BY <1>0, <2>2, <2>8 DEF DurableInv, SaverInv
      <4>3. \A u \in Owed(t) : Stored(rows, scored, u)
        BY <1>0, <2>2, <2>5 DEF DurableInv, AdderInv, Owed
      <4> QED  BY <4>1, <4>2, <4>3
    <3> QED  BY <3>1, <3>2
  <2> QED  BY <1>0, <2>2, <2>3, <2>4, <2>5, <2>6, <2>7, <2>8, <2>9, DurableKept
<1>11. ASSUME NEW t \in Threads, SaveFails(t) PROVE DurableInv'
  <2>1. SUFFICES ASSUME Orderly' PROVE DurableInv'
    BY DEF DurableInv
  <2>2. Orderly /\ Clean /\ IndexTypeOK'
    BY <1>1, <2>1, TypesKept
  <2>3. Moves(t, thread'[t])
    BY <1>0, <1>11, WriterSteps DEF Starts, Goes, Ends
  <2>4. RowsGrow /\ scored <= scored'
    <3>1. scored \in Nat /\ rows' = rows /\ scored' = scored
      BY <1>0, <1>11 DEF SaveFails, IndexTypeOK
    <3> QED  BY <1>0, <3>1, SameRowsGrow
  <2>5. thread'[t].pc = "idle" /\ thread[t].pc \in SaveSteps
    BY <1>0, <1>11, WriterSteps, IdleFields DEF Ends, SaveSteps
  <2>6. AdderInv(t)' /\ SaverInv(t)'
    BY <2>5 DEF AdderInv, SaverInv, SaveSteps
  <2>7. rows' = rows /\ scored' = scored
    BY <1>11 DEF SaveFails
  <2>8. /\ acked' = acked /\ disk' = disk
        /\ tmp' = tmp \/ ~OtherAt(t, {"dump", "replace"})
    BY <1>11 DEF SaveFails
  <2>9. \A u \in acked' : Stored(rows, scored, u) /\ Stored(disk'.rows, disk'.scored, u)
    BY <1>0, <2>2, <2>8 DEF DurableInv
  <2> QED  BY <1>0, <2>2, <2>3, <2>4, <2>5, <2>6, <2>7, <2>8, <2>9, DurableKept
<1>12. ASSUME NEW t \in Threads, NEW p \in Projects, StartWipe(t, p) PROVE DurableInv'
  <2>1. SUFFICES ASSUME Orderly' PROVE DurableInv'
    BY DEF DurableInv
  <2>2. Orderly /\ Clean /\ IndexTypeOK'
    BY <1>1, <2>1, TypesKept
  <2>3. Moves(t, thread'[t])
    BY <1>0, <1>12, OtherSteps DEF Starts, Goes, Ends
  <2>4. RowsGrow /\ scored <= scored'
    <3>1. scored \in Nat /\ rows' = rows /\ scored' = scored
      BY <1>0, <1>12 DEF StartWipe, IndexTypeOK
    <3> QED  BY <1>0, <3>1, SameRowsGrow
  <2>5. thread'[t].pc \notin {"metadatas", "tokenize", "rebuild"} \cup SaveSteps
    BY <1>0, <1>12, OtherSteps, IdleFields DEF Starts, Goes, Ends, SaveSteps
  <2>6. AdderInv(t)' /\ thread'[t].pc \notin {"dump", "replace"}
    BY <2>5 DEF AdderInv, SaveSteps
  <2>7. acked' \subseteq acked /\ tmp' = tmp /\ disk' = disk
    BY <1>12 DEF StartWipe
  <2> QED  BY <1>0, <2>2, <2>3, <2>4, <2>6, <2>7, DurableAside
<1>13. ASSUME NEW t \in Threads, WipeDense(t) PROVE DurableInv'
  <2>1. SUFFICES ASSUME Orderly' PROVE DurableInv'
    BY DEF DurableInv
  <2>2. Orderly /\ Clean /\ IndexTypeOK'
    BY <1>1, <2>1, TypesKept
  <2>3. Moves(t, thread'[t])
    BY <1>0, <1>13, OtherSteps DEF Starts, Goes, Ends
  <2>4. RowsGrow /\ scored <= scored'
    <3>1. scored \in Nat /\ rows' = rows /\ scored' = scored
      BY <1>0, <1>13 DEF WipeDense, IndexTypeOK
    <3> QED  BY <1>0, <3>1, SameRowsGrow
  <2>5. thread'[t].pc \notin {"metadatas", "tokenize", "rebuild"} \cup SaveSteps
    BY <1>0, <1>13, OtherSteps, IdleFields DEF Starts, Goes, Ends, SaveSteps
  <2>6. AdderInv(t)' /\ thread'[t].pc \notin {"dump", "replace"}
    BY <2>5 DEF AdderInv, SaveSteps
  <2>7. acked' \subseteq acked /\ tmp' = tmp /\ disk' = disk
    BY <1>13 DEF WipeDense
  <2> QED  BY <1>0, <2>2, <2>3, <2>4, <2>6, <2>7, DurableAside
<1>14. ASSUME NEW t \in Threads, WipeRows(t) PROVE DurableInv'
  <2>1. SUFFICES ASSUME Orderly' PROVE DurableInv'
    BY DEF DurableInv
  <2>2. Orderly /\ Clean /\ IndexTypeOK'
    BY <1>1, <2>1, TypesKept
  <2>3. Moves(t, thread'[t]) /\ thread[t].pc \in WipeSteps
    BY <1>0, <1>14, OtherSteps DEF Goes, Ends, WipeSteps
  <2>4. /\ \A o \in Threads \ {t} : thread'[o].pc \in {"idle", "found"}
        /\ \A o \in Threads : thread[o].pc \notin Between
    BY <1>0, <2>3, WipesAlone
  <2>5. thread'[t].pc \in {"open", "idle"} /\ thread'[t].doc = NoDoc
    <3>1. thread[t].doc = NoDoc
      BY <1>0, <2>3 DEF CallInv
    <3> QED  BY <1>0, <1>14, <3>1, OtherSteps, IdleFields DEF Goes, Ends
  <2>6. \A o \in Threads : AdderInv(o)' /\ SaverInv(o)'
    BY <2>4, <2>5 DEF AdderInv, SaverInv, SaveSteps
  <2>7. \A u \in acked' : Stored(rows', scored', u) /\ Stored(disk'.rows, disk'.scored, u)
    <3>1. Complete(rows)
      BY <1>0, <2>2, <2>4 DEF ListsInv
    <3>2. \A u \in acked : u[1] # thread[t].project
      BY <1>0, <2>3 DEF CallInv
    <3>3. acked' = acked /\ disk' = disk
      BY <1>14 DEF WipeRows
    <3> QED  BY <1>0, <2>2, <1>14, <3>1, <3>2, <3>3, WipedLists DEF DurableInv
  <2> QED  BY <2>4, <2>5, <2>6, <2>7 DEF DurableInv
<1>15. ASSUME NEW t \in Threads, NEW p \in Projects, StartSearch(t, p) PROVE DurableInv'
  <2>1. SUFFICES ASSUME Orderly' PROVE DurableInv'
    BY DEF DurableInv
  <2>2. Orderly /\ Clean /\ IndexTypeOK'
    BY <1>1, <2>1, TypesKept
  <2>3. Moves(t, thread'[t])
    BY <1>0, <1>15, OtherSteps DEF Starts, Goes, Ends
  <2>4. RowsGrow /\ scored <= scored'
    <3>1. scored \in Nat /\ rows' = rows /\ scored' = scored
      BY <1>0, <1>15 DEF StartSearch, IndexTypeOK
    <3> QED  BY <1>0, <3>1, SameRowsGrow
  <2>5. thread'[t].pc \notin {"metadatas", "tokenize", "rebuild"} \cup SaveSteps
    BY <1>0, <1>15, OtherSteps, IdleFields DEF Starts, Goes, Ends, SaveSteps
  <2>6. AdderInv(t)' /\ thread'[t].pc \notin {"dump", "replace"}
    BY <2>5 DEF AdderInv, SaveSteps
  <2>7. acked' \subseteq acked /\ tmp' = tmp /\ disk' = disk
    BY <1>15 DEF StartSearch
  <2> QED  BY <1>0, <2>2, <2>3, <2>4, <2>6, <2>7, DurableAside
<1>16. ASSUME NEW t \in Threads, SearchDense(t) PROVE DurableInv'
  <2>1. SUFFICES ASSUME Orderly' PROVE DurableInv'
    BY DEF DurableInv
  <2>2. Orderly /\ Clean /\ IndexTypeOK'
    BY <1>1, <2>1, TypesKept
  <2>3. Moves(t, thread'[t])
    BY <1>0, <1>16, OtherSteps DEF Starts, Goes, Ends
  <2>4. RowsGrow /\ scored <= scored'
    <3>1. scored \in Nat /\ rows' = rows /\ scored' = scored
      BY <1>0, <1>16 DEF SearchDense, IndexTypeOK
    <3> QED  BY <1>0, <3>1, SameRowsGrow
  <2>5. thread'[t].pc \notin {"metadatas", "tokenize", "rebuild"} \cup SaveSteps
    BY <1>0, <1>16, OtherSteps, IdleFields DEF Starts, Goes, Ends, SaveSteps
  <2>6. AdderInv(t)' /\ thread'[t].pc \notin {"dump", "replace"}
    BY <2>5 DEF AdderInv, SaveSteps
  <2>7. acked' \subseteq acked /\ tmp' = tmp /\ disk' = disk
    BY <1>16 DEF SearchDense
  <2> QED  BY <1>0, <2>2, <2>3, <2>4, <2>6, <2>7, DurableAside
<1>17. ASSUME NEW t \in Threads, SearchScope(t) PROVE DurableInv'
  <2>1. SUFFICES ASSUME Orderly' PROVE DurableInv'
    BY DEF DurableInv
  <2>2. Orderly /\ Clean /\ IndexTypeOK'
    BY <1>1, <2>1, TypesKept
  <2>3. Moves(t, thread'[t])
    BY <1>0, <1>17, OtherSteps DEF Starts, Goes, Ends
  <2>4. RowsGrow /\ scored <= scored'
    <3>1. scored \in Nat /\ rows' = rows /\ scored' = scored
      BY <1>0, <1>17 DEF SearchScope, IndexTypeOK
    <3> QED  BY <1>0, <3>1, SameRowsGrow
  <2>5. thread'[t].pc \notin {"metadatas", "tokenize", "rebuild"} \cup SaveSteps
    BY <1>0, <1>17, OtherSteps, IdleFields DEF Starts, Goes, Ends, SaveSteps
  <2>6. AdderInv(t)' /\ thread'[t].pc \notin {"dump", "replace"}
    BY <2>5 DEF AdderInv, SaveSteps
  <2>7. acked' \subseteq acked /\ tmp' = tmp /\ disk' = disk
    BY <1>17 DEF SearchScope
  <2> QED  BY <1>0, <2>2, <2>3, <2>4, <2>6, <2>7, DurableAside
<1>18. ASSUME NEW t \in Threads, SearchScore(t) PROVE DurableInv'
  <2>1. SUFFICES ASSUME Orderly' PROVE DurableInv'
    BY DEF DurableInv
  <2>2. Orderly /\ Clean /\ IndexTypeOK'
    BY <1>1, <2>1, TypesKept
  <2>3. Moves(t, thread'[t])
    BY <1>0, <1>18, OtherSteps DEF Starts, Goes, Ends
  <2>4. RowsGrow /\ scored <= scored'
    <3>1. scored \in Nat /\ rows' = rows /\ scored' = scored
      BY <1>0, <1>18 DEF SearchScore, IndexTypeOK
    <3> QED  BY <1>0, <3>1, SameRowsGrow
  <2>5. thread'[t].pc \notin {"metadatas", "tokenize", "rebuild"} \cup SaveSteps
    BY <1>0, <1>18, OtherSteps, IdleFields DEF Starts, Goes, Ends, SaveSteps
  <2>6. AdderInv(t)' /\ thread'[t].pc \notin {"dump", "replace"}
    BY <2>5 DEF AdderInv, SaveSteps
  <2>7. acked' \subseteq acked /\ tmp' = tmp /\ disk' = disk
    BY <1>18 DEF SearchScore
  <2> QED  BY <1>0, <2>2, <2>3, <2>4, <2>6, <2>7, DurableAside
<1>19. ASSUME NEW t \in Threads, SearchRead(t) PROVE DurableInv'
  <2>1. SUFFICES ASSUME Orderly' PROVE DurableInv'
    BY DEF DurableInv
  <2>2. Orderly /\ Clean /\ IndexTypeOK'
    BY <1>1, <2>1, TypesKept
  <2>3. Moves(t, thread'[t])
    BY <1>0, <1>19, OtherSteps DEF Starts, Goes, Ends
  <2>4. RowsGrow /\ scored <= scored'
    <3>1. scored \in Nat /\ rows' = rows /\ scored' = scored
      BY <1>0, <1>19 DEF SearchRead, IndexTypeOK
    <3> QED  BY <1>0, <3>1, SameRowsGrow
  <2>5. thread'[t].pc \notin {"metadatas", "tokenize", "rebuild"} \cup SaveSteps
    BY <1>0, <1>19, OtherSteps, IdleFields DEF Starts, Goes, Ends, SaveSteps
  <2>6. AdderInv(t)' /\ thread'[t].pc \notin {"dump", "replace"}
    BY <2>5 DEF AdderInv, SaveSteps
  <2>7. acked' \subseteq acked /\ tmp' = tmp /\ disk' = disk
    BY <1>19 DEF SearchRead
  <2> QED  BY <1>0, <2>2, <2>3, <2>4, <2>6, <2>7, DurableAside
<1>20. ASSUME ServiceRestart PROVE DurableInv'
  <2>1. SUFFICES ASSUME Orderly' PROVE DurableInv'
    BY DEF DurableInv
  <2>2. Orderly /\ Clean /\ IndexTypeOK'
    BY <1>1, <2>1, TypesKept
  <2>3. \A t \in Threads : thread'[t].pc = "idle"
    BY <1>20, IdleFields DEF ServiceRestart
  <2>4. \A t \in Threads : AdderInv(t)' /\ SaverInv(t)'
    BY <2>3 DEF AdderInv, SaverInv, SaveSteps
  <2>5. \A u \in acked' : Stored(rows', scored', u) /\ Stored(disk'.rows, disk'.scored, u)
    BY <1>0, <2>2, <1>20 DEF ServiceRestart, DurableInv
  <2> QED  BY <2>3, <2>4, <2>5 DEF DurableInv
<1>21. ASSUME UNCHANGED indexVars PROVE DurableInv'
  BY <1>0, <1>21
  DEF DurableInv, AdderInv, SaverInv, Owed, Orderly, indexVars
<1> QED
  BY <1>2, <1>3, <1>4, <1>5, <1>6, <1>7, <1>8, <1>9, <1>10, <1>11, <1>12, <1>13,
     <1>14, <1>15, <1>16, <1>17, <1>18, <1>19, <1>20, <1>21
  DEF IndexNext

\* Past Qdrant.
Past == (AddSteps \ {"dense"}) \cup SaveSteps

\* A step that leaves Qdrant alone.
LEMMA QdrantKept ==
    ASSUME QdrantInv, NEW t \in Threads, Moves(t, thread'[t]),
           dense' = dense, latest' = latest,
           \A u \in acked' \ acked :
              u = thread[t].doc /\ u # NoDoc /\ thread[t].pc \in SaveSteps,
           thread'[t].pc \in Past /\ thread'[t].doc # NoDoc =>
              thread[t].pc \in Past /\ thread'[t].doc = thread[t].doc
    PROVE  QdrantInv'
<1>1. \A u : InQdrant(u) => InQdrant(u)'
  BY DEF InQdrant
<1>2. \A o \in Threads : thread[o].pc \in Past /\ thread[o].doc # NoDoc => InQdrant(thread[o].doc)
  BY DEF QdrantInv, Past
<1>3. \A u \in acked : InQdrant(u)
  BY DEF QdrantInv, AckedInQdrant, InQdrant
<1>4. \A u \in acked' : InQdrant(u)'
  BY <1>1, <1>2, <1>3 DEF Past
<1>5. ASSUME NEW o \in Threads, thread'[o].pc \in Past, thread'[o].doc # NoDoc
      PROVE  InQdrant(thread[o].doc)'
  <2>1. thread[o].pc \in Past /\ thread'[o].doc = thread[o].doc
    BY <1>5 DEF Moves, Alike
  <2>2. InQdrant(thread[o].doc)
    BY <1>2, <1>5, <2>1
  <2>3. \A u : u = thread[o].doc => InQdrant(u)'
    BY <1>1, <2>2
  <2> QED  BY <2>1, <2>3 DEF InQdrant
<1>6. AckedInQdrant'
  BY <1>4 DEF AckedInQdrant, InQdrant
<1> QED  BY <1>5, <1>6 DEF QdrantInv, Past, InQdrant

\* What is acknowledged stays in Qdrant, unless its point is taken over.
LEMMA QdrantStays ==
    ASSUME IndexInv, [IndexNext]_indexVars
    PROVE  QdrantInv'
<1>0. IndexTypeOK /\ CallInv /\ SearchInv /\ ListsInv /\ DurableInv /\ QdrantInv
  BY DEF IndexInv
<1>1. /\ Clean' => Clean
      /\ Orderly' => Orderly
      /\ Orderly => Clean
      /\ overlap' \in {"harmless", "saves", "lists"}
  BY <1>0, OverlapStays
<1>2. ASSUME NEW t \in Threads, NEW x \in Uploads, StartAdd(t, x) PROVE QdrantInv'
  <2>1. Moves(t, thread'[t]) /\ dense' = dense /\ latest' = latest
    BY <1>0, <1>2, WriterSteps DEF Starts, Goes, Ends, StartAdd, ghosts
  <2>2. thread'[t].pc \in Past /\ thread'[t].doc # NoDoc =>
          thread[t].pc \in Past /\ thread'[t].doc = thread[t].doc
    BY <1>0, <1>2, WriterSteps, IdleFields
    DEF Starts, Goes, Ends, Past, AddSteps, SaveSteps
  <2>3. \A u \in acked' \ acked :
          u = thread[t].doc /\ u # NoDoc /\ thread[t].pc \in SaveSteps
    BY <1>2 DEF StartAdd
  <2> QED  BY <1>0, <2>1, <2>2, <2>3, QdrantKept
<1>3. ASSUME NEW t \in Threads, AddDense(t) PROVE QdrantInv'
  <2> DEFINE doc == thread[t].doc
  <2>1. doc \in Doc /\ ChunkId(doc) \in Names
    BY <1>0, <1>3, NoDocFacts DEF AddDense, At, AddSteps, CallInv, Doc
  <2>2. /\ dense' = [dense EXCEPT ![ChunkId(doc)] = doc]
        /\ latest' = [latest EXCEPT ![ChunkId(doc)] = doc]
        /\ acked' = acked
    BY <1>3 DEF AddDense
  <2>3. dense'[ChunkId(doc)] = doc /\ latest'[ChunkId(doc)] = doc
    BY <1>0, <2>1, <2>2 DEF IndexTypeOK
  <2>4. \A n : n # ChunkId(doc) => dense'[n] = dense[n] /\ latest'[n] = latest[n]
    BY <1>0, <2>2 DEF IndexTypeOK
  <2>5. \A u : InQdrant(u) => InQdrant(u)'
    BY <2>3, <2>4 DEF InQdrant
  <2>6. \A u : u = doc => InQdrant(u)'
    BY <2>3 DEF InQdrant
  <2>7. AckedInQdrant'
    BY <1>0, <2>2, <2>5 DEF QdrantInv, AckedInQdrant, InQdrant
  <2>8. Goes(t, "dense", "corpus")
    BY <1>0, <1>3, WriterSteps
  <2>9. ASSUME NEW o \in Threads, thread'[o].pc \in Past, thread'[o].doc # NoDoc
        PROVE  InQdrant(thread[o].doc)'
    <3>1. CASE o = t
      BY <2>6, <2>8, <3>1 DEF Goes, InQdrant
    <3>2. CASE o # t
      <4>1. thread'[o].pc = thread[o].pc /\ thread'[o].doc = thread[o].doc
        BY <2>8, <3>2 DEF Goes, Moves, Alike
      <4>2. InQdrant(thread[o].doc)
        BY <1>0, <2>9, <4>1 DEF QdrantInv, Past
      <4>3. \A u : u = thread[o].doc => InQdrant(u)'
        BY <2>5, <4>2
      <4> QED  BY <4>1, <4>3 DEF InQdrant
    <3> QED  BY <3>1, <3>2
  <2> QED  BY <2>7, <2>9 DEF QdrantInv, Past, InQdrant
<1>4. ASSUME NEW t \in Threads, DenseFails(t) PROVE QdrantInv'
  <2>1. Moves(t, thread'[t]) /\ dense' = dense /\ latest' = latest
    BY <1>0, <1>4, WriterSteps DEF Starts, Goes, Ends, DenseFails, ghosts
  <2>2. thread'[t].pc \in Past /\ thread'[t].doc # NoDoc =>
          thread[t].pc \in Past /\ thread'[t].doc = thread[t].doc
    BY <1>0, <1>4, WriterSteps, IdleFields
    DEF Starts, Goes, Ends, Past, AddSteps, SaveSteps
  <2>3. \A u \in acked' \ acked :
          u = thread[t].doc /\ u # NoDoc /\ thread[t].pc \in SaveSteps
    BY <1>4 DEF DenseFails
  <2> QED  BY <1>0, <2>1, <2>2, <2>3, QdrantKept
<1>5. ASSUME NEW t \in Threads, AddRows(t) PROVE QdrantInv'
  <2>1. PICK next \in {"ids", "projects", "metadatas", "tokenize"} :
                 Moves(t, [thread[t] EXCEPT !.pc = next])
    BY <1>0, <1>5, AddRowsExtends
  <2>2. /\ thread[t].pc \in {"corpus", "ids", "projects", "metadatas"}
        /\ acked' = acked /\ dense' = dense /\ latest' = latest
    BY <1>0, <1>5, AddRowsExtends
  <2>3. thread[t] \in ThreadType
    BY <1>0 DEF IndexTypeOK
  <2>4. Goes(t, thread[t].pc, next)
    BY <2>1, <2>3 DEF Goes, Moves, ThreadType
  <2> QED  BY <1>0, <2>2, <2>4, QdrantKept DEF Goes, Past, AddSteps
<1>6. ASSUME NEW t \in Threads, Tokenize(t) PROVE QdrantInv'
  <2>1. Moves(t, thread'[t]) /\ dense' = dense /\ latest' = latest
    BY <1>0, <1>6, WriterSteps DEF Starts, Goes, Ends, Tokenize, ghosts
  <2>2. thread'[t].pc \in Past /\ thread'[t].doc # NoDoc =>
          thread[t].pc \in Past /\ thread'[t].doc = thread[t].doc
    BY <1>0, <1>6, WriterSteps, IdleFields
    DEF Starts, Goes, Ends, Past, AddSteps, SaveSteps
  <2>3. \A u \in acked' \ acked :
          u = thread[t].doc /\ u # NoDoc /\ thread[t].pc \in SaveSteps
    BY <1>6 DEF Tokenize
  <2> QED  BY <1>0, <2>1, <2>2, <2>3, QdrantKept
<1>7. ASSUME NEW t \in Threads, Rebuild(t) PROVE QdrantInv'
  <2>1. Moves(t, thread'[t]) /\ dense' = dense /\ latest' = latest
    BY <1>0, <1>7, WriterSteps DEF Starts, Goes, Ends, Rebuild, ghosts
  <2>2. thread'[t].pc \in Past /\ thread'[t].doc # NoDoc =>
          thread[t].pc \in Past /\ thread'[t].doc = thread[t].doc
    BY <1>0, <1>7, WriterSteps, IdleFields
    DEF Starts, Goes, Ends, Past, AddSteps, SaveSteps
  <2>3. \A u \in acked' \ acked :
          u = thread[t].doc /\ u # NoDoc /\ thread[t].pc \in SaveSteps
    BY <1>7 DEF Rebuild
  <2> QED  BY <1>0, <2>1, <2>2, <2>3, QdrantKept
<1>8. ASSUME NEW t \in Threads, SaveOpen(t) PROVE QdrantInv'
  <2>1. Moves(t, thread'[t]) /\ dense' = dense /\ latest' = latest
    BY <1>0, <1>8, WriterSteps DEF Starts, Goes, Ends, SaveOpen, ghosts
  <2>2. thread'[t].pc \in Past /\ thread'[t].doc # NoDoc =>
          thread[t].pc \in Past /\ thread'[t].doc = thread[t].doc
    BY <1>0, <1>8, WriterSteps, IdleFields
    DEF Starts, Goes, Ends, Past, AddSteps, SaveSteps
  <2>3. \A u \in acked' \ acked :
          u = thread[t].doc /\ u # NoDoc /\ thread[t].pc \in SaveSteps
    BY <1>8 DEF SaveOpen
  <2> QED  BY <1>0, <2>1, <2>2, <2>3, QdrantKept
<1>9. ASSUME NEW t \in Threads, SaveDump(t) PROVE QdrantInv'
  <2>1. Moves(t, thread'[t]) /\ dense' = dense /\ latest' = latest
    BY <1>0, <1>9, WriterSteps DEF Starts, Goes, Ends, SaveDump, ghosts
  <2>2. thread'[t].pc \in Past /\ thread'[t].doc # NoDoc =>
          thread[t].pc \in Past /\ thread'[t].doc = thread[t].doc
    BY <1>0, <1>9, WriterSteps, IdleFields
    DEF Starts, Goes, Ends, Past, AddSteps, SaveSteps
  <2>3. \A u \in acked' \ acked :
          u = thread[t].doc /\ u # NoDoc /\ thread[t].pc \in SaveSteps
    BY <1>9 DEF SaveDump
  <2> QED  BY <1>0, <2>1, <2>2, <2>3, QdrantKept
<1>10. ASSUME NEW t \in Threads, SaveReplace(t) PROVE QdrantInv'
  <2>1. Moves(t, thread'[t]) /\ dense' = dense /\ latest' = latest
    BY <1>0, <1>10, WriterSteps DEF Starts, Goes, Ends, SaveReplace, ghosts
  <2>2. thread'[t].pc \in Past /\ thread'[t].doc # NoDoc =>
          thread[t].pc \in Past /\ thread'[t].doc = thread[t].doc
    BY <1>0, <1>10, WriterSteps, IdleFields
    DEF Starts, Goes, Ends, Past, AddSteps, SaveSteps
  <2>3. \A u \in acked' \ acked :
          u = thread[t].doc /\ u # NoDoc /\ thread[t].pc \in SaveSteps
    BY <1>10 DEF SaveReplace, At, SaveSteps
  <2> QED  BY <1>0, <2>1, <2>2, <2>3, QdrantKept
<1>11. ASSUME NEW t \in Threads, SaveFails(t) PROVE QdrantInv'
  <2>1. Moves(t, thread'[t]) /\ dense' = dense /\ latest' = latest
    BY <1>0, <1>11, WriterSteps DEF Starts, Goes, Ends, SaveFails, ghosts
  <2>2. thread'[t].pc \in Past /\ thread'[t].doc # NoDoc =>
          thread[t].pc \in Past /\ thread'[t].doc = thread[t].doc
    BY <1>0, <1>11, WriterSteps, IdleFields
    DEF Starts, Goes, Ends, Past, AddSteps, SaveSteps
  <2>3. \A u \in acked' \ acked :
          u = thread[t].doc /\ u # NoDoc /\ thread[t].pc \in SaveSteps
    BY <1>11 DEF SaveFails
  <2> QED  BY <1>0, <2>1, <2>2, <2>3, QdrantKept
<1>12. ASSUME NEW t \in Threads, NEW p \in Projects, StartWipe(t, p) PROVE QdrantInv'
  <2>1. Moves(t, thread'[t]) /\ dense' = dense /\ latest' = latest
    BY <1>0, <1>12, OtherSteps DEF Starts, Goes, Ends, StartWipe, ghosts
  <2>2. thread'[t].pc \in Past /\ thread'[t].doc # NoDoc =>
          thread[t].pc \in Past /\ thread'[t].doc = thread[t].doc
    BY <1>0, <1>12, OtherSteps, IdleFields
    DEF Starts, Goes, Ends, Past, AddSteps, SaveSteps
  <2>3. \A u \in acked' \ acked :
          u = thread[t].doc /\ u # NoDoc /\ thread[t].pc \in SaveSteps
    BY <1>12 DEF StartWipe
  <2> QED  BY <1>0, <2>1, <2>2, <2>3, QdrantKept
<1>13. ASSUME NEW t \in Threads, WipeDense(t) PROVE QdrantInv'
  <2>1. Goes(t, "wipe dense", "wipe rows")
    BY <1>0, <1>13, OtherSteps
  <2>2. \A o \in Threads : thread'[o].pc \in {"idle", "found", "wipe rows"}
    BY <1>0, <2>1, WipesAlone DEF Goes, WipeSteps
  <2>3. /\ latest' = latest /\ acked' = acked
        /\ dense' = [n \in Names |-> IF dense[n][1] = thread[t].project THEN NoDoc ELSE dense[n]]
    BY <1>13 DEF WipeDense, ghosts
  <2>4. \A u \in acked : u[1] # thread[t].project /\ ChunkId(u) \in Names
    BY <1>0, <2>1, NoDocFacts DEF CallInv, Goes, WipeSteps, IndexTypeOK, Doc
  <2>5. AckedInQdrant'
    BY <1>0, <2>3, <2>4 DEF QdrantInv, AckedInQdrant
  <2> QED  BY <2>2, <2>5 DEF QdrantInv, AddSteps, SaveSteps
<1>14. ASSUME NEW t \in Threads, WipeRows(t) PROVE QdrantInv'
  <2>1. Moves(t, thread'[t]) /\ dense' = dense /\ latest' = latest
    BY <1>0, <1>14, OtherSteps DEF Starts, Goes, Ends, WipeRows, ghosts
  <2>2. thread'[t].pc \in Past /\ thread'[t].doc # NoDoc =>
          thread[t].pc \in Past /\ thread'[t].doc = thread[t].doc
    <3>1. thread[t].doc = NoDoc
      BY <1>0, <1>14, OtherSteps DEF CallInv, WipeSteps
    <3> QED
      BY <1>0, <1>14, <3>1, OtherSteps, IdleFields DEF Goes, Ends, Past, AddSteps, SaveSteps
  <2>3. \A u \in acked' \ acked :
          u = thread[t].doc /\ u # NoDoc /\ thread[t].pc \in SaveSteps
    BY <1>14 DEF WipeRows
  <2> QED  BY <1>0, <2>1, <2>2, <2>3, QdrantKept
<1>15. ASSUME NEW t \in Threads, NEW p \in Projects, StartSearch(t, p) PROVE QdrantInv'
  <2>1. Moves(t, thread'[t]) /\ dense' = dense /\ latest' = latest
    BY <1>0, <1>15, OtherSteps DEF Starts, Goes, Ends, StartSearch, ghosts
  <2>2. thread'[t].pc \in Past /\ thread'[t].doc # NoDoc =>
          thread[t].pc \in Past /\ thread'[t].doc = thread[t].doc
    BY <1>0, <1>15, OtherSteps, IdleFields
    DEF Starts, Goes, Ends, Past, AddSteps, SaveSteps
  <2>3. \A u \in acked' \ acked :
          u = thread[t].doc /\ u # NoDoc /\ thread[t].pc \in SaveSteps
    BY <1>15 DEF StartSearch
  <2> QED  BY <1>0, <2>1, <2>2, <2>3, QdrantKept
<1>16. ASSUME NEW t \in Threads, SearchDense(t) PROVE QdrantInv'
  <2>1. Moves(t, thread'[t]) /\ dense' = dense /\ latest' = latest
    BY <1>0, <1>16, OtherSteps DEF Starts, Goes, Ends, SearchDense, ghosts
  <2>2. thread'[t].pc \in Past /\ thread'[t].doc # NoDoc =>
          thread[t].pc \in Past /\ thread'[t].doc = thread[t].doc
    BY <1>0, <1>16, OtherSteps, IdleFields
    DEF Starts, Goes, Ends, Past, AddSteps, SaveSteps
  <2>3. \A u \in acked' \ acked :
          u = thread[t].doc /\ u # NoDoc /\ thread[t].pc \in SaveSteps
    BY <1>16 DEF SearchDense
  <2> QED  BY <1>0, <2>1, <2>2, <2>3, QdrantKept
<1>17. ASSUME NEW t \in Threads, SearchScope(t) PROVE QdrantInv'
  <2>1. Moves(t, thread'[t]) /\ dense' = dense /\ latest' = latest
    BY <1>0, <1>17, OtherSteps DEF Starts, Goes, Ends, SearchScope, ghosts
  <2>2. thread'[t].pc \in Past /\ thread'[t].doc # NoDoc =>
          thread[t].pc \in Past /\ thread'[t].doc = thread[t].doc
    BY <1>0, <1>17, OtherSteps, IdleFields
    DEF Starts, Goes, Ends, Past, AddSteps, SaveSteps
  <2>3. \A u \in acked' \ acked :
          u = thread[t].doc /\ u # NoDoc /\ thread[t].pc \in SaveSteps
    BY <1>17 DEF SearchScope
  <2> QED  BY <1>0, <2>1, <2>2, <2>3, QdrantKept
<1>18. ASSUME NEW t \in Threads, SearchScore(t) PROVE QdrantInv'
  <2>1. Moves(t, thread'[t]) /\ dense' = dense /\ latest' = latest
    BY <1>0, <1>18, OtherSteps DEF Starts, Goes, Ends, SearchScore, ghosts
  <2>2. thread'[t].pc \in Past /\ thread'[t].doc # NoDoc =>
          thread[t].pc \in Past /\ thread'[t].doc = thread[t].doc
    BY <1>0, <1>18, OtherSteps, IdleFields
    DEF Starts, Goes, Ends, Past, AddSteps, SaveSteps
  <2>3. \A u \in acked' \ acked :
          u = thread[t].doc /\ u # NoDoc /\ thread[t].pc \in SaveSteps
    BY <1>18 DEF SearchScore
  <2> QED  BY <1>0, <2>1, <2>2, <2>3, QdrantKept
<1>19. ASSUME NEW t \in Threads, SearchRead(t) PROVE QdrantInv'
  <2>1. Moves(t, thread'[t]) /\ dense' = dense /\ latest' = latest
    BY <1>0, <1>19, OtherSteps DEF Starts, Goes, Ends, SearchRead, ghosts
  <2>2. thread'[t].pc \in Past /\ thread'[t].doc # NoDoc =>
          thread[t].pc \in Past /\ thread'[t].doc = thread[t].doc
    BY <1>0, <1>19, OtherSteps, IdleFields
    DEF Starts, Goes, Ends, Past, AddSteps, SaveSteps
  <2>3. \A u \in acked' \ acked :
          u = thread[t].doc /\ u # NoDoc /\ thread[t].pc \in SaveSteps
    BY <1>19 DEF SearchRead
  <2> QED  BY <1>0, <2>1, <2>2, <2>3, QdrantKept
<1>20. ASSUME ServiceRestart PROVE QdrantInv'
  <2>1. \A t \in Threads : thread'[t].pc = "idle"
    BY <1>20, IdleFields DEF ServiceRestart
  <2>2. dense' = dense /\ latest' = latest /\ acked' = acked
    BY <1>20 DEF ServiceRestart, ghosts
  <2> QED
    BY <1>0, <2>1, <2>2 DEF QdrantInv, AckedInQdrant, AddSteps, SaveSteps
<1>21. ASSUME UNCHANGED indexVars PROVE QdrantInv'
  BY <1>0, <1>21 DEF QdrantInv, AckedInQdrant, InQdrant, indexVars
<1> QED
  BY <1>2, <1>3, <1>4, <1>5, <1>6, <1>7, <1>8, <1>9, <1>10, <1>11, <1>12, <1>13,
     <1>14, <1>15, <1>16, <1>17, <1>18, <1>19, <1>20, <1>21
  DEF IndexNext

-----------------------------------------------------------------------------
\* The theorems.

\* An index with nothing in it.
LEMMA IndexStarts == IndexInit => IndexInv
<1> SUFFICES ASSUME IndexInit PROVE IndexInv
  OBVIOUS
<1>1. \A t \in Threads : thread[t] = Idle
  BY DEF IndexInit
<1>2. EmptyRows \in RowsType
  BY DEF EmptyRows, RowsType
<1>3. IndexTypeOK
  BY <1>2, IdleTyped, FilesTyped DEF IndexInit, IndexTypeOK
<1>4. CallInv /\ SearchInv
  BY <1>1, IdleFields DEF CallInv, SearchInv, AddSteps, WipeSteps
<1>5. ListsInv
  BY <1>1, IdleFields, NoRows DEF IndexInit, ListsInv, Between, NoFile
<1>6. DurableInv
  BY <1>1, IdleFields DEF IndexInit, DurableInv, AdderInv, SaverInv, SaveSteps
<1>7. QdrantInv
  BY <1>1, IdleFields DEF IndexInit, QdrantInv, AckedInQdrant, AddSteps, SaveSteps
<1> QED  BY <1>3, <1>4, <1>5, <1>6, <1>7 DEF IndexInv

\* The invariant of the index, with any number of threads, calls and files.
THEOREM IndexInvariant == IndexSpec => []IndexInv
<1>1. IndexInv /\ [IndexNext]_indexVars => IndexInv'
  BY TypesKept, CallsKept, SearchesKept, ListsStayAligned, DurableStays, QdrantStays
  DEF IndexInv
<1> QED  BY <1>1, IndexStarts, PTL DEF IndexSpec

\* Types, whoever calls.
THEOREM IndexTypes == IndexSpec => []IndexTypeOK
<1>1. IndexInv => IndexTypeOK
  BY DEF IndexInv
<1> QED  BY <1>1, IndexInvariant, PTL

\* A search shows no other project's document, as long as no call has touched the lists
\* while another was half way through them.
THEOREM SearchStaysInScope == IndexSpec => []ScopedSearch
<1>1. IndexInv => ScopedSearch
  BY DEF IndexInv, SearchInv, ScopedSearch, Clean
<1> QED  BY <1>1, IndexInvariant, PTL

\* As long as that has not happened, the four lists agree at every step.
THEOREM ListsAgree == IndexSpec => []RowsAligned
<1>1. IndexInv => RowsAligned
  BY ListsAligned DEF IndexInv, RowsAligned, Aligned, Clean
<1> QED  BY <1>1, IndexInvariant, PTL

\* As long as no two calls have overlapped in one of the ways that overlap names, what a
\* caller was told is indexed is in the pickle, and the sparse half of a search for its
\* project finds it: it is the global knowledge base alone that it misses.
THEOREM IndexedForGood == IndexSpec => []AckedIsDurable
<1>1. IndexInv => AckedIsDurable
  <2> SUFFICES ASSUME IndexInv, Orderly, NEW u \in acked
               PROVE  /\ \E i \in 1..disk.scored : disk.rows.corpus[i] = u
                      /\ u[1] # Global => \E i \in 1..scored :
                            i \in ScopedIndices(u[1]) /\ rows.corpus[i] = u
    BY DEF AckedIsDurable, Orderly
  <2>1. Stored(disk.rows, disk.scored, u) /\ Stored(rows, scored, u)
    BY DEF IndexInv, DurableInv
  <2>2. /\ DOMAIN disk.rows.corpus \subseteq Nat \ {0} /\ disk.scored \in Nat
        /\ DOMAIN rows.corpus \subseteq Nat \ {0} /\ scored \in Nat
    BY DEF IndexInv, IndexTypeOK, FileType, RowsType
  <2>3. \E i \in 1..disk.scored : disk.rows.corpus[i] = u
    BY <2>1, <2>2 DEF Stored
  <2>4. ASSUME u[1] # Global
        PROVE  \E i \in 1..scored : i \in ScopedIndices(u[1]) /\ rows.corpus[i] = u
    <3>1. PICK i \in DOMAIN rows.projects \cap DOMAIN rows.corpus :
             i <= scored /\ rows.corpus[i] = u
      BY <2>1 DEF Stored
    <3>2. Aligned(rows)
      BY ListsAligned DEF IndexInv, Orderly, Clean
    <3>3. rows.projects[i] = u[1]
      BY <3>1, <3>2 DEF Aligned
    <3>4. i \in 1..scored
      BY <2>2, <3>1
    <3> QED  BY <2>4, <3>1, <3>3, <3>4 DEF ScopedIndices, Bm25Pid
  <2> QED  BY <2>3, <2>4
<1> QED  BY <1>1, IndexInvariant, PTL

\* However calls overlap, what a caller was told is indexed is in Qdrant until its project
\* is wiped or a file of the same name is upserted, of whatever project.
THEOREM AckedStaysInQdrant == IndexSpec => []AckedInQdrant
<1>1. IndexInv => AckedInQdrant
  BY DEF IndexInv, QdrantInv
<1> QED  BY <1>1, IndexInvariant, PTL

=============================================================================
