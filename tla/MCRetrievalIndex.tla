-------------------------- MODULE MCRetrievalIndex --------------------------
(***************************************************************************)
(* The files that are indexed in the runs of RetrievalIndex: of a project  *)
(* and the global knowledge base, with two names or the same one.          *)
(***************************************************************************)
EXTENDS RetrievalIndex, TLC

ProjectAndGlobal == {<<"p", "a.pdf">>, <<"global", "c.pdf">>}
SharedName == {<<"p", "squad.pdf">>, <<"global", "squad.pdf">>}

\* Threads of the pool are interchangeable; no run of this module checks liveness.
ThreadSymmetry == Permutations(Threads)
=============================================================================
