--------------------------- MODULE SelfCorrection ---------------------------
(***************************************************************************)
(* What the self-correcting loop of the RAG orchestrator promises to the   *)
(* chat service, without saying how: a run collects at most MaxAttempts    *)
(* verdicts on successive drafts, stops at the first PASS, and ends in     *)
(* exactly one outcome.                                                    *)
(*                                                                         *)
(*   direct      the query was small talk: no draft was judged last        *)
(*   approved    the last draft was judged PASS                            *)
(*   flagged     MaxAttempts drafts were judged, the last one FAIL; the    *)
(*               answer carries the "no decisive answer" warning           *)
(*   unresolved  MaxAttempts drafts were judged, the last verdict neither  *)
(*               PASS nor FAIL; the answer carries no warning              *)
(*   failed      a step of the run raised; the chat gets an error text     *)
(***************************************************************************)
EXTENDS Naturals, Sequences

CONSTANT MaxAttempts   \* a positive number of drafts; RagPipeline gives it MaxRetries

Verdicts == {"PASS", "FAIL", "OTHER"}
Outcomes == {"pending", "direct", "approved", "flagged", "unresolved", "failed"}

VARIABLES verdicts, outcome

loopVars == <<verdicts, outcome>>

LastVerdict == IF verdicts = <<>> THEN "none" ELSE verdicts[Len(verdicts)]

LoopInit ==
    /\ verdicts = <<>>
    /\ outcome = "pending"

\* One more draft is judged; nothing is drafted after a PASS.
JudgeDraft(v) ==
    /\ outcome = "pending"
    /\ Len(verdicts) < MaxAttempts
    /\ LastVerdict # "PASS"
    /\ verdicts' = Append(verdicts, v)
    /\ UNCHANGED outcome

ReplyDirectly ==
    /\ outcome = "pending"
    /\ Len(verdicts) < MaxAttempts
    /\ LastVerdict # "PASS"
    /\ outcome' = "direct"
    /\ UNCHANGED verdicts

Approve ==
    /\ outcome = "pending"
    /\ LastVerdict = "PASS"
    /\ outcome' = "approved"
    /\ UNCHANGED verdicts

GiveUp ==
    /\ outcome = "pending"
    /\ Len(verdicts) = MaxAttempts
    /\ \/ LastVerdict = "FAIL" /\ outcome' = "flagged"
       \/ LastVerdict = "OTHER" /\ outcome' = "unresolved"
    /\ UNCHANGED verdicts

Abort ==
    /\ outcome = "pending"
    /\ outcome' = "failed"
    /\ UNCHANGED verdicts

LoopNext ==
    \/ \E v \in Verdicts : JudgeDraft(v)
    \/ ReplyDirectly
    \/ Approve
    \/ GiveUp
    \/ Abort

LoopSpec == LoopInit /\ [][LoopNext]_loopVars
=============================================================================
