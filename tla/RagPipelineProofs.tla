------------------------- MODULE RagPipelineProofs --------------------------
(***************************************************************************)
(* Proofs about one run of the RAG orchestrator and about the calls of the *)
(* LLM gateway that its nodes make.                                        *)
(*                                                                         *)
(* The run: its invariants, and that it implements SelfCorrection, for     *)
(* every MaxRetries and every catalog of tools.  None of the invariants is *)
(* inductive alone; LoopInv ties the counters to the place in the graph,   *)
(* RowsInv the trace rows to the loop, and AnswerInv the reply to the      *)
(* iteration it comes from.                                                *)
(*                                                                         *)
(* The call: what is sent to the provider, for every budget and prompts of *)
(* any size.  The sums and joined texts of TokenBudget are recursive       *)
(* functions; what they compute is proved from induction and recursion     *)
(* over sets of numbers, LeastNumber to PrimitiveRecursion below.          *)
(***************************************************************************)
EXTENDS RagPipeline, LlmGateway, SequenceTheorems, WellFoundedInduction, TLAPS

Before == {"start", "compressor", "rewriter"}
Within == {"orchestrator", "simple_responder", "retriever", "external_context",
           "drafter", "judge"}

\* retry_count counts judged drafts; while the graph can still draft, there is an
\* iteration left and the last verdict was not PASS.
CountInv ==
    /\ judge_status = "none" <=> retry_count = 0
    /\ reached_max_retries <=> retry_count = MaxRetries /\ judge_status = "FAIL"
    /\ node \in Before \cup Within => retry_count < MaxRetries /\ judge_status # "PASS"

LengthInv ==
    /\ node \in Before => Len(loop_traces) = retry_count
    /\ node \in Within => Len(loop_traces) = retry_count + 1
    /\ Len(loop_traces) \in {retry_count, retry_count + 1}

VerdictInv ==
    /\ node \in Within => loop_traces[Iteration] = "unjudged"
    /\ retry_count > 0 => loop_traces[retry_count] = judge_status

LoopInv == CountInv /\ LengthInv /\ VerdictInv

\* Inside an iteration the row id in the state, if any, is that iteration's row.
RowsInv ==
    /\ TraceRowsAgree
    /\ node \in Within /\ current_iteration_id # 0 =>
          /\ current_iteration_id = Len(iterationRows)
          /\ iterationRows[current_iteration_id].iteration = Iteration

\* What the finish node, and then the response, stands on.
FinalFacts ==
    /\ final_answer.source \in {"simple", "draft"}
    /\ final_answer.source = "simple" => retry_count < MaxRetries /\ judge_status # "PASS"
    /\ final_answer.source = "draft" =>
          /\ judge_status = "PASS" \/ retry_count = MaxRetries
          /\ final_answer.from = retry_count
          /\ retry_count > 0
          /\ retrieved_chunks.from = retry_count
          /\ draft.kind = "answer" => HasContext

FinalResponse ==
    [state |-> "answered", source |-> final_answer.source, warned |-> reached_max_retries,
     cites |-> IF retrieved_chunks.any THEN retrieved_chunks.from ELSE 0]

AnswerInv ==
    /\ node \in {"drafter", "judge"} => retrieved_chunks.from = Iteration
    /\ node = "judge" => draft.from = Iteration /\ (draft.kind = "answer" => HasContext)
    /\ node = "finish" => FinalFacts
    /\ node # "end" => response = NoResponse
    /\ node = "end" => response = FailedResponse \/ (FinalFacts /\ response = FinalResponse)

IInv == TypeOK /\ LoopInv /\ RowsInv /\ AnswerInv

USE RetriesAssumption, ToolsAssumption

-----------------------------------------------------------------------------
\* A group of variables a step leaves alone keeps its types.

\* The types of the retrieved context survive a step that leaves it alone.
LEMMA ContextFrame == ContextTypeOK /\ UNCHANGED contextVars => ContextTypeOK'
  BY DEF ContextTypeOK, contextVars

\* The types of draft, verdict and answer survive a step that leaves them alone.
LEMMA AnswerFrame == AnswerTypeOK /\ UNCHANGED answerVars => AnswerTypeOK'
  BY DEF AnswerTypeOK, answerVars

\* The types of the trace survive a step that leaves it alone.
LEMMA TraceFrame == TraceTypeOK /\ UNCHANGED traceVars => TraceTypeOK'
  BY DEF TraceTypeOK, traceVars

\* The types of the two threads survive a step that leaves them alone.
LEMMA BranchFrame == BranchTypeOK /\ UNCHANGED branches => BranchTypeOK'
  BY DEF BranchTypeOK

\* The type of the response survives a step that leaves it alone.
LEMMA ResponseFrame == ResponseTypeOK /\ UNCHANGED response => ResponseTypeOK'
  BY DEF ResponseTypeOK

\* Writing a verdict into an iteration row leaves a well-typed list of as many rows.
LEMMA UpdateStatusType ==
  ASSUME NEW rows \in Seq(IterationRow), NEW k \in 1..Len(rows), NEW verdict \in Statuses
  PROVE  /\ [rows EXCEPT ![k].status = verdict] \in Seq(IterationRow)
         /\ Len([rows EXCEPT ![k].status = verdict]) = Len(rows)
         /\ \A i \in 1..Len(rows) :
               [rows EXCEPT ![k].status = verdict][i]
                 = IF i = k THEN [rows[i] EXCEPT !.status = verdict] ELSE rows[i]
<1> DEFINE row == [rows[k] EXCEPT !.status = verdict]
<1>1. [rows EXCEPT ![k].status = verdict] = [rows EXCEPT ![k] = row]
  OBVIOUS
<1>2. row \in IterationRow
  <2>1. rows[k] \in IterationRow
    OBVIOUS
  <2> QED BY <2>1 DEF IterationRow, LoopTrace
<1>3. /\ [rows EXCEPT ![k] = row] \in Seq(IterationRow)
      /\ Len([rows EXCEPT ![k] = row]) = Len(rows)
      /\ \A i \in 1..Len(rows) :
            [rows EXCEPT ![k] = row][i] = IF i = k THEN row ELSE rows[i]
  <2> HIDE DEF row
  <2> QED BY <1>2, ExceptSeq
<1> QED BY <1>1, <1>3

\* The rewriter opens an iteration, the judge closes it: the trace keeps its types.
LEMMA RewriterTrace ==
  ASSUME TraceTypeOK, Len(loop_traces) < MaxRetries, Iteration \in 1..MaxRetries,
         NEW logged \in BOOLEAN, Rewriter(logged)
  PROVE  /\ TraceTypeOK'
         /\ Len(loop_traces') = Len(loop_traces) + 1
         /\ \A i \in 1..Len(loop_traces) : loop_traces'[i] = loop_traces[i]
         /\ loop_traces'[Len(loop_traces) + 1] = "unjudged"
<1> DEFINE row == [iteration |-> Iteration, status |-> "unjudged"]
<1>1. "unjudged" \in LoopTrace /\ row \in IterationRow
  BY DEF LoopTrace, IterationRow
<1>2. loop_traces' = Append(loop_traces, "unjudged") /\ runRow' = runRow
  BY DEF Rewriter
<1>3. \/ iterationRows' = Append(iterationRows, row) /\ current_iteration_id' = Len(iterationRows) + 1
      \/ UNCHANGED iterationRows /\ current_iteration_id' = 0
  BY DEF Rewriter
<1> HIDE DEF row
<1>4. /\ loop_traces \in Seq(LoopTrace) /\ Len(loop_traces) \in Nat
      /\ iterationRows \in Seq(IterationRow) /\ Len(iterationRows) \in Nat
      /\ Len(iterationRows) <= Len(loop_traces)
      /\ runRow \in {"absent", "open", "finished"}
  BY LenProperties DEF TraceTypeOK
<1>5. /\ Append(loop_traces, "unjudged") \in Seq(LoopTrace)
      /\ Len(Append(loop_traces, "unjudged")) = Len(loop_traces) + 1
      /\ \A i \in 1..Len(loop_traces) : Append(loop_traces, "unjudged")[i] = loop_traces[i]
      /\ Append(loop_traces, "unjudged")[Len(loop_traces) + 1] = "unjudged"
  BY <1>1, <1>4, AppendProperties
<1>6. /\ Append(iterationRows, row) \in Seq(IterationRow)
      /\ Len(Append(iterationRows, row)) = Len(iterationRows) + 1
  BY <1>1, <1>4, AppendProperties
<1>7. /\ iterationRows' \in Seq(IterationRow)
      /\ Len(iterationRows') <= Len(loop_traces) + 1
      /\ current_iteration_id' \in 0..(Len(loop_traces) + 1)
  <2>1. CASE UNCHANGED iterationRows /\ current_iteration_id' = 0
    BY <1>4, <2>1
  <2>2. CASE /\ iterationRows' = Append(iterationRows, row)
             /\ current_iteration_id' = Len(iterationRows) + 1
    <3>1. iterationRows' \in Seq(IterationRow) /\ Len(iterationRows') = Len(iterationRows) + 1
      BY <1>6, <2>2, Zenon
    <3> QED BY <1>4, <2>2, <3>1
  <2> QED BY <1>3, <2>1, <2>2
<1>8. /\ loop_traces' \in Seq(LoopTrace)
      /\ Len(loop_traces') = Len(loop_traces) + 1
      /\ \A i \in 1..Len(loop_traces) : loop_traces'[i] = loop_traces[i]
      /\ loop_traces'[Len(loop_traces) + 1] = "unjudged"
  BY <1>2, <1>5, Zenon
<1>9. Len(loop_traces') <= MaxRetries /\ current_iteration_id' \in 0..MaxRetries
  BY <1>4, <1>7, <1>8
<1> QED BY <1>2, <1>4, <1>7, <1>8, <1>9 DEF TraceTypeOK

\* judge_node keeps the trace well typed.
LEMMA JudgeTrace ==
  ASSUME TraceTypeOK, Len(loop_traces) > 0,
         NEW reply \in JudgeReplies, NEW textReason, NEW logged \in BOOLEAN,
         Judge(reply, textReason, logged)
  PROVE  /\ TraceTypeOK'
         /\ StatusOf(reply) \in Statuses
         /\ Len(loop_traces') = Len(loop_traces)
         /\ \A i \in 1..Len(loop_traces) :
               loop_traces'[i] = IF i = Len(loop_traces) THEN StatusOf(reply)
                                 ELSE loop_traces[i]
<1> DEFINE verdict == StatusOf(reply)
<1>1. verdict \in Statuses /\ verdict \in LoopTrace
  BY DEF JudgeReplies, JsonReplies, StatusOf, Statuses, LoopTrace
<1>2. /\ loop_traces' = [loop_traces EXCEPT ![Len(loop_traces)] = verdict]
      /\ \/ UNCHANGED iterationRows
         \/ /\ current_iteration_id # 0
            /\ iterationRows' = [iterationRows EXCEPT ![current_iteration_id].status = verdict]
      /\ UNCHANGED <<current_iteration_id, runRow>>
  BY DEF Judge
<1> HIDE DEF verdict
<1>3. Len(iterationRows) \in Nat /\ Len(loop_traces) \in Nat
  BY LenProperties DEF TraceTypeOK
<1>4. /\ loop_traces' \in Seq(LoopTrace)
      /\ Len(loop_traces') = Len(loop_traces)
      /\ \A i \in 1..Len(loop_traces) :
            loop_traces'[i] = IF i = Len(loop_traces) THEN verdict ELSE loop_traces[i]
  BY <1>1, <1>2, <1>3, ExceptSeq DEF TraceTypeOK
<1>5. iterationRows' \in Seq(IterationRow) /\ Len(iterationRows') = Len(iterationRows)
  BY <1>1, <1>2, <1>3, UpdateStatusType DEF TraceTypeOK
<1>6. TraceTypeOK'
  BY <1>2, <1>3, <1>4, <1>5 DEF TraceTypeOK
<1> QED BY <1>1, <1>4, <1>6 DEF verdict

\* Type correctness is preserved; LoopInv bounds the counters.
LEMMA TypeStep == TypeOK /\ LoopInv /\ [Next]_vars => TypeOK'
<1> SUFFICES ASSUME TypeOK, LoopInv, [Next]_vars PROVE TypeOK'
  OBVIOUS
<1>0. /\ GraphTypeOK /\ ContextTypeOK /\ AnswerTypeOK
      /\ TraceTypeOK /\ BranchTypeOK /\ ResponseTypeOK
  BY DEF TypeOK
<1>00. node \in Before \cup Within => Iteration \in 1..MaxRetries
  <2>1. node \in Before \cup Within => retry_count < MaxRetries
    BY DEF LoopInv, CountInv
  <2> QED BY <1>0, <2>1 DEF GraphTypeOK, Iteration
<1> USE <1>0, <1>00, ContextFrame, AnswerFrame, TraceFrame, BranchFrame, ResponseFrame
<1> USE DEF GraphTypeOK, Nodes, Classes, Before, Within
<1>1. CASE EnterRun
  <2>1. TraceTypeOK'
    BY <1>1 DEF EnterRun, TraceTypeOK
  <2> QED BY <1>1, <2>1 DEF EnterRun, TypeOK
<1>2. ASSUME Fail PROVE TypeOK'
  <2>1. ResponseTypeOK'
    BY <1>2 DEF Fail, FailedResponse, ResponseTypeOK
  <2> QED BY <1>2, <2>1 DEF Fail, TypeOK
<1>3. CASE Compressor
  BY <1>3 DEF Compressor, TypeOK
<1>4. ASSUME NEW logged \in BOOLEAN, Rewriter(logged) PROVE TypeOK'
  <2>1. node = "rewriter" /\ Iteration \in 1..MaxRetries
    BY <1>4 DEF Rewriter
  <2>2. Len(loop_traces) < MaxRetries
    BY <2>1 DEF LoopInv, CountInv, LengthInv
  <2>3. TraceTypeOK'
    BY <1>4, <2>1, <2>2, RewriterTrace
  <2> QED BY <1>4, <2>3 DEF Rewriter, TypeOK
<1>5. ASSUME NEW class \in Classes, NEW mcp \in BOOLEAN, Orchestrator(class, mcp)
      PROVE  TypeOK'
  <2>1. ContextTypeOK' /\ BranchTypeOK'
    BY <1>5 DEF Orchestrator, IdleBranches, ContextTypeOK, BranchTypeOK, Notices
  <2>2. GraphTypeOK'
    BY <1>5 DEF Orchestrator, RouteAfterOrchestrator
  <2> QED BY <1>5, <2>1, <2>2 DEF Orchestrator, TypeOK
<1>6. CASE SimpleResponder
  BY <1>6 DEF SimpleResponder, AnswerTypeOK, TypeOK
<1>7. ASSUME NEW any \in BOOLEAN, Retriever(any) PROVE TypeOK'
  BY <1>7 DEF Retriever, ContextTypeOK, TypeOK
<1>8. CASE ExternalContext
  <2>1. ASSUME BranchStep, BranchTypeOK', UNCHANGED retrieved_chunks PROVE TypeOK'
    BY <2>1 DEF BranchStep, contextVars, TypeOK
  <2>2. ASSUME NEW plan \in SUBSET Tools, PlanTools(plan) PROVE TypeOK'
    BY <2>1, <2>2 DEF PlanTools, BranchTypeOK
  <2>3. CASE PlanRaises
    BY <2>1, <2>3 DEF PlanRaises, BranchTypeOK
  <2>4. ASSUME NEW tool \in Tools, NEW outcome \in ToolOutcomes, CallTool(tool, outcome)
        PROVE  TypeOK'
    BY <2>1, <2>4 DEF CallTool, BranchTypeOK, ToolOutcomes
  <2>5. CASE FinishTools
    BY <2>1, <2>5 DEF FinishTools, BranchTypeOK
  <2>6. ASSUME NEW found \in {"hits", "empty"}, RetrieveBeside(found) PROVE TypeOK'
    BY <2>1, <2>6 DEF RetrieveBeside, BranchTypeOK
  <2>7. CASE JoinBranches
    BY <2>7 DEF JoinBranches, IdleBranches, BranchTypeOK, ContextTypeOK, Notices, TypeOK
  <2>8. CASE JoinRaises
    BY <1>2, <2>8 DEF JoinRaises
  <2> QED BY <1>8, <2>2, <2>3, <2>4, <2>5, <2>6, <2>7, <2>8 DEF ExternalContext
<1>9. ASSUME NEW refused \in BOOLEAN, Drafter(refused) PROVE TypeOK'
  BY <1>9 DEF Drafter, NormalizedKind, AnswerTypeOK, TypeOK
<1>10. ASSUME NEW reply \in JudgeReplies, NEW textReason \in BOOLEAN,
              NEW logged \in BOOLEAN, Judge(reply, textReason, logged)
       PROVE  TypeOK'
  <2>1. StatusOf(reply) \in Statuses /\ TraceTypeOK'
    <3>1. node = "judge"
      BY <1>10 DEF Judge
    <3>2. Len(loop_traces) > 0
      BY <3>1 DEF LoopInv, LengthInv
    <3> QED BY <1>10, <3>2, JudgeTrace
  <2>3. AnswerTypeOK'
    BY <1>10, <2>1 DEF Judge, AnswerTypeOK, ReachedMax
  <2>4. GraphTypeOK'
    <3>1. retry_count' = Iteration /\ Iteration \in 1..MaxRetries
      BY <1>10 DEF Judge, Iteration
    <3>2. node' \in {"finish", "rewriter"}
      BY <1>10 DEF Judge, RouteAfterJudge
    <3> QED BY <1>10, <3>1, <3>2 DEF Judge
  <2> QED BY <1>10, <2>1, <2>3, <2>4 DEF Judge, TypeOK
<1>11. ASSUME NEW logged \in BOOLEAN, Finish(logged) PROVE TypeOK'
  <2>1. TraceTypeOK'
    BY <1>11 DEF Finish, TraceTypeOK
  <2>2. ResponseTypeOK'
    BY <1>11 DEF Finish, ResponseTypeOK, AnswerTypeOK, ContextTypeOK
  <2> QED BY <1>11, <2>1, <2>2 DEF Finish, TypeOK
<1>12. CASE Returned \/ UNCHANGED vars
  BY <1>12 DEF Returned, vars, TypeOK
<1> QED
  BY <1>1, <1>2, <1>3, <1>4, <1>5, <1>6, <1>7, <1>8, <1>9, <1>10, <1>11, <1>12
  DEF Next, EnterRaises, LlmRaises, RewriterRaises

-----------------------------------------------------------------------------
\* The loop's invariant.

\* A step that neither judges nor rewrites, and does not re-enter the loop.
LEMMA LoopFrame ==
  ASSUME LoopInv, UNCHANGED <<judge_status, retry_count, reached_max_retries, loop_traces>>,
         node' \in Before => node \in Before, node' \in Within => node \in Within
  PROVE  LoopInv'
<1>1. CountInv'
  BY Zenon DEF LoopInv, CountInv
<1>2. LengthInv'
  BY DEF LoopInv, LengthInv
<1>3. VerdictInv'
  BY Zenon DEF LoopInv, VerdictInv, Iteration
<1> QED BY <1>1, <1>2, <1>3 DEF LoopInv

\* Every step keeps the counts, lengths and verdicts of the loop in agreement.
LEMMA LoopStep == TypeOK /\ LoopInv /\ [Next]_vars => LoopInv'
<1> SUFFICES ASSUME TypeOK, LoopInv, [Next]_vars PROVE LoopInv'
  OBVIOUS
<1> USE DEF Before, Within
<1>1. CASE EnterRun
  BY <1>1, LoopFrame DEF EnterRun, answerVars
<1>2. ASSUME Fail PROVE LoopInv'
  BY <1>2, LoopFrame DEF Fail, answerVars, traceVars
<1>3. CASE Compressor
  BY <1>3, LoopFrame DEF Compressor, answerVars, traceVars
<1>4. ASSUME NEW logged \in BOOLEAN, Rewriter(logged) PROVE LoopInv'
  <2>1. /\ node = "rewriter" /\ node' = "orchestrator"
        /\ UNCHANGED <<judge_status, retry_count, reached_max_retries>>
    BY <1>4 DEF Rewriter, answerVars
  <2>2. CountInv'
    BY <2>1 DEF LoopInv, CountInv
  <2>3. /\ retry_count \in Nat /\ retry_count < MaxRetries
        /\ Len(loop_traces) = retry_count
        /\ TraceTypeOK
    BY <2>1 DEF LoopInv, CountInv, LengthInv, TypeOK, GraphTypeOK
  <2>4. Iteration \in 1..MaxRetries
    BY <2>3 DEF Iteration
  <2>5. /\ Len(loop_traces') = retry_count + 1
        /\ \A i \in 1..retry_count : loop_traces'[i] = loop_traces[i]
        /\ loop_traces'[retry_count + 1] = "unjudged"
    BY <1>4, <2>3, <2>4, RewriterTrace
  <2>6. LengthInv'
    BY <2>1, <2>5 DEF LengthInv
  <2>7. VerdictInv'
    BY <2>1, <2>3, <2>5 DEF LoopInv, VerdictInv, Iteration
  <2> QED BY <2>2, <2>6, <2>7 DEF LoopInv
<1>5. ASSUME NEW class \in Classes, NEW mcp \in BOOLEAN, Orchestrator(class, mcp)
      PROVE  LoopInv'
  BY <1>5, LoopFrame DEF Orchestrator, RouteAfterOrchestrator, answerVars, traceVars
<1>6. CASE SimpleResponder
  BY <1>6, LoopFrame DEF SimpleResponder, traceVars
<1>7. ASSUME NEW any \in BOOLEAN, Retriever(any) PROVE LoopInv'
  BY <1>7, LoopFrame DEF Retriever, answerVars, traceVars
<1>8. CASE ExternalContext
  <2>1. ASSUME BranchStep PROVE LoopInv'
    BY <2>1, LoopFrame DEF BranchStep, answerVars, traceVars
  <2>2. CASE JoinBranches
    BY <2>2, LoopFrame DEF JoinBranches, answerVars, traceVars
  <2> QED
    BY <1>2, <1>8, <2>1, <2>2
    DEF ExternalContext, PlanTools, PlanRaises, CallTool, FinishTools, RetrieveBeside,
        JoinRaises
<1>9. ASSUME NEW refused \in BOOLEAN, Drafter(refused) PROVE LoopInv'
  BY <1>9, LoopFrame DEF Drafter, traceVars
<1>10. ASSUME NEW reply \in JudgeReplies, NEW textReason \in BOOLEAN,
              NEW logged \in BOOLEAN, Judge(reply, textReason, logged)
       PROVE  LoopInv'
  <2> DEFINE verdict == StatusOf(reply)
  <2>1. /\ node = "judge"
        /\ judge_status' = verdict
        /\ retry_count' = retry_count + 1
        /\ reached_max_retries' = (verdict = "FAIL" /\ retry_count >= MaxRetries - 1)
        /\ node' = IF verdict = "PASS" \/ retry_count + 1 >= MaxRetries
                   THEN "finish" ELSE "rewriter"
    BY <1>10 DEF Judge, ReachedMax, RouteAfterJudge
  <2>2. /\ retry_count \in Nat /\ retry_count < MaxRetries
        /\ Len(loop_traces) = retry_count + 1
        /\ TraceTypeOK
    BY <2>1 DEF LoopInv, CountInv, LengthInv, TypeOK, GraphTypeOK
  <2>3. /\ verdict \in Statuses
        /\ Len(loop_traces') = retry_count + 1
        /\ loop_traces'[retry_count + 1] = verdict
    BY <1>10, <2>2, JudgeTrace
  <2> HIDE DEF verdict
  <2>4. CountInv'
    <3>1. (judge_status = "none" <=> retry_count = 0)'
      BY <2>1, <2>2, <2>3 DEF Statuses
    <3>2. (reached_max_retries <=> retry_count = MaxRetries /\ judge_status = "FAIL")'
      <4>1. retry_count >= MaxRetries - 1 <=> retry_count' = MaxRetries
        BY <2>1, <2>2
      <4> QED BY <2>1, <4>1, Zenon
    <3>3. (node \in Before \cup Within =>
             retry_count < MaxRetries /\ judge_status # "PASS")'
      BY <2>1, <2>2
    <3> QED BY <3>1, <3>2, <3>3 DEF CountInv
  <2>5. LengthInv'
    BY <2>1, <2>3 DEF LengthInv
  <2>6. VerdictInv'
    BY <2>1, <2>3 DEF VerdictInv
  <2> QED BY <2>4, <2>5, <2>6 DEF LoopInv
<1>11. ASSUME NEW logged \in BOOLEAN, Finish(logged) PROVE LoopInv'
  BY <1>11, LoopFrame DEF Finish, answerVars
<1>12. CASE Returned \/ UNCHANGED vars
  BY <1>12, LoopFrame DEF Returned, vars, answerVars, traceVars
<1> QED
  BY <1>1, <1>2, <1>3, <1>4, <1>5, <1>6, <1>7, <1>8, <1>9, <1>10, <1>11, <1>12
  DEF Next, EnterRaises, LlmRaises, RewriterRaises

-----------------------------------------------------------------------------
\* The trace rows.

\* A step that leaves the trace alone and opens no iteration.
LEMMA RowsFrame ==
  ASSUME RowsInv, UNCHANGED <<loop_traces, current_iteration_id, iterationRows, retry_count>>,
         node' \in Within => node \in Within
  PROVE  RowsInv'
  BY Zenon DEF RowsInv, TraceRowsAgree, Iteration

\* query_rewriter adds a row for the trace it appends, after all earlier rows.
LEMMA RewriterRows ==
  ASSUME TraceTypeOK, RowsInv, retry_count \in Nat, Len(loop_traces) = retry_count,
         retry_count < MaxRetries, NEW logged \in BOOLEAN, Rewriter(logged)
  PROVE  RowsInv'
<1> DEFINE row == [iteration |-> Iteration, status |-> "unjudged"]
<1>1. /\ Iteration \in 1..MaxRetries
      /\ row.iteration = retry_count + 1
      /\ row.status = "unjudged"
      /\ row \in IterationRow
  BY DEF Iteration, IterationRow, LoopTrace
<1>2. /\ loop_traces' \in Seq(LoopTrace)
      /\ Len(loop_traces') = retry_count + 1
      /\ \A i \in 1..retry_count : loop_traces'[i] = loop_traces[i]
  BY <1>1, RewriterTrace DEF TraceTypeOK
<1>3. DOMAIN loop_traces' = 1..(retry_count + 1) /\ DOMAIN loop_traces = 1..retry_count
  BY <1>2, LenProperties DEF TraceTypeOK
<1>4. /\ iterationRows \in Seq(IterationRow)
      /\ Len(iterationRows) \in Nat
      /\ DOMAIN iterationRows = 1..Len(iterationRows)
  BY LenProperties DEF TraceTypeOK
<1>5. \A i \in 1..Len(iterationRows) :
         /\ iterationRows[i].iteration \in 1..retry_count
         /\ iterationRows[i].status \in {"unjudged", loop_traces[iterationRows[i].iteration]}
         /\ i > 1 => iterationRows[i - 1].iteration < iterationRows[i].iteration
  BY <1>3, <1>4, Zenon DEF RowsInv, TraceRowsAgree
<1>6. UNCHANGED retry_count
  BY DEF Rewriter
<1>7. CASE logged
  <2>1. iterationRows' = Append(iterationRows, row) /\ current_iteration_id' = Len(iterationRows) + 1
    BY <1>7 DEF Rewriter
  <2> HIDE DEF row
  <2>2. /\ Len(iterationRows') = Len(iterationRows) + 1
        /\ \A i \in 1..Len(iterationRows) : iterationRows'[i] = iterationRows[i]
        /\ iterationRows'[Len(iterationRows) + 1] = row
        /\ DOMAIN iterationRows' = 1..(Len(iterationRows) + 1)
    <3>1. Append(iterationRows, row) \in Seq(IterationRow)
      BY <1>1, <1>4, AppendProperties
    <3> QED BY <1>1, <1>4, <2>1, <3>1, AppendProperties, LenProperties
  <2>3. ASSUME NEW i \in DOMAIN iterationRows'
        PROVE  /\ iterationRows'[i].iteration \in 1..(retry_count + 1)
               /\ iterationRows'[i].status
                    \in {"unjudged", loop_traces'[iterationRows'[i].iteration]}
               /\ i > 1 => iterationRows'[i - 1].iteration < iterationRows'[i].iteration
    <3>1. CASE i = Len(iterationRows) + 1
      <4>1. i > 1 => i - 1 \in 1..Len(iterationRows)
        BY <1>4, <3>1
      <4> QED BY <1>1, <1>4, <1>5, <2>2, <3>1, <4>1
    <3>2. CASE i \in 1..Len(iterationRows)
      <4>1. i > 1 => i - 1 \in 1..Len(iterationRows)
        BY <1>4, <3>2
      <4> QED BY <1>2, <1>5, <2>2, <3>2, <4>1
    <3> QED BY <1>4, <2>2, <3>1, <3>2
  <2>4. TraceRowsAgree'
    BY <1>3, <2>3, Zenon DEF TraceRowsAgree
  <2> QED BY <1>1, <1>6, <2>1, <2>2, <2>4 DEF RowsInv, Iteration
<1>8. CASE ~logged
  <2>1. UNCHANGED iterationRows /\ current_iteration_id' = 0
    BY <1>8 DEF Rewriter
  <2>2. ASSUME NEW i \in DOMAIN iterationRows
        PROVE  /\ iterationRows[i].iteration \in 1..(retry_count + 1)
               /\ iterationRows[i].status
                    \in {"unjudged", loop_traces'[iterationRows[i].iteration]}
               /\ i > 1 => iterationRows[i - 1].iteration < iterationRows[i].iteration
    BY <1>2, <1>4, <1>5
  <2>3. TraceRowsAgree'
    BY <1>3, <2>1, <2>2, Zenon DEF TraceRowsAgree
  <2> QED BY <2>1, <2>3 DEF RowsInv
<1> QED BY <1>7, <1>8

\* judge_node writes the verdict into the row of the iteration it belongs to.
LEMMA JudgeRows ==
  ASSUME TraceTypeOK, RowsInv, retry_count \in Nat, Len(loop_traces) = retry_count + 1,
         loop_traces[retry_count + 1] = "unjudged",
         NEW reply \in JudgeReplies, NEW textReason, NEW logged \in BOOLEAN,
         Judge(reply, textReason, logged)
  PROVE  RowsInv'
<1> DEFINE verdict == StatusOf(reply)
<1>1. /\ verdict \in Statuses
      /\ TraceTypeOK'
      /\ Len(loop_traces') = retry_count + 1
      /\ \A i \in 1..(retry_count + 1) :
            loop_traces'[i] = IF i = retry_count + 1 THEN verdict ELSE loop_traces[i]
  BY JudgeTrace
<1>2. /\ \/ UNCHANGED iterationRows
         \/ /\ current_iteration_id # 0
            /\ iterationRows' = [iterationRows EXCEPT ![current_iteration_id].status = verdict]
      /\ node = "judge"
      /\ node' \in {"finish", "rewriter"}
  BY DEF Judge, RouteAfterJudge
<1> HIDE DEF verdict
<1>3. /\ DOMAIN loop_traces' = 1..(retry_count + 1)
      /\ DOMAIN loop_traces = 1..(retry_count + 1)
      /\ iterationRows \in Seq(IterationRow)
      /\ Len(iterationRows) \in Nat
      /\ DOMAIN iterationRows = 1..Len(iterationRows)
  BY <1>1, LenProperties DEF TraceTypeOK
<1>4. \A i \in 1..Len(iterationRows) :
         /\ iterationRows[i].iteration \in 1..(retry_count + 1)
         /\ iterationRows[i].status \in {"unjudged", loop_traces[iterationRows[i].iteration]}
         /\ i > 1 => iterationRows[i - 1].iteration < iterationRows[i].iteration
  BY <1>3, Zenon DEF RowsInv, TraceRowsAgree
<1>5. \A i \in 1..Len(iterationRows) :
         iterationRows[i].status \in {"unjudged", loop_traces'[iterationRows[i].iteration]}
  BY <1>1, <1>4
<1>6. CASE UNCHANGED iterationRows
  <2>1. TraceRowsAgree'
    BY <1>3, <1>4, <1>5, <1>6, Zenon DEF TraceRowsAgree
  <2> QED BY <1>2, <2>1 DEF RowsInv, Within
<1>7. CASE /\ current_iteration_id # 0
           /\ iterationRows' = [iterationRows EXCEPT ![current_iteration_id].status = verdict]
  <2> DEFINE k == current_iteration_id
  <2>1. k = Len(iterationRows) /\ iterationRows[k].iteration = retry_count + 1
    BY <1>2, <1>7 DEF RowsInv, Within, Iteration
  <2>2. k \in 1..Len(iterationRows)
    BY <1>3, <1>7, <2>1
  <2>3. /\ Len(iterationRows') = Len(iterationRows)
        /\ iterationRows' \in Seq(IterationRow)
        /\ \A i \in 1..Len(iterationRows) :
              iterationRows'[i] = IF i = k THEN [iterationRows[i] EXCEPT !.status = verdict]
                                  ELSE iterationRows[i]
    BY <1>1, <1>3, <1>7, <2>2, UpdateStatusType
  <2>4. DOMAIN iterationRows' = 1..Len(iterationRows)
    BY <2>3, LenProperties
  <2>5. \A i \in 1..Len(iterationRows) : iterationRows[i] \in IterationRow
    BY <1>3, ElementOfSeq
  <2>6. \A i \in 1..Len(iterationRows) :
           /\ iterationRows'[i].iteration = iterationRows[i].iteration
           /\ iterationRows'[i].status = IF i = k THEN verdict ELSE iterationRows[i].status
    BY <2>3, <2>5 DEF IterationRow
  <2> HIDE DEF k
  <2>7. ASSUME NEW i \in DOMAIN iterationRows'
        PROVE  /\ iterationRows'[i].iteration \in 1..(retry_count + 1)
               /\ iterationRows'[i].status
                    \in {"unjudged", loop_traces'[iterationRows'[i].iteration]}
               /\ i > 1 => iterationRows'[i - 1].iteration < iterationRows'[i].iteration
    <3>1. i \in 1..Len(iterationRows) /\ (i > 1 => i - 1 \in 1..Len(iterationRows))
      BY <1>3, <2>4
    <3>2. i = k => loop_traces'[iterationRows'[i].iteration] = verdict
      BY <1>1, <2>1, <2>6, <3>1
    <3> QED BY <1>4, <1>5, <2>6, <3>1, <3>2
  <2>8. TraceRowsAgree'
    BY <1>1, <1>3, <2>7, Zenon DEF TraceRowsAgree
  <2> QED BY <1>2, <2>8 DEF RowsInv, Within
<1> QED BY <1>2, <1>6, <1>7

\* Every step keeps the rows in agreement with loop_traces.
LEMMA RowsStep == TypeOK /\ LoopInv /\ RowsInv /\ [Next]_vars => RowsInv'
<1> SUFFICES ASSUME TypeOK, LoopInv, RowsInv, [Next]_vars PROVE RowsInv'
  OBVIOUS
<1> USE DEF Before, Within
<1>1. CASE EnterRun
  BY <1>1, RowsFrame DEF EnterRun
<1>2. ASSUME Fail PROVE RowsInv'
  BY <1>2, RowsFrame DEF Fail, traceVars
<1>3. CASE Compressor
  BY <1>3, RowsFrame DEF Compressor, traceVars
<1>4. ASSUME NEW logged \in BOOLEAN, Rewriter(logged) PROVE RowsInv'
  <2>1. node = "rewriter"
    BY <1>4 DEF Rewriter
  <2>2. /\ retry_count \in Nat /\ retry_count < MaxRetries
        /\ Len(loop_traces) = retry_count
        /\ TraceTypeOK
    BY <2>1 DEF LoopInv, CountInv, LengthInv, TypeOK, GraphTypeOK
  <2> QED BY <1>4, <2>2, RewriterRows
<1>5. ASSUME NEW class \in Classes, NEW mcp \in BOOLEAN, Orchestrator(class, mcp)
      PROVE  RowsInv'
  BY <1>5, RowsFrame DEF Orchestrator, RouteAfterOrchestrator, traceVars
<1>6. CASE SimpleResponder
  BY <1>6, RowsFrame DEF SimpleResponder, traceVars
<1>7. ASSUME NEW any \in BOOLEAN, Retriever(any) PROVE RowsInv'
  BY <1>7, RowsFrame DEF Retriever, traceVars
<1>8. CASE ExternalContext
  <2>1. ASSUME BranchStep PROVE RowsInv'
    BY <2>1, RowsFrame DEF BranchStep, traceVars
  <2>2. CASE JoinBranches
    BY <2>2, RowsFrame DEF JoinBranches, traceVars
  <2> QED
    BY <1>2, <1>8, <2>1, <2>2
    DEF ExternalContext, PlanTools, PlanRaises, CallTool, FinishTools, RetrieveBeside,
        JoinRaises
<1>9. ASSUME NEW refused \in BOOLEAN, Drafter(refused) PROVE RowsInv'
  BY <1>9, RowsFrame DEF Drafter, traceVars
<1>10. ASSUME NEW reply \in JudgeReplies, NEW textReason \in BOOLEAN,
              NEW logged \in BOOLEAN, Judge(reply, textReason, logged)
       PROVE  RowsInv'
  <2>1. node = "judge"
    BY <1>10 DEF Judge
  <2>2. /\ retry_count \in Nat
        /\ Len(loop_traces) = retry_count + 1
        /\ TraceTypeOK
    BY <2>1 DEF LoopInv, LengthInv, TypeOK, GraphTypeOK
  <2>3. loop_traces[retry_count + 1] = "unjudged"
    BY <2>1 DEF LoopInv, VerdictInv, Iteration
  <2> QED BY <1>10, <2>2, <2>3, JudgeRows
<1>11. ASSUME NEW logged \in BOOLEAN, Finish(logged) PROVE RowsInv'
  BY <1>11, RowsFrame DEF Finish
<1>12. CASE Returned \/ UNCHANGED vars
  BY <1>12, RowsFrame DEF Returned, vars, traceVars
<1> QED
  BY <1>1, <1>2, <1>3, <1>4, <1>5, <1>6, <1>7, <1>8, <1>9, <1>10, <1>11, <1>12
  DEF Next, EnterRaises, LlmRaises, RewriterRaises

-----------------------------------------------------------------------------
\* The reply.

\* Every step keeps what the answer rests on.
LEMMA AnswerStep == TypeOK /\ LoopInv /\ AnswerInv /\ [Next]_vars => AnswerInv'
<1> SUFFICES ASSUME TypeOK, LoopInv, AnswerInv, [Next]_vars PROVE AnswerInv'
  OBVIOUS
<1>0. ASSUME node # "end", UNCHANGED response, node' \notin {"drafter", "judge", "finish", "end"}
      PROVE  AnswerInv'
  BY <1>0 DEF AnswerInv
<1>1. CASE EnterRun
  BY <1>0, <1>1 DEF EnterRun
<1>2. ASSUME Fail PROVE AnswerInv'
  BY <1>2 DEF Fail, AnswerInv
<1>3. CASE Compressor
  BY <1>0, <1>3 DEF Compressor
<1>4. ASSUME NEW logged \in BOOLEAN, Rewriter(logged) PROVE AnswerInv'
  BY <1>0, <1>4 DEF Rewriter
<1>5. ASSUME NEW class \in Classes, NEW mcp \in BOOLEAN, Orchestrator(class, mcp)
      PROVE  AnswerInv'
  BY <1>0, <1>5 DEF Orchestrator, RouteAfterOrchestrator
<1>6. CASE SimpleResponder
  <2>1. /\ node = "simple_responder" /\ node' = "finish"
        /\ final_answer'.source = "simple"
        /\ UNCHANGED <<response, retry_count, judge_status>>
    BY <1>6 DEF SimpleResponder
  <2>2. retry_count < MaxRetries /\ judge_status # "PASS"
    BY <2>1 DEF LoopInv, CountInv, Within
  <2>3. FinalFacts'
    BY <2>1, <2>2 DEF FinalFacts
  <2> QED BY <2>1, <2>3 DEF AnswerInv
<1>7. ASSUME NEW any \in BOOLEAN, Retriever(any) PROVE AnswerInv'
  BY <1>7 DEF Retriever, AnswerInv, Iteration
<1>8. CASE ExternalContext
  <2>1. ASSUME BranchStep PROVE AnswerInv'
    BY <1>0, <2>1 DEF BranchStep
  <2>2. CASE JoinBranches
    BY <2>2 DEF JoinBranches, AnswerInv, Iteration
  <2> QED
    BY <1>2, <1>8, <2>1, <2>2
    DEF ExternalContext, PlanTools, PlanRaises, CallTool, FinishTools, RetrieveBeside,
        JoinRaises
<1>9. ASSUME NEW refused \in BOOLEAN, Drafter(refused) PROVE AnswerInv'
  <2>1. /\ node = "drafter" /\ node' = "judge"
        /\ UNCHANGED <<retrieved_chunks, tool_results, retry_count, response>>
        /\ draft'.from = Iteration
        /\ draft'.kind = NormalizedKind(refused)
    BY <1>9 DEF Drafter, contextVars
  <2>2. NormalizedKind(refused) = "answer" => HasContext
    BY DEF NormalizedKind
  <2>3. HasContext' = HasContext /\ Iteration' = Iteration
    BY <2>1 DEF HasContext, Iteration
  <2> QED BY <2>1, <2>2, <2>3 DEF AnswerInv
<1>10. ASSUME NEW reply \in JudgeReplies, NEW textReason \in BOOLEAN,
              NEW logged \in BOOLEAN, Judge(reply, textReason, logged)
       PROVE  AnswerInv'
  <2> DEFINE verdict == StatusOf(reply)
  <2>1. /\ node = "judge"
        /\ judge_status' = verdict
        /\ retry_count' = retry_count + 1
        /\ final_answer' = [source |-> "draft", from |-> draft.from]
        /\ node' = IF verdict = "PASS" \/ retry_count + 1 >= MaxRetries
                   THEN "finish" ELSE "rewriter"
        /\ UNCHANGED <<retrieved_chunks, tool_results, draft, response>>
    BY <1>10 DEF Judge, RouteAfterJudge, contextVars
  <2> HIDE DEF verdict
  <2>2. CASE node' = "rewriter"
    BY <1>0, <2>1, <2>2
  <2>3. CASE node' = "finish"
    <3>1. retry_count \in Nat /\ retry_count < MaxRetries
      BY <2>1 DEF LoopInv, CountInv, Within, TypeOK, GraphTypeOK
    <3>2. judge_status' = "PASS" \/ retry_count' = MaxRetries
      BY <2>1, <2>3, <3>1
    <3>3. /\ final_answer'.source = "draft"
          /\ final_answer'.from = retry_count'
          /\ retrieved_chunks'.from = retry_count'
          /\ retry_count' > 0
      BY <2>1, <3>1 DEF AnswerInv, Iteration
    <3>4. (draft.kind = "answer" => HasContext)'
      BY <2>1 DEF AnswerInv, HasContext
    <3>5. FinalFacts'
      BY <3>2, <3>3, <3>4 DEF FinalFacts
    <3> QED BY <2>1, <2>3, <3>5 DEF AnswerInv
  <2> QED BY <2>1, <2>2, <2>3
<1>11. ASSUME NEW logged \in BOOLEAN, Finish(logged) PROVE AnswerInv'
  <2>1. /\ node = "finish" /\ node' = "end"
        /\ response' = FinalResponse
        /\ UNCHANGED <<contextVars, answerVars, retry_count>>
    BY <1>11 DEF Finish, FinalResponse
  <2>2. FinalFacts' = FinalFacts /\ FinalResponse' = FinalResponse
    BY <2>1 DEF FinalFacts, FinalResponse, HasContext, contextVars, answerVars
  <2> QED BY <2>1, <2>2 DEF AnswerInv
<1>12. CASE Returned \/ UNCHANGED vars
  <2>1. UNCHANGED <<node, contextVars, answerVars, retry_count, response>>
    BY <1>12 DEF Returned, vars
  <2> QED
    BY <2>1 DEF AnswerInv, FinalFacts, FinalResponse, HasContext, Iteration, contextVars,
                answerVars
<1> QED
  BY <1>1, <1>2, <1>3, <1>4, <1>5, <1>6, <1>7, <1>8, <1>9, <1>10, <1>11, <1>12
  DEF Next, EnterRaises, LlmRaises, RewriterRaises

-----------------------------------------------------------------------------
\* The inductive invariant and what it gives.

\* The initial state satisfies the inductive invariant.
LEMMA IInvInit == Init => IInv
<1> SUFFICES ASSUME Init PROVE IInv
  OBVIOUS
<1>1. TypeOK
  <2>1. <<>> \in Seq(LoopTrace) /\ <<>> \in Seq(IterationRow) /\ Len(<<>>) = 0
    OBVIOUS
  <2>2. TraceTypeOK
    BY <2>1 DEF Init, TraceTypeOK
  <2>3. BranchTypeOK /\ ResponseTypeOK
    BY DEF Init, BranchTypeOK, ResponseTypeOK, IdleBranches, NoResponse
  <2>4. GraphTypeOK
    <3>1. /\ node = "start" /\ web_search_enabled \in BOOLEAN
          /\ retry_count = 0 /\ classification = "UNKNOWN"
      BY DEF Init
    <3> QED BY <3>1 DEF GraphTypeOK, Nodes
  <2>5. ContextTypeOK
    <3>1. /\ retrieved_chunks = [from |-> 0, any |-> FALSE]
          /\ tool_results = {} /\ tool_notice = "none" /\ web_search_skipped = FALSE
      BY DEF Init
    <3>2. 0 \in 0..MaxRetries
      OBVIOUS
    <3>3. [from |-> 0, any |-> FALSE] \in [from : 0..MaxRetries, any : BOOLEAN]
      BY <3>2
    <3> QED BY <3>1, <3>3 DEF ContextTypeOK, Notices
  <2>6. AnswerTypeOK
    <3>1. /\ draft = [from |-> 0, kind |-> "none"]
          /\ judge_status = "none" /\ judged_by_json = FALSE
          /\ reasoning_is_text = TRUE /\ reached_max_retries = FALSE
          /\ final_answer = [source |-> "none", from |-> 0]
      BY DEF Init
    <3>2. 0 \in 0..MaxRetries
      OBVIOUS
    <3>3. /\ draft \in [from : 0..MaxRetries, kind : {"none", "answer", "kb_miss"}]
          /\ final_answer \in [source : {"none", "simple", "draft"}, from : 0..MaxRetries]
      BY <3>1, <3>2
    <3>4. /\ judge_status \in Statuses \cup {"none"} /\ judged_by_json \in BOOLEAN
          /\ reasoning_is_text \in BOOLEAN /\ reached_max_retries \in BOOLEAN
      BY <3>1
    <3> QED BY <3>3, <3>4, Zenon DEF AnswerTypeOK
  <2> QED BY <2>2, <2>3, <2>4, <2>5, <2>6 DEF TypeOK
<1>2. LoopInv
  BY DEF Init, LoopInv, CountInv, LengthInv, VerdictInv, Before, Within
<1>3. RowsInv
  BY DEF Init, RowsInv, TraceRowsAgree
<1>4. AnswerInv
  BY DEF Init, AnswerInv
<1> QED BY <1>1, <1>2, <1>3, <1>4 DEF IInv

\* The inductive invariant holds in every reachable state.
THEOREM IInvHolds == Spec => []IInv
<1>1. IInv /\ [Next]_vars => IInv'
  BY TypeStep, LoopStep, RowsStep, AnswerStep DEF IInv
<1> QED BY <1>1, IInvInit, PTL DEF Spec

\* Every field of the run's state keeps its type, for any MaxRetries and any tools:
\* no run judges more than MaxRetries drafts.
THEOREM TypeCorrect == Spec => []TypeOK
<1>1. IInv => TypeOK
  BY DEF IInv
<1> QED BY <1>1, IInvHolds, PTL

\* The warning is on the reply exactly when the last allowed draft was rejected.
THEOREM WarningExact == Spec => []WarningIffExhausted
<1>1. IInv => WarningIffExhausted
  <2> SUFFICES ASSUME IInv, Answered PROVE response.warned <=> /\ response.source = "draft"
                                                             /\ judge_status = "FAIL"
                                                             /\ retry_count = MaxRetries
    BY DEF WarningIffExhausted
  <2>1. response = FinalResponse /\ FinalFacts
    BY DEF IInv, AnswerInv, Answered, NoResponse, FailedResponse
  <2>2. response.warned = reached_max_retries /\ response.source = final_answer.source
    BY <2>1 DEF FinalResponse
  <2>3. reached_max_retries <=> retry_count = MaxRetries /\ judge_status = "FAIL"
    BY DEF IInv, LoopInv, CountInv
  <2>4. retry_count = MaxRetries => final_answer.source = "draft"
    BY <2>1 DEF FinalFacts, IInv, TypeOK, GraphTypeOK
  <2> QED BY <2>2, <2>3, <2>4, Zenon
<1> QED BY <1>1, IInvHolds, PTL

\* A drafted reply is the draft of the last iteration and cites that iteration's chunks.
THEOREM CitationsFresh == Spec => []CitationsMatchDraft
<1>1. IInv => CitationsMatchDraft
  <2> SUFFICES ASSUME IInv, Answered, response.source = "draft"
               PROVE  final_answer.from = retry_count /\ response.cites \in {0, retry_count}
    BY DEF CitationsMatchDraft
  <2>1. response = FinalResponse /\ FinalFacts
    BY DEF IInv, AnswerInv, Answered, NoResponse, FailedResponse
  <2> QED BY <2>1 DEF FinalResponse, FinalFacts
<1> QED BY <1>1, IInvHolds, PTL

\* Rows of the trace store and traces of the response never disagree on a verdict.
THEOREM TraceRowsConsistent == Spec => []TraceRowsAgree
<1>1. IInv => TraceRowsAgree
  BY DEF IInv, RowsInv
<1> QED BY <1>1, IInvHolds, PTL

-----------------------------------------------------------------------------
\* The run implements SelfCorrection.

\* The verdicts of the mapping are the judged prefix of the loop traces.
JudgedFacts ==
    /\ Judged \in Seq(LoopTrace)
    /\ Len(Judged) = retry_count
    /\ \A i \in 1..retry_count : Judged[i] = loop_traces[i]
    /\ Promise!LastVerdict = judge_status
    /\ retry_count \in 0..MaxRetries

\* What the invariant says of the verdicts so far, in the abstract loop's terms.
LEMMA JudgedIs == IInv => JudgedFacts
<1> SUFFICES ASSUME IInv PROVE JudgedFacts
  OBVIOUS
<1>1. /\ loop_traces \in Seq(LoopTrace)
      /\ Len(loop_traces) \in Nat
      /\ retry_count \in 0..MaxRetries
      /\ retry_count <= Len(loop_traces)
  BY LenProperties DEF IInv, TypeOK, GraphTypeOK, TraceTypeOK, LoopInv, LengthInv
<1>2. /\ Judged \in Seq(LoopTrace)
      /\ Len(Judged) = retry_count
      /\ \A i \in 1..retry_count : Judged[i] = loop_traces[i]
  BY <1>1, SubSeqProperties DEF Judged
<1>3. Promise!LastVerdict = judge_status
  <2>1. CASE retry_count = 0
    <3>1. Judged = <<>> /\ judge_status = "none"
      BY <1>2, <2>1 DEF IInv, LoopInv, CountInv
    <3> QED BY <3>1 DEF Promise!LastVerdict
  <2>2. CASE retry_count > 0
    <3>1. Judged # <<>> /\ loop_traces[retry_count] = judge_status
      BY <1>2, <2>2 DEF IInv, LoopInv, VerdictInv
    <3>2. Judged[Len(Judged)] = judge_status
      BY <1>1, <1>2, <2>2, <3>1
    <3> QED BY <3>1, <3>2 DEF Promise!LastVerdict
  <2> QED BY <1>1, <2>1, <2>2
<1> QED BY <1>1, <1>2, <1>3 DEF JudgedFacts

\* The same after a step.
LEMMA JudgedNext == IInv' => JudgedFacts'
  BY JudgedIs, PTL

\* Before the run returns nothing has come out of it.
LEMMA PendingOutcome == response = NoResponse => Outcome = "pending"
  BY DEF Outcome, NoResponse, Answered

\* After a step without a response the outcome is still pending.
LEMMA PendingNext == response' = NoResponse => Outcome' = "pending"
  BY DEF Outcome, NoResponse, Answered

\* A step on which neither the verdicts nor the response change is a stutter.
LEMMA Stutter ==
  ASSUME IInv, IInv', node # "end",
         UNCHANGED <<retry_count, response>>,
         Len(loop_traces') >= retry_count,
         \A i \in 1..retry_count : loop_traces'[i] = loop_traces[i]
  PROVE  UNCHANGED Promise!loopVars
<1>1. JudgedFacts /\ JudgedFacts'
  BY JudgedIs, JudgedNext
<1>2. Judged' = Judged
  BY <1>1, SeqEqual DEF JudgedFacts
<1>3. response = NoResponse
  BY DEF IInv, AnswerInv
<1>4. Outcome' = "pending" /\ Outcome = "pending"
  BY <1>3, PendingOutcome, PendingNext
<1> QED BY <1>2, <1>4 DEF Promise!loopVars

\* A run starts as the abstract loop does.
LEMMA RefineInit == Init => Promise!LoopInit
<1> SUFFICES ASSUME Init PROVE Promise!LoopInit
  OBVIOUS
<1>1. Judged \in Seq(LoopTrace) /\ Len(Judged) = 0
  BY IInvInit, JudgedIs DEF Init, JudgedFacts
<1>2. Judged = <<>>
  BY <1>1
<1>3. Outcome = "pending"
  BY PendingOutcome DEF Init
<1> QED BY <1>2, <1>3 DEF Promise!LoopInit

\* A raising step aborts the promise.
LEMMA RefineFail ==
  ASSUME IInv, IInv', node # "end", Fail
  PROVE  Promise!Abort
<1>1. UNCHANGED <<retry_count, loop_traces>> /\ response' = FailedResponse
  BY DEF Fail, traceVars
<1>2. Judged' = Judged
  BY <1>1 DEF Judged
<1>3. Outcome = "pending"
  BY PendingOutcome DEF IInv, AnswerInv
<1>4. Outcome' = "failed"
  BY <1>1 DEF Outcome, FailedResponse, Answered
<1> QED BY <1>2, <1>3, <1>4 DEF Promise!Abort

\* The judge adds its verdict.
LEMMA RefineJudge ==
  ASSUME IInv, IInv', NEW reply \in JudgeReplies, NEW textReason \in BOOLEAN,
         NEW logged \in BOOLEAN, Judge(reply, textReason, logged)
  PROVE  \E v \in Promise!Verdicts : Promise!JudgeDraft(v)
<1> DEFINE verdict == StatusOf(reply)
<1>1. /\ node = "judge" /\ retry_count' = retry_count + 1
      /\ UNCHANGED response
  BY DEF Judge
<1>2. /\ retry_count \in Nat /\ retry_count < MaxRetries /\ judge_status # "PASS"
      /\ Len(loop_traces) = retry_count + 1
      /\ TraceTypeOK
  BY <1>1 DEF IInv, LoopInv, CountInv, LengthInv, Within, TypeOK, GraphTypeOK
<1>3. /\ verdict \in Statuses
      /\ \A i \in 1..(retry_count + 1) :
            loop_traces'[i] = IF i = retry_count + 1 THEN verdict ELSE loop_traces[i]
  BY <1>2, JudgeTrace
<1> HIDE DEF verdict
<1>4. JudgedFacts /\ JudgedFacts'
  BY JudgedIs, JudgedNext
<1>5. verdict \in LoopTrace
  BY <1>3 DEF LoopTrace
<1>6. /\ Append(Judged, verdict) \in Seq(LoopTrace)
      /\ Len(Append(Judged, verdict)) = retry_count + 1
      /\ \A i \in 1..retry_count : Append(Judged, verdict)[i] = loop_traces[i]
      /\ Append(Judged, verdict)[retry_count + 1] = verdict
  BY <1>4, <1>5, AppendProperties DEF JudgedFacts
<1>7. /\ Judged' \in Seq(LoopTrace)
      /\ Len(Judged') = retry_count + 1
      /\ \A i \in 1..(retry_count + 1) : Judged'[i] = Append(Judged, verdict)[i]
  BY <1>1, <1>2, <1>3, <1>4, <1>6 DEF JudgedFacts
<1>8. Judged' = Append(Judged, verdict)
  BY <1>6, <1>7, SeqEqual
<1>9. response = NoResponse /\ response' = NoResponse
  BY <1>1 DEF IInv, AnswerInv
<1>10. Outcome = "pending" /\ Outcome' = "pending"
  BY <1>9, PendingOutcome, PendingNext
<1>11. Promise!JudgeDraft(verdict)
  BY <1>2, <1>4, <1>8, <1>10 DEF Promise!JudgeDraft, JudgedFacts
<1> QED BY <1>3, <1>11 DEF Promise!Verdicts, Statuses

\* The response is the one outcome the verdicts call for.
LEMMA RefineFinish ==
  ASSUME IInv, IInv', NEW logged \in BOOLEAN, Finish(logged)
  PROVE  Promise!ReplyDirectly \/ Promise!Approve \/ Promise!GiveUp
<1>1. /\ node = "finish"
      /\ UNCHANGED <<retry_count, loop_traces, judge_status>>
      /\ response'.state = "answered"
      /\ response'.source = final_answer.source
      /\ response'.warned = reached_max_retries
  BY DEF Finish, answerVars
<1>2. FinalFacts /\ response = NoResponse
  BY <1>1 DEF IInv, AnswerInv
<1>3. Judged' = Judged /\ Outcome = "pending"
  BY <1>1, <1>2, PendingOutcome DEF Judged
<1>4. Promise!LastVerdict = judge_status /\ Len(Judged) = retry_count
  BY JudgedIs DEF JudgedFacts
<1>5. Outcome' = IF final_answer.source = "simple" THEN "direct"
                 ELSE IF reached_max_retries THEN "flagged"
                 ELSE IF judge_status = "PASS" THEN "approved" ELSE "unresolved"
  BY <1>1 DEF Outcome, Answered
<1>6. /\ reached_max_retries <=> retry_count = MaxRetries /\ judge_status = "FAIL"
      /\ judge_status = "none" <=> retry_count = 0
      /\ judge_status \in Statuses \cup {"none"}
      /\ retry_count \in 0..MaxRetries
  BY DEF IInv, LoopInv, CountInv, TypeOK, AnswerTypeOK, GraphTypeOK
<1>7. CASE final_answer.source = "simple"
  <2>1. Outcome' = "direct" /\ retry_count < MaxRetries /\ judge_status # "PASS"
    BY <1>2, <1>5, <1>7 DEF FinalFacts
  <2> QED BY <1>3, <1>4, <2>1 DEF Promise!ReplyDirectly
<1>8. CASE final_answer.source = "draft"
  <2>1. judge_status = "PASS" \/ retry_count = MaxRetries
    BY <1>2, <1>8 DEF FinalFacts
  <2>2. CASE judge_status = "PASS"
    <3>1. Outcome' = "approved"
      BY <1>5, <1>6, <1>8, <2>2
    <3> QED BY <1>3, <1>4, <2>2, <3>1 DEF Promise!Approve
  <2>3. CASE judge_status = "FAIL" /\ retry_count = MaxRetries
    <3>1. Outcome' = "flagged"
      BY <1>5, <1>6, <1>8, <2>3
    <3> QED BY <1>3, <1>4, <2>3, <3>1 DEF Promise!GiveUp
  <2>4. CASE judge_status = "OTHER" /\ retry_count = MaxRetries
    <3>1. Outcome' = "unresolved"
      BY <1>5, <1>6, <1>8, <2>4
    <3> QED BY <1>3, <1>4, <2>4, <3>1 DEF Promise!GiveUp
  <2>5. judge_status # "none"
    BY <1>6, <2>1
  <2> QED BY <1>6, <2>1, <2>2, <2>3, <2>4, <2>5 DEF Statuses
<1> QED BY <1>2, <1>7, <1>8 DEF FinalFacts

\* Every step of a run is a step of the abstract loop or leaves it alone.
LEMMA RefineStep == IInv /\ IInv' /\ [Next]_vars => [Promise!LoopNext]_(Promise!loopVars)
<1> SUFFICES ASSUME IInv, IInv', [Next]_vars
             PROVE  Promise!LoopNext \/ UNCHANGED Promise!loopVars
  OBVIOUS
<1>1. ASSUME node # "end", UNCHANGED <<retry_count, response, loop_traces>>
      PROVE  UNCHANGED Promise!loopVars
  <2>1. retry_count <= Len(loop_traces)
    BY DEF IInv, LoopInv, LengthInv, TypeOK, GraphTypeOK
  <2> QED BY <1>1, <2>1, Stutter
<1>2. ASSUME Fail, node # "end" PROVE Promise!LoopNext
  BY <1>2, RefineFail DEF Promise!LoopNext
<1>3. CASE EnterRun
  BY <1>1, <1>3 DEF EnterRun
<1>4. CASE Compressor
  BY <1>1, <1>4 DEF Compressor, traceVars
<1>5. ASSUME NEW logged \in BOOLEAN, Rewriter(logged) PROVE UNCHANGED Promise!loopVars
  <2>1. node = "rewriter" /\ UNCHANGED <<retry_count, response>>
    BY <1>5 DEF Rewriter
  <2>2. /\ retry_count \in Nat /\ retry_count < MaxRetries
        /\ Len(loop_traces) = retry_count
        /\ TraceTypeOK
    BY <2>1 DEF IInv, LoopInv, CountInv, LengthInv, Before, TypeOK, GraphTypeOK
  <2>3. Iteration \in 1..MaxRetries
    BY <2>2 DEF Iteration
  <2>4. /\ Len(loop_traces') = retry_count + 1
        /\ \A i \in 1..retry_count : loop_traces'[i] = loop_traces[i]
    BY <1>5, <2>2, <2>3, RewriterTrace
  <2> QED BY <2>1, <2>2, <2>4, Stutter
<1>6. ASSUME NEW class \in Classes, NEW mcp \in BOOLEAN, Orchestrator(class, mcp)
      PROVE  UNCHANGED Promise!loopVars
  BY <1>1, <1>6 DEF Orchestrator, traceVars
<1>7. CASE SimpleResponder
  BY <1>1, <1>7 DEF SimpleResponder, traceVars
<1>8. ASSUME NEW any \in BOOLEAN, Retriever(any) PROVE UNCHANGED Promise!loopVars
  BY <1>1, <1>8 DEF Retriever, traceVars
<1>9. CASE ExternalContext
  <2>1. ASSUME BranchStep PROVE UNCHANGED Promise!loopVars
    BY <1>1, <2>1 DEF BranchStep, traceVars
  <2>2. CASE JoinBranches
    BY <1>1, <2>2 DEF JoinBranches, traceVars
  <2>3. CASE JoinRaises
    BY <1>2, <2>3 DEF JoinRaises
  <2> QED
    BY <1>9, <2>1, <2>2, <2>3
    DEF ExternalContext, PlanTools, PlanRaises, CallTool, FinishTools, RetrieveBeside
<1>10. ASSUME NEW refused \in BOOLEAN, Drafter(refused) PROVE UNCHANGED Promise!loopVars
  BY <1>1, <1>10 DEF Drafter, traceVars
<1>11. ASSUME NEW reply \in JudgeReplies, NEW textReason \in BOOLEAN,
              NEW logged \in BOOLEAN, Judge(reply, textReason, logged)
       PROVE  Promise!LoopNext
  BY <1>11, RefineJudge DEF Promise!LoopNext
<1>12. ASSUME NEW logged \in BOOLEAN, Finish(logged) PROVE Promise!LoopNext
  BY <1>12, RefineFinish DEF Promise!LoopNext
<1>13. CASE Returned \/ UNCHANGED vars
  <2>1. UNCHANGED <<retry_count, loop_traces, response, judge_status>>
    BY <1>13 DEF Returned, vars, traceVars, answerVars
  <2> QED BY <2>1 DEF Promise!loopVars, Judged, Outcome, Answered
<1>14. CASE EnterRaises \/ LlmRaises \/ RewriterRaises
  BY <1>2, <1>14 DEF EnterRaises, LlmRaises, LlmNodes, RewriterRaises
<1> QED
  BY <1>3, <1>4, <1>5, <1>6, <1>7, <1>8, <1>9, <1>10, <1>11, <1>12, <1>13, <1>14 DEF Next

\* Every run of graph.py is a run of SelfCorrection: for any limit, at most that many
\* verdicts, none after a PASS, and the outcome the verdicts call for.
THEOREM ImplementsPromise == Spec => ImplementsSelfCorrection
  BY RefineInit, RefineStep, IInvHolds, PTL
  DEF Spec, ImplementsSelfCorrection, Promise!LoopSpec
-----------------------------------------------------------------------------
(* Induction and recursion over the natural numbers, stated for sets *)

\* A set of numbers that is not empty has a least member.
LEMMA LeastNumber ==
    ASSUME NEW T \in SUBSET Nat, T # {}
    PROVE  \E n \in T : \A m \in T : n <= m
<1> DEFINE R == OpToRel(<, Nat)
<1>1. IsWellFoundedOn(R, Nat)
  BY NatLessThanWellFounded
<1>2. \A m, n \in Nat : m < n => <<m, n>> \in R
  BY DEF OpToRel
<1> HIDE DEF R
<1>3. PICK n \in T : \A m \in T : ~(<<m, n>> \in R)
  BY <1>1, WFMin
<1>4. ASSUME NEW m \in T PROVE n <= m
  <2>1. ~(m < n)
    BY <1>2, <1>3
  <2> QED  BY <2>1
<1> QED  BY <1>4

\* Induction: a set with 0 and with every successor holds all numbers.
LEMMA SetInduction ==
    ASSUME NEW T \in SUBSET Nat, 0 \in T, \A n \in T : n + 1 \in T
    PROVE  \A n \in Nat : n \in T
<1> SUFFICES ASSUME Nat \ T # {} PROVE FALSE
  OBVIOUS
<1>1. PICK n \in Nat \ T : \A m \in Nat \ T : n <= m
  BY LeastNumber
<1>2. n # 0 /\ n - 1 \in Nat
  BY <1>1
<1>3. n - 1 \in T
  BY <1>1, <1>2
<1> QED  BY <1>1, <1>2, <1>3

\* h is the beginning, up to n, of what step makes of base.
IsStart(h, n, A, base, step) ==
    /\ h \in [0 .. n -> A]
    /\ h[0] = base
    /\ \A i \in 0 .. n - 1 : h[i + 1] = step[i][h[i]]

LEMMA StartsExist ==
    ASSUME NEW A, NEW base \in A, NEW step \in [Nat -> [A -> A]]
    PROVE  \A n \in Nat : \E h : IsStart(h, n, A, base, step)
<1> DEFINE T == {n \in Nat : \E h : IsStart(h, n, A, base, step)}
<1>1. 0 \in T
  <2>1. IsStart([i \in 0 .. 0 |-> base], 0, A, base, step)
    BY DEF IsStart
  <2> QED  BY <2>1
<1>2. ASSUME NEW n \in T PROVE n + 1 \in T
  <2>1. PICK h : IsStart(h, n, A, base, step)
    OBVIOUS
  <2> DEFINE g == [i \in 0 .. n + 1 |-> IF i = n + 1 THEN step[n][h[n]] ELSE h[i]]
  <2>2. h[n] \in A /\ step[n][h[n]] \in A
    BY <2>1 DEF IsStart
  <2>3. g \in [0 .. n + 1 -> A]
    BY <2>1, <2>2 DEF IsStart
  <2>4. g[0] = base
    BY <2>1 DEF IsStart
  <2>5. ASSUME NEW i \in 0 .. n PROVE g[i + 1] = step[i][g[i]]
    BY <2>1 DEF IsStart
  <2> HIDE DEF g
  <2>6. IsStart(g, n + 1, A, base, step)
    BY <2>3, <2>4, <2>5 DEF IsStart
  <2> QED  BY <2>6
<1> HIDE DEF T
<1>3. \A n \in Nat : n \in T
  <2>1. T \in SUBSET Nat
    BY DEF T
  <2> QED  BY <1>1, <1>2, <2>1, SetInduction
<1> QED  BY <1>3 DEF T

LEMMA StartsAgree ==
    ASSUME NEW A, NEW base, NEW step, NEW n \in Nat, NEW g, NEW h,
           IsStart(g, n, A, base, step), IsStart(h, n + 1, A, base, step)
    PROVE  g[n] = h[n]
<1> DEFINE T == {i \in Nat : i <= n => g[i] = h[i]}
<1>1. 0 \in T
  BY DEF IsStart
<1>2. ASSUME NEW i \in T PROVE i + 1 \in T
  BY DEF IsStart
<1>3. T \in SUBSET Nat
  OBVIOUS
<1> HIDE DEF T
<1>4. n \in T
  BY <1>1, <1>2, <1>3, SetInduction
<1> QED  BY <1>4 DEF T

\* f is what recursion makes of base and step.
IsStep(step, A) == step \in [Nat -> [A -> A]]
IsRecursion(f, A, base, step) ==
    f \in [Nat -> A] /\ f[0] = base /\ \A n \in Nat : f[n + 1] = step[n][f[n]]

\* Recursion: a function that starts with base and goes on with step exists.
LEMMA PrimitiveRecursion ==
    ASSUME NEW A, NEW base \in A, NEW step, IsStep(step, A)
    PROVE  \E f : IsRecursion(f, A, base, step)
<1> DEFINE start(n) == CHOOSE h : IsStart(h, n, A, base, step)
           f == [n \in Nat |-> start(n)[n]]
<1>1. \A n \in Nat : IsStart(start(n), n, A, base, step)
  BY StartsExist DEF IsStep
<1> HIDE DEF start
<1>2. f \in [Nat -> A]
  BY <1>1 DEF IsStart
<1>3. f[0] = base
  BY <1>1 DEF IsStart
<1>4. ASSUME NEW n \in Nat PROVE f[n + 1] = step[n][f[n]]
  <2>1. start(n)[n] = start(n + 1)[n]
    BY <1>1, StartsAgree
  <2>2. start(n + 1)[n + 1] = step[n][start(n + 1)[n]]
    BY <1>1 DEF IsStart
  <2> QED  BY <2>1, <2>2
<1>5. IsRecursion(f, A, base, step)
  <2> HIDE DEF f
  <2> QED  BY <1>2, <1>3, <1>4 DEF IsRecursion
<1> QED  BY <1>5

-----------------------------------------------------------------------------
(* Sums and joined texts *)

\* The sum of a sequence is the last of its partial sums.
LEMMA PartialSums ==
    ASSUME NEW s \in Seq(Nat)
    PROVE  \E f \in [0 .. Len(s) -> Nat] :
              /\ f[0] = 0
              /\ \A n \in 1 .. Len(s) : f[n] = f[n - 1] + s[n]
              /\ Total(s) = f[Len(s)]
<1> DEFINE step == [n \in Nat |-> [x \in Nat |-> IF n < Len(s) THEN x + s[n + 1] ELSE x]]
           u == CHOOSE g : g = [n \in 0 .. Len(s) |-> IF n = 0 THEN 0 ELSE g[n - 1] + s[n]]
<1>1. IsStep(step, Nat)
  BY DEF IsStep
<1>2. PICK f : IsRecursion(f, Nat, 0, step)
  <2> HIDE DEF step
  <2> QED  BY <1>1, PrimitiveRecursion
<1>a. f \in [Nat -> Nat] /\ f[0] = 0 /\ \A n \in Nat : f[n + 1] = step[n][f[n]]
  BY <1>2 DEF IsRecursion
<1>3. \A n \in 1 .. Len(s) : f[n] = f[n - 1] + s[n]
  <2> SUFFICES ASSUME NEW m \in Nat, m < Len(s) PROVE f[m + 1] = f[m] + s[m + 1]
    <3>1. ASSUME NEW n \in 1 .. Len(s) PROVE \E m \in Nat : m < Len(s) /\ n = m + 1 /\ n - 1 = m
      BY n - 1 \in Nat
    <3> QED  BY <3>1
  <2>1. f[m + 1] = step[m][f[m]] /\ f[m] \in Nat
    BY <1>a
  <2> QED  BY <2>1
<1> HIDE DEF step
<1> DEFINE h == [n \in 0 .. Len(s) |-> f[n]]
<1>4. h = [n \in 0 .. Len(s) |-> IF n = 0 THEN 0 ELSE h[n - 1] + s[n]]
  <2>1. ASSUME NEW n \in 0 .. Len(s) PROVE h[n] = IF n = 0 THEN 0 ELSE h[n - 1] + s[n]
    <3>1. CASE n = 0
      BY <3>1, <1>a
    <3>2. CASE n # 0
      <4>1. n \in 1 .. Len(s) /\ n - 1 \in 0 .. Len(s)
        BY <3>2
      <4>2. h[n] = f[n] /\ h[n - 1] = f[n - 1]
        BY <4>1
      <4> QED  BY <4>1, <4>2, <1>3, <3>2
    <3> QED  BY <3>1, <3>2
  <2>2. h = [n \in 0 .. Len(s) |-> h[n]]
    OBVIOUS
  <2> HIDE DEF h
  <2> QED  BY <2>1, <2>2
<1>5. u = [n \in 0 .. Len(s) |-> IF n = 0 THEN 0 ELSE u[n - 1] + s[n]]
  <2> HIDE DEF h
  <2> QED  BY <1>4
<1>6. Total(s) = u[Len(s)]
  BY DEF Total
<1> HIDE DEF u
<1> DEFINE T == {n \in Nat : n <= Len(s) => u[n] = f[n]}
<1>7. 0 \in T
  BY <1>a, <1>5
<1>8. ASSUME NEW n \in T PROVE n + 1 \in T
  BY <1>3, <1>5
<1>9. T \in SUBSET Nat
  OBVIOUS
<1> HIDE DEF T
<1>10. Len(s) \in T
  BY <1>7, <1>8, <1>9, SetInduction
<1>11. h \in [0 .. Len(s) -> Nat] /\ h[0] = 0
  <2>1. 0 \in 0 .. Len(s) /\ 0 .. Len(s) \subseteq Nat
    OBVIOUS
  <2>2. \A n \in 0 .. Len(s) : f[n] \in Nat
    BY <1>a
  <2> QED  BY <2>1, <2>2, <1>a
<1>12. \A n \in 1 .. Len(s) : h[n] = h[n - 1] + s[n]
  BY <1>3
<1>13. Total(s) = h[Len(s)]
  BY <1>6, <1>10 DEF T
<1> HIDE DEF h
<1> QED  BY <1>11, <1>12, <1>13

\* A text made of parts is the last of its beginnings.
IsJoining(f, parts, S) ==
    /\ f \in [0 .. Len(parts) -> Seq(S)]
    /\ f[0] = <<>>
    /\ \A n \in 1 .. Len(parts) : f[n] = f[n - 1] \o parts[n]
    /\ FlattenSeq(parts) = f[Len(parts)]

LEMMA Beginnings ==
    ASSUME NEW S, NEW parts \in Seq(Seq(S))
    PROVE  \E f : IsJoining(f, parts, S)
<1> DEFINE step == [n \in Nat |-> [x \in Seq(S) |->
                      IF n < Len(parts) THEN x \o parts[n + 1] ELSE x]]
           u == CHOOSE g : g = [i \in 1 .. Len(parts) |->
                                  IF i = 1 THEN parts[i] ELSE g[i - 1] \o parts[i]]
<1>1. IsStep(step, Seq(S))
  <2>1. ASSUME NEW n \in Nat, NEW x \in Seq(S), n < Len(parts) PROVE x \o parts[n + 1] \in Seq(S)
    BY <2>1, ConcatProperties
  <2> QED  BY <2>1 DEF IsStep
<1>2. <<>> \in Seq(S)
  OBVIOUS
<1>3. PICK f : IsRecursion(f, Seq(S), <<>>, step)
  <2> HIDE DEF step
  <2> QED  BY <1>1, <1>2, PrimitiveRecursion
<1>a. f \in [Nat -> Seq(S)] /\ f[0] = <<>> /\ \A n \in Nat : f[n + 1] = step[n][f[n]]
  BY <1>3 DEF IsRecursion
<1>4. \A n \in 1 .. Len(parts) : f[n] = f[n - 1] \o parts[n]
  <2> SUFFICES ASSUME NEW m \in Nat, m < Len(parts) PROVE f[m + 1] = f[m] \o parts[m + 1]
    <3>1. ASSUME NEW n \in 1 .. Len(parts)
          PROVE  \E m \in Nat : m < Len(parts) /\ n = m + 1 /\ n - 1 = m
      BY n - 1 \in Nat
    <3> QED  BY <3>1
  <2>1. f[m + 1] = step[m][f[m]] /\ f[m] \in Seq(S)
    BY <1>a
  <2> QED  BY <2>1
<1> HIDE DEF step
<1>5. Len(parts) > 0 => f[1] = parts[1]
  <2>1. \A t \in Seq(S) : <<>> \o t = t
    BY ConcatEmptySeq
  <2> SUFFICES ASSUME Len(parts) > 0 PROVE f[1] = parts[1]
    OBVIOUS
  <2>2. 1 \in 1 .. Len(parts) /\ 1 - 1 = 0
    OBVIOUS
  <2>3. f[1] = f[0] \o parts[1]
    BY <1>4, <2>2
  <2> QED  BY <1>a, <2>1, <2>2, <2>3
<1> DEFINE h == [n \in 1 .. Len(parts) |-> f[n]]
<1>6. h = [i \in 1 .. Len(parts) |-> IF i = 1 THEN parts[i] ELSE h[i - 1] \o parts[i]]
  <2>1. ASSUME NEW n \in 1 .. Len(parts)
        PROVE  h[n] = IF n = 1 THEN parts[n] ELSE h[n - 1] \o parts[n]
    <3>1. CASE n = 1
      BY <3>1, <1>5
    <3>2. CASE n # 1
      <4>1. n - 1 \in 1 .. Len(parts)
        BY <3>2
      <4>2. h[n] = f[n] /\ h[n - 1] = f[n - 1]
        BY <4>1
      <4> QED  BY <4>2, <1>4, <3>2
    <3> QED  BY <3>1, <3>2
  <2>2. h = [n \in 1 .. Len(parts) |-> h[n]]
    OBVIOUS
  <2> HIDE DEF h
  <2> QED  BY <2>1, <2>2
<1>7. u = [i \in 1 .. Len(parts) |-> IF i = 1 THEN parts[i] ELSE u[i - 1] \o parts[i]]
  <2> HIDE DEF h
  <2> QED  BY <1>6
<1>8. FlattenSeq(parts) = IF Len(parts) = 0 THEN parts ELSE u[Len(parts)]
  BY DEF FlattenSeq
<1> HIDE DEF u
<1> DEFINE T == {n \in Nat : n \in 1 .. Len(parts) => u[n] = f[n]}
<1>9. 0 \in T
  OBVIOUS
<1>10. ASSUME NEW n \in T PROVE n + 1 \in T
  <2>1. CASE n = 0
    BY <2>1, <1>5, <1>7
  <2>2. CASE n # 0 /\ n + 1 \in 1 .. Len(parts)
    <3>1. n \in 1 .. Len(parts) /\ n + 1 # 1 /\ (n + 1) - 1 = n
      BY <2>2
    <3>2. u[n + 1] = u[n] \o parts[n + 1]
      BY <2>2, <3>1, <1>7
    <3>3. f[n + 1] = f[n] \o parts[n + 1]
      BY <2>2, <3>1, <1>4
    <3>4. u[n] = f[n]
      BY <3>1
    <3>5. u[n + 1] = f[n + 1]
      BY <3>2, <3>3, <3>4
    <3> QED  BY <3>5
  <2>3. CASE n + 1 \notin 1 .. Len(parts)
    BY <2>3
  <2> QED  BY <2>1, <2>2, <2>3
<1>11. T \in SUBSET Nat
  OBVIOUS
<1> HIDE DEF T
<1>12. Len(parts) \in T
  <2>1. \A n \in Nat : n \in T
    BY <1>9, <1>10, <1>11, SetInduction
  <2>2. Len(parts) \in Nat
    OBVIOUS
  <2> QED  BY <2>1, <2>2
<1>13. FlattenSeq(parts) = f[Len(parts)]
  <2>1. CASE Len(parts) = 0
    BY <2>1, <1>a, <1>8
  <2>2. CASE Len(parts) # 0
    BY <2>2, <1>8, <1>12 DEF T
  <2> QED  BY <2>1, <2>2
<1> DEFINE k == [n \in 0 .. Len(parts) |-> f[n]]
<1>14. k \in [0 .. Len(parts) -> Seq(S)] /\ k[0] = <<>>
  <2>1. 0 \in 0 .. Len(parts) /\ 0 .. Len(parts) \subseteq Nat
    OBVIOUS
  <2>2. \A n \in 0 .. Len(parts) : f[n] \in Seq(S)
    BY <1>a
  <2> QED  BY <2>1, <2>2, <1>a
<1>15. ASSUME NEW n \in 1 .. Len(parts) PROVE k[n] = k[n - 1] \o parts[n]
  <2>1. n \in 0 .. Len(parts) /\ n - 1 \in 0 .. Len(parts)
    OBVIOUS
  <2>2. k[n] = f[n] /\ k[n - 1] = f[n - 1]
    BY <2>1
  <2> QED  BY <1>4, <2>2
<1>16. FlattenSeq(parts) = k[Len(parts)]
  BY <1>13
<1> HIDE DEF k
<1> QED  BY <1>14, <1>15, <1>16 DEF IsJoining


LEMMA PartIsText ==
    ASSUME NEW S, NEW parts \in Seq(Seq(S))
    PROVE  \A i \in 1 .. Len(parts) : parts[i] \in Seq(S) /\ Len(parts[i]) \in Nat
OBVIOUS

LEMMA TotalIsNat ==
    ASSUME NEW s \in Seq(Nat)
    PROVE  Total(s) \in Nat /\ (Len(s) = 0 => Total(s) = 0)
<1>1. PICK f \in [0 .. Len(s) -> Nat] : f[0] = 0 /\ Total(s) = f[Len(s)]
  BY PartialSums
<1>2. Len(s) \in 0 .. Len(s)
  OBVIOUS
<1> QED  BY <1>1, <1>2

\* No member of a sum is above it.
LEMMA TotalMember ==
    ASSUME NEW s \in Seq(Nat), NEW i \in 1 .. Len(s)
    PROVE  s[i] <= Total(s)
<1>1. PICK f \in [0 .. Len(s) -> Nat] :
         /\ f[0] = 0
         /\ \A n \in 1 .. Len(s) : f[n] = f[n - 1] + s[n]
         /\ Total(s) = f[Len(s)]
  BY PartialSums
<1> DEFINE T == {n \in Nat : n <= Len(s) /\ i <= n => s[i] <= f[n]}
<1>2. 0 \in T
  OBVIOUS
<1>3. ASSUME NEW n \in T PROVE n + 1 \in T
  <2> SUFFICES ASSUME n + 1 <= Len(s), i <= n + 1 PROVE s[i] <= f[n + 1]
    OBVIOUS
  <2>1. n + 1 \in 1 .. Len(s) /\ n \in 0 .. Len(s) /\ (n + 1) - 1 = n
    OBVIOUS
  <2>2. f[n + 1] = f[n] + s[n + 1] /\ f[n] \in Nat /\ s[n + 1] \in Nat
    BY <2>1, <1>1
  <2>3. CASE i = n + 1
    BY <2>2, <2>3
  <2>4. CASE i <= n
    <3>1. s[i] <= f[n] /\ s[i] \in Nat
      BY <2>4
    <3> QED  BY <3>1, <2>2
  <2> QED  BY <2>3, <2>4
<1>4. T \in SUBSET Nat
  OBVIOUS
<1> HIDE DEF T
<1>5. Len(s) \in T
  <2>1. \A n \in Nat : n \in T
    BY <1>2, <1>3, <1>4, SetInduction
  <2> QED  BY <2>1
<1> QED  BY <1>1, <1>5 DEF T

LEMMA TotalMonotone ==
    ASSUME NEW s \in Seq(Nat), NEW t \in Seq(Nat), Len(s) = Len(t),
           \A i \in 1 .. Len(s) : s[i] <= t[i]
    PROVE  Total(s) <= Total(t)
<1>1. PICK f \in [0 .. Len(s) -> Nat] :
         /\ f[0] = 0
         /\ \A n \in 1 .. Len(s) : f[n] = f[n - 1] + s[n]
         /\ Total(s) = f[Len(s)]
  BY PartialSums
<1>2. PICK g \in [0 .. Len(s) -> Nat] :
         /\ g[0] = 0
         /\ \A n \in 1 .. Len(s) : g[n] = g[n - 1] + t[n]
         /\ Total(t) = g[Len(s)]
  BY PartialSums
<1> DEFINE T == {n \in Nat : n <= Len(s) => f[n] <= g[n]}
<1>3. 0 \in T
  BY <1>1, <1>2
<1>4. ASSUME NEW n \in T PROVE n + 1 \in T
  <2> SUFFICES ASSUME n + 1 <= Len(s) PROVE f[n + 1] <= g[n + 1]
    OBVIOUS
  <2>1. n + 1 \in 1 .. Len(s) /\ n \in 0 .. Len(s) /\ (n + 1) - 1 = n
    OBVIOUS
  <2>2. f[n + 1] = f[n] + s[n + 1] /\ g[n + 1] = g[n] + t[n + 1]
    BY <2>1, <1>1, <1>2
  <2>3. f[n] \in Nat /\ g[n] \in Nat /\ s[n + 1] \in Nat /\ t[n + 1] \in Nat
    <3> HIDE DEF T
    <3>1. f[n] \in Nat /\ g[n] \in Nat
      BY <2>1
    <3>2. s[n + 1] \in Nat
      BY <2>1
    <3>3. t[n + 1] \in Nat
      BY <2>1
    <3> QED  BY <3>1, <3>2, <3>3
  <2>4. f[n] <= g[n] /\ s[n + 1] <= t[n + 1]
    BY <2>1
  <2> QED  BY <2>2, <2>3, <2>4
<1>5. T \in SUBSET Nat
  OBVIOUS
<1> HIDE DEF T
<1>6. Len(s) \in T
  <2>1. \A n \in Nat : n \in T
    BY <1>3, <1>4, <1>5, SetInduction
  <2> QED  BY <2>1
<1> QED  BY <1>1, <1>2, <1>6 DEF T

LEMMA JoinedIsText ==
    ASSUME NEW S, NEW parts \in Seq(Seq(S))
    PROVE  FlattenSeq(parts) \in Seq(S)
<1>1. PICK f : IsJoining(f, parts, S)
  BY Beginnings
<1>2. Len(parts) \in 0 .. Len(parts)
  OBVIOUS
<1> QED  BY <1>1, <1>2 DEF IsJoining

\* A joined text is no longer than the bounds of its parts together.
LEMMA JoinedLength ==
    ASSUME NEW S, NEW parts \in Seq(Seq(S)), NEW sizes \in Seq(Nat),
           Len(sizes) = Len(parts),
           \A i \in 1 .. Len(parts) : Len(parts[i]) <= sizes[i]
    PROVE  Len(FlattenSeq(parts)) <= Total(sizes)
<1>1. PICK f : IsJoining(f, parts, S)
  BY Beginnings
<1>2. PICK g \in [0 .. Len(sizes) -> Nat] :
         /\ g[0] = 0
         /\ \A n \in 1 .. Len(sizes) : g[n] = g[n - 1] + sizes[n]
         /\ Total(sizes) = g[Len(sizes)]
  BY PartialSums
<1> DEFINE T == {n \in Nat : n <= Len(parts) => Len(f[n]) <= g[n]}
<1>3. 0 \in T
  BY <1>1, <1>2 DEF IsJoining
<1>4. ASSUME NEW n \in T PROVE n + 1 \in T
  <2> SUFFICES ASSUME n + 1 <= Len(parts) PROVE Len(f[n + 1]) <= g[n + 1]
    OBVIOUS
  <2>1. n + 1 \in 1 .. Len(parts) /\ n \in 0 .. Len(parts) /\ (n + 1) - 1 = n
    OBVIOUS
  <2>2. f[n + 1] = f[n] \o parts[n + 1] /\ g[n + 1] = g[n] + sizes[n + 1]
    BY <2>1, <1>1, <1>2 DEF IsJoining
  <2>3. f[n] \in Seq(S) /\ parts[n + 1] \in Seq(S)
    <3>1. f[n] \in Seq(S)
      BY <2>1, <1>1 DEF IsJoining
    <3> QED  BY <2>1, <3>1, PartIsText
  <2>4. Len(f[n + 1]) = Len(f[n]) + Len(parts[n + 1])
    BY <2>2, <2>3
  <2>5. Len(f[n]) \in Nat /\ Len(parts[n + 1]) \in Nat
    BY <2>3
  <2>6. g[n] \in Nat /\ sizes[n + 1] \in Nat
    <3> HIDE DEF T
    <3>1. n \in 0 .. Len(sizes) /\ n + 1 \in 1 .. Len(sizes)
      BY <2>1
    <3>2. g[n] \in Nat
      BY <3>1
    <3>3. sizes[n + 1] \in Nat
      BY <3>1
    <3> QED  BY <3>2, <3>3
  <2>7. Len(f[n]) <= g[n] /\ Len(parts[n + 1]) <= sizes[n + 1]
    BY <2>1
  <2>8. g[n + 1] = g[n] + sizes[n + 1]
    BY <2>2
  <2> DEFINE a == Len(f[n])
             b == Len(parts[n + 1])
             c == g[n]
             d == sizes[n + 1]
  <2>9. a \in Nat /\ b \in Nat /\ c \in Nat /\ d \in Nat /\ a <= c /\ b <= d
    BY <2>5, <2>6, <2>7
  <2>10. Len(f[n + 1]) = a + b /\ g[n + 1] = c + d
    BY <2>4, <2>8
  <2> HIDE DEF T, a, b, c, d
  <2> QED  BY <2>9, <2>10
<1>5. T \in SUBSET Nat
  OBVIOUS
<1> HIDE DEF T
<1>6. Len(parts) \in T
  <2>1. \A n \in Nat : n \in T
    BY <1>3, <1>4, <1>5, SetInduction
  <2> QED  BY <2>1
<1> QED  BY <1>1, <1>2, <1>6 DEF T, IsJoining

\* The text p stands somewhere in the text t.
Inside(p, t) ==
    \E o \in Nat : o + Len(p) <= Len(t) /\ \A j \in 1 .. Len(p) : t[o + j] = p[j]

LEMMA InsideLonger ==
    ASSUME NEW S, NEW p \in Seq(S), NEW t \in Seq(S), NEW u \in Seq(S)
    PROVE  /\ Inside(p, p \o u) /\ Inside(p, u \o p)
           /\ Inside(p, t) => Inside(p, t \o u) /\ Inside(p, u \o t)
<1>1. Inside(p, p \o u)
  <2>1. 0 + Len(p) <= Len(p \o u) /\ \A j \in 1 .. Len(p) : (p \o u)[0 + j] = p[j]
    OBVIOUS
  <2>2. 0 \in Nat
    OBVIOUS
  <2> DEFINE o == 0
  <2>3. o \in Nat /\ o + Len(p) <= Len(p \o u) /\ \A j \in 1 .. Len(p) : (p \o u)[o + j] = p[j]
    BY <2>1, <2>2
  <2> HIDE DEF o
  <2> QED  BY <2>3 DEF Inside
<1>2. Inside(p, u \o p)
  <2>1. /\ Len(u) + Len(p) <= Len(u \o p)
        /\ \A j \in 1 .. Len(p) : (u \o p)[Len(u) + j] = p[j]
    OBVIOUS
  <2> DEFINE o == Len(u)
  <2>2. o \in Nat /\ o + Len(p) <= Len(u \o p) /\ \A j \in 1 .. Len(p) : (u \o p)[o + j] = p[j]
    BY <2>1
  <2> HIDE DEF o
  <2> QED  BY <2>2 DEF Inside
<1>3. ASSUME Inside(p, t) PROVE Inside(p, t \o u) /\ Inside(p, u \o t)
  <2>1. PICK o \in Nat : o + Len(p) <= Len(t) /\ \A j \in 1 .. Len(p) : t[o + j] = p[j]
    BY <1>3 DEF Inside
  <2>2. \A j \in 1 .. Len(p) : (t \o u)[o + j] = p[j]
    BY <2>1
  <2>3. \A j \in 1 .. Len(p) : (u \o t)[(Len(u) + o) + j] = p[j]
    BY <2>1
  <2>4. o + Len(p) <= Len(t \o u) /\ (Len(u) + o) + Len(p) <= Len(u \o t)
    BY <2>1
  <2>5. Len(u) + o \in Nat
    OBVIOUS
  <2> QED  BY <2>2, <2>3, <2>4, <2>5 DEF Inside
<1> QED  BY <1>1, <1>2, <1>3

\* A joined text holds each of its parts in one piece.
LEMMA JoinedHolds ==
    ASSUME NEW S, NEW parts \in Seq(Seq(S)), NEW i \in 1 .. Len(parts)
    PROVE  Inside(parts[i], FlattenSeq(parts))
<1>1. PICK f : IsJoining(f, parts, S)
  BY Beginnings
<1> DEFINE T == {n \in Nat : n <= Len(parts) /\ i <= n => Inside(parts[i], f[n])}
<1>2. 0 \in T
  OBVIOUS
<1>3. ASSUME NEW n \in T PROVE n + 1 \in T
  <2> SUFFICES ASSUME n + 1 <= Len(parts), i <= n + 1 PROVE Inside(parts[i], f[n + 1])
    OBVIOUS
  <2>1. n + 1 \in 1 .. Len(parts) /\ n \in 0 .. Len(parts) /\ (n + 1) - 1 = n
    OBVIOUS
  <2>2. f[n + 1] = f[n] \o parts[n + 1]
    BY <2>1, <1>1 DEF IsJoining
  <2>3. f[n] \in Seq(S) /\ parts[n + 1] \in Seq(S) /\ parts[i] \in Seq(S)
    <3>1. f[n] \in Seq(S)
      BY <2>1, <1>1 DEF IsJoining
    <3> QED  BY <2>1, <3>1, PartIsText
  <2>4. CASE i = n + 1
    BY <2>2, <2>3, <2>4, InsideLonger
  <2>5. CASE i <= n
    <3>1. Inside(parts[i], f[n])
      BY <2>1, <2>5
    <3> QED  BY <3>1, <2>2, <2>3, InsideLonger
  <2> QED  BY <2>4, <2>5
<1>4. T \in SUBSET Nat
  OBVIOUS
<1> HIDE DEF T
<1>5. Len(parts) \in T
  <2>1. \A n \in Nat : n \in T
    BY <1>2, <1>3, <1>4, SetInduction
  <2> QED  BY <2>1
<1> QED  BY <1>1, <1>5 DEF T, IsJoining

\* The tokens of a text.
Tokens(t) == {t[k] : k \in 1 .. Len(t)}

LEMMA TokensOfBoth ==
    ASSUME NEW S, NEW t \in Seq(S), NEW u \in Seq(S)
    PROVE  Tokens(t \o u) = Tokens(t) \cup Tokens(u)
<1>1. ASSUME NEW k \in 1 .. Len(t \o u) PROVE (t \o u)[k] \in Tokens(t) \cup Tokens(u)
  <2>1. CASE k <= Len(t)
    BY <2>1 DEF Tokens
  <2>2. CASE k > Len(t)
    <3>1. (t \o u)[k] = u[k - Len(t)] /\ k - Len(t) \in 1 .. Len(u)
      BY <2>2
    <3> QED  BY <3>1 DEF Tokens
  <2> QED  BY <2>1, <2>2
<1>2. ASSUME NEW k \in 1 .. Len(t) PROVE t[k] \in Tokens(t \o u)
  <2>1. t[k] = (t \o u)[k] /\ k \in 1 .. Len(t \o u)
    OBVIOUS
  <2> QED  BY <2>1 DEF Tokens
<1>3. ASSUME NEW k \in 1 .. Len(u) PROVE u[k] \in Tokens(t \o u)
  <2>1. u[k] = (t \o u)[Len(t) + k] /\ Len(t) + k \in 1 .. Len(t \o u)
    OBVIOUS
  <2> QED  BY <2>1 DEF Tokens
<1> QED  BY <1>1, <1>2, <1>3 DEF Tokens

\* A joined text has no token that is not of one of its parts.
LEMMA JoinedFrom ==
    ASSUME NEW S, NEW parts \in Seq(Seq(S)), NEW x \in Tokens(FlattenSeq(parts))
    PROVE  \E i \in 1 .. Len(parts) : x \in Tokens(parts[i])
<1>1. PICK f : IsJoining(f, parts, S)
  BY Beginnings
<1> DEFINE T == {n \in Nat : n <= Len(parts) /\ x \in Tokens(f[n]) =>
                               \E i \in 1 .. Len(parts) : x \in Tokens(parts[i])}
<1>2. 0 \in T
  BY <1>1 DEF IsJoining, Tokens
<1>3. ASSUME NEW n \in T PROVE n + 1 \in T
  <2> SUFFICES ASSUME n + 1 <= Len(parts), x \in Tokens(f[n + 1])
               PROVE  \E i \in 1 .. Len(parts) : x \in Tokens(parts[i])
    OBVIOUS
  <2>1. n + 1 \in 1 .. Len(parts) /\ n \in 0 .. Len(parts) /\ (n + 1) - 1 = n
    <3>1. n \in Nat /\ Len(parts) \in Nat
      OBVIOUS
    <3> HIDE DEF T
    <3> QED  BY <3>1
  <2>2. f[n + 1] = f[n] \o parts[n + 1]
    BY <2>1, <1>1 DEF IsJoining
  <2>3. f[n] \in Seq(S) /\ parts[n + 1] \in Seq(S)
    BY <2>1, <1>1 DEF IsJoining
  <2>4. x \in Tokens(f[n]) \/ x \in Tokens(parts[n + 1])
    BY <2>2, <2>3, TokensOfBoth
  <2> QED  BY <2>1, <2>4
<1>4. T \in SUBSET Nat
  OBVIOUS
<1> HIDE DEF T
<1>5. Len(parts) \in T
  <2>1. \A n \in Nat : n \in T
    BY <1>2, <1>3, <1>4, SetInduction
  <2> QED  BY <2>1
<1> QED  BY <1>1, <1>5 DEF T, IsJoining

-----------------------------------------------------------------------------
(* trim_preserve_edges *)

LEMMA Halves ==
    ASSUME NEW x \in Nat
    PROVE  x \div 2 \in Nat /\ 2 * (x \div 2) <= x /\ x <= 2 * (x \div 2) + 1
OBVIOUS

\* The text t ends with q.
EndsWith(t, q) ==
    /\ Len(q) <= Len(t)
    /\ \A j \in 1 .. Len(q) : t[Len(t) - Len(q) + j] = q[j]

\* h tokens of the start of a text and l of its end, around the marker.
Edges(whole, h, l) ==
    SubSeq(whole, 1, h) \o Marker \o SubSeq(whole, Len(whole) - l + 1, Len(whole))

\* A text that is too long is cut to its start, or to both ends around the marker.
IsTrimmed(r, whole, max) ==
    \/ max <= 0 /\ r = <<>>
    \/ max > 0 /\ Len(whole) <= max /\ r = whole
    \/ max > 0 /\ ~(Len(whole) <= max) /\ max - Len(Marker) < Unit /\ r = SubSeq(whole, 1, max)
    \/ /\ max > 0 /\ ~(Len(whole) <= max) /\ max - Len(Marker) >= Unit
       /\ \E h \in Nat, l \in Nat :
             /\ h + l = max - Len(Marker) /\ h <= l /\ l <= h + 1
             /\ r = Edges(whole, h, l)

LEMMA TrimCases ==
    ASSUME NEW S, NEW whole \in Seq(S), NEW max \in Int
    PROVE  IsTrimmed(trim_preserve_edges(whole, max), whole, max)
<1> DEFINE r == trim_preserve_edges(whole, max)
<1> SUFFICES IsTrimmed(r, whole, max)
  OBVIOUS
<1> USE DEF IsTrimmed
<1> DEFINE rest == max - Len(Marker)
           h == rest \div 2
           l == rest - h
           start == SubSeq(whole, 1, max)
           both == Edges(whole, h, l)
<1>1. Len(Marker) \in Nat /\ Unit \in Nat /\ Len(whole) \in Nat
  BY MarkerAssumption, UnitAssumption DEF Marker, Words
<1>2. r = IF max <= 0 THEN <<>>
          ELSE IF Len(whole) <= max THEN whole
          ELSE IF rest < Unit THEN start
          ELSE both
  BY DEF trim_preserve_edges, Edges
<1> HIDE DEF r
<1>3. rest \in Int
  BY <1>1
<1>4. CASE rest < Unit \/ max <= 0 \/ Len(whole) <= max
  <2> HIDE DEF h, l, both
  <2>1. CASE max <= 0
    BY <1>2, <2>1
  <2>2. CASE max > 0 /\ Len(whole) <= max
    BY <1>2, <2>2
  <2>3. CASE max > 0 /\ ~(Len(whole) <= max) /\ rest < Unit
    BY <1>2, <2>3
  <2>4. max <= 0 \/ max > 0
    OBVIOUS
  <2> HIDE DEF start
  <2> QED  BY <1>4, <2>1, <2>2, <2>3, <2>4
<1>5. CASE rest >= Unit /\ max > 0 /\ ~(Len(whole) <= max)
  <2>1. rest \in Nat
    BY <1>1, <1>3, <1>5
  <2>2. h \in Nat /\ l \in Nat /\ h + l = rest /\ h <= l /\ l <= h + 1
    <3> HIDE DEF rest
    <3> QED  BY <2>1, Halves
  <2> HIDE DEF rest
  <2>3. r = both
    <3> HIDE DEF h, l, start, both
    <3> QED  BY <1>1, <1>2, <1>3, <1>5
  <2>4. \E hh \in Nat, ll \in Nat :
            /\ hh + ll = rest /\ hh <= ll /\ ll <= hh + 1
            /\ r = Edges(whole, hh, ll)
    <3>1. r = Edges(whole, h, l)
      BY <2>3
    <3> HIDE DEF h, l
    <3> QED  BY <2>2, <3>1
  <2> QED  BY <1>5, <2>4 DEF rest
<1>6. \/ rest < Unit \/ max <= 0 \/ Len(whole) <= max
      \/ rest >= Unit /\ max > 0 /\ ~(Len(whole) <= max)
  <2> HIDE DEF rest
  <2> QED  BY <1>1, <1>3
<1> HIDE DEF rest
<1> QED  BY <1>4, <1>5, <1>6, Zenon

LEMMA Pieces ==
    ASSUME NEW S, NEW whole \in Seq(S), NEW n \in Nat, n <= Len(whole)
    PROVE  /\ SubSeq(whole, 1, n) \in Seq(S)
           /\ Len(SubSeq(whole, 1, n)) = n
           /\ \A i \in 1 .. n : SubSeq(whole, 1, n)[i] = whole[i]
           /\ SubSeq(whole, Len(whole) - n + 1, Len(whole)) \in Seq(S)
           /\ Len(SubSeq(whole, Len(whole) - n + 1, Len(whole))) = n
           /\ \A i \in 1 .. n :
                 SubSeq(whole, Len(whole) - n + 1, Len(whole))[i] = whole[Len(whole) - n + i]
OBVIOUS

\* Three texts in a row.
LEMMA Three ==
    ASSUME NEW S, NEW a \in Seq(S), NEW b \in Seq(S), NEW c \in Seq(S)
    PROVE  /\ a \o b \o c \in Seq(S)
           /\ Len(a \o b \o c) = Len(a) + Len(b) + Len(c)
           /\ \A i \in 1 .. Len(a) : (a \o b \o c)[i] = a[i]
           /\ \A i \in 1 .. Len(b) : (a \o b \o c)[Len(a) + i] = b[i]
           /\ \A i \in 1 .. Len(c) : (a \o b \o c)[Len(a) + Len(b) + i] = c[i]
           /\ Tokens(a \o b \o c) = Tokens(a) \cup Tokens(b) \cup Tokens(c)
<1>1. a \o b \in Seq(S)
  BY ConcatProperties
<1>2. Tokens(a \o b \o c) = Tokens(a) \cup Tokens(b) \cup Tokens(c)
  <2>1. Tokens(a \o b) = Tokens(a) \cup Tokens(b)
    BY TokensOfBoth
  <2> DEFINE ab == a \o b
  <2>2. ab \in Seq(S)
    BY <1>1
  <2> HIDE DEF ab
  <2>3. Tokens(ab \o c) = Tokens(ab) \cup Tokens(c)
    BY <2>2, TokensOfBoth
  <2> QED  BY <2>1, <2>3 DEF ab
<1>3. /\ a \o b \o c \in Seq(S)
      /\ Len(a \o b \o c) = Len(a) + Len(b) + Len(c)
  BY <1>1, ConcatProperties
<1>4. \A i \in 1 .. Len(a) : (a \o b \o c)[i] = a[i]
  OBVIOUS
<1>5. \A i \in 1 .. Len(b) : (a \o b \o c)[Len(a) + i] = b[i]
  OBVIOUS
<1>6. \A i \in 1 .. Len(c) : (a \o b \o c)[Len(a) + Len(b) + i] = c[i]
  OBVIOUS
<1> QED  BY <1>2, <1>3, <1>4, <1>5, <1>6

\* What a cut makes of a text: a text within the bound, with no tokens but its own and
\* the marker's, and the text itself if it fits.
IsCut(r, whole, max, S) ==
    /\ r \in Seq(S)
    /\ max <= 0 => Len(r) = 0
    /\ max > 0 => Len(r) <= max
    /\ Len(r) <= Len(whole)
    /\ max > 0 /\ Len(whole) <= max => r = whole
    /\ Tokens(r) \subseteq Tokens(whole) \cup Tokens(Marker)

LEMMA CutStart ==
    ASSUME NEW S, NEW whole \in Seq(S), NEW max \in Int, max > 0, ~(Len(whole) <= max)
    PROVE  IsCut(SubSeq(whole, 1, max), whole, max, S)
<1> DEFINE r == SubSeq(whole, 1, max)
<1>1. max \in Nat /\ Len(whole) \in Nat /\ max <= Len(whole)
  OBVIOUS
<1>2. r \in Seq(S) /\ Len(r) = max /\ \A i \in 1 .. max : r[i] = whole[i]
  BY <1>1, Pieces
<1> HIDE DEF r
<1>3. Tokens(r) \subseteq Tokens(whole)
  <2>1. \A i \in 1 .. max : i \in 1 .. Len(whole)
    BY <1>1
  <2> QED  BY <1>2, <2>1 DEF Tokens
<1>4. IsCut(r, whole, max, S)
  BY <1>1, <1>2, <1>3 DEF IsCut
<1> QED  BY <1>4 DEF r

KeepsEdges(r, whole, max, h, l) ==
    /\ Len(r) = max
    /\ \A i \in 1 .. h : r[i] = whole[i]
    /\ \A i \in 1 .. l : r[max - l + i] = whole[Len(whole) - l + i]

LEMMA CutBoth ==
    ASSUME NEW S, NEW whole \in Seq(S), Marker \in Seq(S), NEW max \in Int,
           max > 0, ~(Len(whole) <= max), NEW h \in Nat, NEW l \in Nat,
           h + l = max - Len(Marker), NEW r, r = Edges(whole, h, l)
    PROVE  IsCut(r, whole, max, S) /\ KeepsEdges(r, whole, max, h, l)
<1> DEFINE a == SubSeq(whole, 1, h)
           c == SubSeq(whole, Len(whole) - l + 1, Len(whole))
<1>1. Len(whole) \in Nat /\ Len(Marker) \in Nat /\ h <= Len(whole) /\ l <= Len(whole)
  OBVIOUS
<1>2. a \in Seq(S) /\ Len(a) = h /\ \A i \in 1 .. h : a[i] = whole[i]
  BY <1>1, Pieces
<1>3. c \in Seq(S) /\ Len(c) = l /\ \A i \in 1 .. l : c[i] = whole[Len(whole) - l + i]
  BY <1>1, Pieces
<1>4. r = a \o Marker \o c
  BY DEF Edges
<1> HIDE DEF a, c
<1>5. Tokens(a) \subseteq Tokens(whole)
  <2>1. \A i \in 1 .. h : i \in 1 .. Len(whole)
    BY <1>1
  <2> QED  BY <1>2, <2>1 DEF Tokens
<1>6. Tokens(c) \subseteq Tokens(whole)
  <2>1. ASSUME NEW i \in 1 .. Len(c) PROVE c[i] \in Tokens(whole)
    <3>1. Len(whole) - l + i \in 1 .. Len(whole)
      BY <1>1, <1>3
    <3> QED  BY <1>3, <3>1 DEF Tokens
  <2> QED  BY <2>1 DEF Tokens
<1>7. /\ r \in Seq(S) /\ Len(r) = Len(a) + Len(Marker) + Len(c)
      /\ \A i \in 1 .. Len(a) : r[i] = a[i]
      /\ \A i \in 1 .. Len(c) : r[Len(a) + Len(Marker) + i] = c[i]
      /\ Tokens(r) = Tokens(a) \cup Tokens(Marker) \cup Tokens(c)
  <2> HIDE <1>4
  <2>1. /\ a \o Marker \o c \in Seq(S)
        /\ Len(a \o Marker \o c) = Len(a) + Len(Marker) + Len(c)
        /\ \A i \in 1 .. Len(a) : (a \o Marker \o c)[i] = a[i]
        /\ \A i \in 1 .. Len(c) : (a \o Marker \o c)[Len(a) + Len(Marker) + i] = c[i]
        /\ Tokens(a \o Marker \o c) = Tokens(a) \cup Tokens(Marker) \cup Tokens(c)
    BY <1>2, <1>3, Three
  <2> QED  BY <1>4, <2>1, Zenon
<1>8. Len(r) = max /\ Len(a) + Len(Marker) = max - l
  BY <1>1, <1>2, <1>3, <1>7
<1>9. IsCut(r, whole, max, S)
  BY <1>1, <1>5, <1>6, <1>7, <1>8 DEF IsCut
<1>10. \A i \in 1 .. h : r[i] = whole[i]
  BY <1>2, <1>7
<1>11. \A i \in 1 .. l : r[max - l + i] = whole[Len(whole) - l + i]
  BY <1>3, <1>7, <1>8
<1> QED  BY <1>8, <1>9, <1>10, <1>11 DEF KeepsEdges

LEMMA TrimBounds ==
    ASSUME NEW S, NEW whole \in Seq(S), Marker \in Seq(S), NEW max \in Int
    PROVE  IsCut(trim_preserve_edges(whole, max), whole, max, S)
<1> DEFINE r == trim_preserve_edges(whole, max)
<1>1. Len(whole) \in Nat
  OBVIOUS
<1>2. ASSUME max <= 0, r = <<>> PROVE IsCut(r, whole, max, S)
  <2>1. <<>> \in Seq(S) /\ Len(<<>>) = 0 /\ Tokens(<<>>) = {}
    BY DEF Tokens
  <2> HIDE DEF r
  <2> QED  BY <1>1, <1>2, <2>1 DEF IsCut
<1>3. ASSUME max > 0, Len(whole) <= max, r = whole PROVE IsCut(r, whole, max, S)
  <2> HIDE DEF r
  <2> QED  BY <1>1, <1>3 DEF IsCut
<1>4. ASSUME max > 0, ~(Len(whole) <= max), r = SubSeq(whole, 1, max)
      PROVE  IsCut(r, whole, max, S)
  <2> HIDE DEF r
  <2> QED  BY <1>4, CutStart
<1>5. ASSUME max > 0, ~(Len(whole) <= max), NEW h \in Nat, NEW l \in Nat,
             h + l = max - Len(Marker),
             r = Edges(whole, h, l)
      PROVE  IsCut(r, whole, max, S)
  <2> HIDE DEF r
  <2> QED  BY <1>5, CutBoth
<1> HIDE DEF r
<1>6. IsTrimmed(r, whole, max)
  BY TrimCases DEF r
<1>7. IsCut(r, whole, max, S)
  BY <1>2, <1>3, <1>4, <1>5, <1>6, Zenon DEF IsTrimmed
<1> QED  BY <1>7 DEF r

\* A cut keeps the first token.
LEMMA TrimKeepsStart ==
    ASSUME NEW S, NEW whole \in Seq(S), Marker \in Seq(S), NEW max \in Int,
           max > 0, Len(whole) > 0
    PROVE  LET r == trim_preserve_edges(whole, max)
           IN  Len(r) > 0 /\ r[1] = whole[1]
<1> DEFINE r == trim_preserve_edges(whole, max)
<1> SUFFICES Len(r) > 0 /\ r[1] = whole[1]
  OBVIOUS
<1>1. IsTrimmed(r, whole, max)
  BY TrimCases
<1> HIDE DEF r
<1>2. Len(whole) \in Nat /\ Len(Marker) \in Nat
  OBVIOUS
<1>3. CASE Len(whole) <= max /\ r = whole
  BY <1>2, <1>3
<1>4. CASE ~(Len(whole) <= max) /\ r = SubSeq(whole, 1, max)
  <2>1. max \in Nat /\ max <= Len(whole)
    BY <1>2, <1>4
  <2>2. Len(r) = max /\ \A i \in 1 .. max : r[i] = whole[i]
    BY <1>4, <2>1, Pieces
  <2>3. 1 \in 1 .. max
    BY <1>4
  <2> QED  BY <2>1, <2>2, <2>3
<1>5. ASSUME ~(Len(whole) <= max), max - Len(Marker) >= Unit, NEW h \in Nat, NEW l \in Nat,
             h + l = max - Len(Marker), h <= l, l <= h + 1, r = Edges(whole, h, l)
      PROVE  Len(r) > 0 /\ r[1] = whole[1]
  <2>1. h >= 1
    BY <1>2, <1>5, UnitAssumption
  <2>2. Len(r) = max /\ \A i \in 1 .. h : r[i] = whole[i]
    <3>1. IsCut(r, whole, max, S) /\ KeepsEdges(r, whole, max, h, l)
      BY <1>5, CutBoth
    <3> QED  BY <3>1 DEF KeepsEdges
  <2>3. 1 \in 1 .. h
    BY <2>1
  <2> QED  BY <2>2, <2>3
<1> QED  BY <1>1, <1>3, <1>4, <1>5 DEF IsTrimmed, r

\* A cut keeps the end of a text, if it is no longer than half of what is left beside
\* the marker.
LEMMA TrimKeepsEnd ==
    ASSUME NEW S, NEW whole \in Seq(S), Marker \in Seq(S), NEW max \in Int, NEW q \in Seq(S),
           EndsWith(whole, q),
           max - Len(Marker) >= Unit, 2 * Len(q) <= max - Len(Marker)
    PROVE  EndsWith(trim_preserve_edges(whole, max), q)
<1> DEFINE r == trim_preserve_edges(whole, max)
<1>1. IsTrimmed(r, whole, max)
  BY TrimCases
<1> HIDE DEF r
<1>2. Len(whole) \in Nat /\ Len(Marker) \in Nat /\ Len(q) \in Nat /\ Unit \in Nat /\ Unit >= 2
  BY UnitAssumption
<1>3. max > 0
  BY <1>2
<1>4. CASE r = whole
  BY <1>4 DEF r
<1>5. ASSUME ~(Len(whole) <= max), NEW h \in Nat, NEW l \in Nat,
             h + l = max - Len(Marker), h <= l, l <= h + 1, r = Edges(whole, h, l)
      PROVE  EndsWith(r, q)
  <2>1. Len(q) <= l /\ l <= max
    BY <1>2, <1>5
  <2>2. Len(r) = max /\ \A i \in 1 .. l : r[max - l + i] = whole[Len(whole) - l + i]
    <3>1. IsCut(r, whole, max, S) /\ KeepsEdges(r, whole, max, h, l)
      BY <1>3, <1>5, CutBoth
    <3> QED  BY <3>1 DEF KeepsEdges
  <2>3. \A j \in 1 .. Len(q) : whole[Len(whole) - Len(q) + j] = q[j]
    BY DEF EndsWith
  <2>4. ASSUME NEW j \in 1 .. Len(q) PROVE r[Len(r) - Len(q) + j] = q[j]
    <3> DEFINE i == l - Len(q) + j
    <3>1. i \in 1 .. l
      BY <1>2, <2>1
    <3>2. /\ max - l + i = Len(r) - Len(q) + j
          /\ Len(whole) - l + i = Len(whole) - Len(q) + j
      BY <1>2, <2>2
    <3>3. r[max - l + i] = whole[Len(whole) - l + i]
      BY <2>2, <3>1
    <3> HIDE DEF i
    <3>4. r[Len(r) - Len(q) + j] = whole[Len(whole) - Len(q) + j]
      BY <3>2, <3>3
    <3> QED  BY <2>3, <3>4
  <2>5. Len(q) <= Len(r)
    BY <1>2, <2>1, <2>2
  <2> QED  BY <2>4, <2>5 DEF EndsWith
<1>6. \/ r = whole
      \/ /\ ~(Len(whole) <= max)
         /\ \E h \in Nat, l \in Nat :
               /\ h + l = max - Len(Marker) /\ h <= l /\ l <= h + 1
               /\ r = Edges(whole, h, l)
  BY <1>1, <1>2, <1>3 DEF IsTrimmed
<1>7. EndsWith(r, q)
  BY <1>4, <1>5, <1>6, Zenon
<1> QED  BY <1>7 DEF r

-----------------------------------------------------------------------------
(* build_context_text *)

Kinds == {"query", "source", "tool", "chunk", "message", "snapshot", "feedback", "draft",
          "marker"}
Token == Kinds \X Nat \X Nat

LEMMA WordsAreText ==
    ASSUME NEW kind \in Kinds, NEW n \in Nat, NEW size \in Nat
    PROVE  /\ Words(kind, n, size) \in Seq(Token)
           /\ Len(Words(kind, n, size)) = size
           /\ \A k \in 1 .. size : Words(kind, n, size)[k] = <<kind, n, k>>
           /\ Tokens(Words(kind, n, size)) = {<<kind, n, k>> : k \in 1 .. size}
<1> DEFINE w == Words(kind, n, size)
<1>1. w = [i \in 1 .. size |-> <<kind, n, i>>]
  BY DEF Words
<1>2. \A i \in 1 .. size : <<kind, n, i>> \in Token
  BY DEF Token
<1> HIDE DEF w
<1>3. w \in Seq(Token) /\ Len(w) = size /\ \A k \in 1 .. size : w[k] = <<kind, n, k>>
  BY <1>1, <1>2
<1>4. Tokens(w) = {<<kind, n, k>> : k \in 1 .. size}
  BY <1>3 DEF Tokens
<1> QED  BY <1>3, <1>4 DEF w

LEMMA MarkerIsText ==
    /\ Marker \in Seq(Token) /\ Len(Marker) = MarkerSize
    /\ Tokens(Marker) = {<<"marker", 1, k>> : k \in 1 .. MarkerSize}
<1>1. "marker" \in Kinds /\ 1 \in Nat /\ MarkerSize \in Nat
  BY MarkerAssumption, UnitAssumption DEF Kinds
<1> QED  BY <1>1, WordsAreText DEF Marker

Segment == [weight : Nat, label : Seq(Token), body : Seq(Token)]

\* One segment with its body cut.
Entry(s, allocation) == s.label \o trim_preserve_edges(s.body, allocation)

LEMMA EntryIsText ==
    ASSUME NEW s \in Segment, NEW m \in Nat
    PROVE  /\ Entry(s, m) \in Seq(Token)
           /\ Len(Entry(s, m)) <= Len(s.label) + m
           /\ Len(s.label) \in Nat
<1>1. s.label \in Seq(Token) /\ s.body \in Seq(Token)
  BY DEF Segment
<1> DEFINE t == trim_preserve_edges(s.body, m)
<1>2. IsCut(t, s.body, m, Token)
  BY <1>1, TrimBounds, MarkerIsText
<1> HIDE DEF t
<1>3. t \in Seq(Token) /\ Len(t) <= m
  BY <1>2 DEF IsCut
<1>4. Entry(s, m) = s.label \o t
  BY DEF Entry, t
<1> QED  BY <1>1, <1>3, <1>4

IsAllocation(a, segments) ==
    /\ a \in [DOMAIN segments -> Nat]
    /\ \A i \in DOMAIN segments : a[i] >= 3 * Unit

LEMMA RenderedFacts ==
    ASSUME NEW segments \in Seq(Segment), NEW a \in [DOMAIN segments -> Nat]
    PROVE  /\ Rendered(segments, a) \in Seq(Token)
           /\ \A i \in DOMAIN segments : Inside(Entry(segments[i], a[i]), Rendered(segments, a))
           /\ (\A i \in DOMAIN segments : a[i] <= 3 * Unit) =>
                 Len(Rendered(segments, a)) <=
                    Total([n \in DOMAIN segments |-> Len(segments[n].label) + 3 * Unit])
<1> DEFINE parts == [i \in DOMAIN segments |-> Entry(segments[i], a[i])]
           sizes == [n \in DOMAIN segments |-> Len(segments[n].label) + 3 * Unit]
<1>1. Len(segments) \in Nat /\ DOMAIN segments = 1 .. Len(segments)
  OBVIOUS
<1>2. \A i \in DOMAIN segments : segments[i] \in Segment /\ a[i] \in Nat
  OBVIOUS
<1>3. \A i \in DOMAIN segments :
         /\ Entry(segments[i], a[i]) \in Seq(Token)
         /\ Len(Entry(segments[i], a[i])) <= Len(segments[i].label) + a[i]
         /\ Len(segments[i].label) \in Nat
  BY <1>2, EntryIsText
<1>4. parts \in Seq(Seq(Token)) /\ Len(parts) = Len(segments)
  BY <1>1, <1>3
<1>5. Rendered(segments, a) = FlattenSeq(parts)
  BY DEF Rendered, Entry
<1>6. 3 * Unit \in Nat
  BY UnitAssumption
<1>7. sizes \in Seq(Nat) /\ Len(sizes) = Len(segments)
  BY <1>1, <1>3, <1>6
<1>8. \A i \in DOMAIN segments : parts[i] = Entry(segments[i], a[i])
  OBVIOUS
<1>9. \A i \in DOMAIN segments : sizes[i] = Len(segments[i].label) + 3 * Unit
  OBVIOUS
<1>10. FlattenSeq(parts) \in Seq(Token)
  <2> HIDE DEF parts
  <2> QED  BY <1>4, JoinedIsText
<1>11. ASSUME NEW i \in DOMAIN segments
       PROVE  Inside(Entry(segments[i], a[i]), FlattenSeq(parts))
  <2> HIDE DEF parts
  <2>1. i \in 1 .. Len(parts)
    BY <1>1, <1>4
  <2>2. Inside(parts[i], FlattenSeq(parts))
    BY <1>4, <2>1, JoinedHolds
  <2> QED  BY <1>8, <2>2
<1>12. ASSUME \A i \in DOMAIN segments : a[i] <= 3 * Unit
       PROVE  Len(FlattenSeq(parts)) <= Total(sizes)
  <2> HIDE DEF parts, sizes
  <2>1. ASSUME NEW i \in 1 .. Len(parts) PROVE Len(parts[i]) <= sizes[i]
    <3>1. i \in DOMAIN segments
      BY <1>1, <1>4
    <3>2. /\ Len(parts[i]) <= Len(segments[i].label) + a[i] /\ Len(parts[i]) \in Nat
          /\ sizes[i] = Len(segments[i].label) + 3 * Unit
          /\ a[i] \in Nat /\ a[i] <= 3 * Unit /\ Len(segments[i].label) \in Nat
      BY <1>2, <1>3, <1>8, <1>9, <1>12, <3>1
    <3> QED  BY <1>6, <3>2
  <2> QED  BY <1>4, <1>7, <2>1, JoinedLength
<1> HIDE DEF parts
<1> QED  BY <1>5, <1>10, <1>11, <1>12


LEMMA AtLeastFacts ==
    ASSUME NEW a \in Int, NEW b \in Int
    PROVE  AtLeast(a, b) \in Int /\ AtLeast(a, b) >= a /\ AtLeast(a, b) >= b
           /\ (AtLeast(a, b) = a \/ AtLeast(a, b) = b)
BY DEF AtLeast

\* A share of a budget is no more than the budget.
LEMMA Share ==
    ASSUME NEW budget \in Nat, NEW w \in Nat, NEW sum \in Nat, sum > 0, w <= sum
    PROVE  (budget * w) \div sum \in Nat /\ (budget * w) \div sum <= budget
<1> DEFINE p == budget * w
<1>1. p \in Nat /\ p <= budget * sum
  OBVIOUS
<1> DEFINE q == p \div sum
<1>2. q \in Int /\ sum * q <= p /\ p < sum * q + sum
  <2> HIDE DEF p
  <2> QED  BY <1>1
<1> HIDE DEF p, q
<1>3. q >= 0
  BY <1>1, <1>2
<1>4. sum * q <= sum * budget
  BY <1>1, <1>2
<1>5. q <= budget
  BY <1>2, <1>4
<1> QED  BY <1>2, <1>3, <1>5 DEF p, q

\* One round takes something from everybody who has more than the least.
LEMMA OneRound ==
    ASSUME NEW a \in Nat
    PROVE  /\ AtLeast(3 * Unit, (85 * a) \div 100) \in Nat
           /\ AtLeast(3 * Unit, (85 * a) \div 100) >= 3 * Unit
           /\ \A b \in Int : a <= AtLeast(3 * Unit, b) =>
                 AtLeast(3 * Unit, (85 * a) \div 100) <= AtLeast(3 * Unit, b - 1)
<1>1. Unit \in Nat /\ 3 * Unit \in Nat /\ 3 * Unit > 0
  BY UnitAssumption
<1> DEFINE q == (85 * a) \div 100
<1>2. q \in Nat /\ (a > 0 => q <= a - 1) /\ (a = 0 => q = 0)
  OBVIOUS
<1> HIDE DEF q
<1> QED  BY <1>1, <1>2 DEF AtLeast, q

LEMMA FirstFacts ==
    ASSUME NEW segments \in Seq(Segment), NEW max \in Nat,
           \E i \in DOMAIN segments : segments[i].weight > 0
    PROVE  /\ IsAllocation(FirstAllocations(segments, max), segments)
           /\ \A i \in DOMAIN segments :
                 FirstAllocations(segments, max)[i] <= AtLeast(3 * Unit, max + 6 * Unit)
<1> DEFINE lengths == [i \in DOMAIN segments |-> Len(segments[i].label)]
           weights == [i \in DOMAIN segments |-> segments[i].weight]
           labels == Total(lengths)
           budget == AtLeast(max - labels, max \div 2)
           sum == Total(weights)
           first == FirstAllocations(segments, max)
<1>1. Len(segments) \in Nat /\ DOMAIN segments = 1 .. Len(segments)
  OBVIOUS
<1>2. ASSUME NEW i \in DOMAIN segments
      PROVE  Len(segments[i].label) \in Nat /\ segments[i].weight \in Nat
  <2>1. segments[i] \in Segment
    OBVIOUS
  <2> QED  BY <2>1 DEF Segment
<1>3. lengths \in Seq(Nat) /\ weights \in Seq(Nat) /\ Len(weights) = Len(segments)
  BY <1>1, <1>2
<1>4. labels \in Nat /\ sum \in Nat
  <2> HIDE DEF lengths, weights
  <2> QED  BY <1>3, TotalIsNat
<1>5. \A i \in DOMAIN segments : segments[i].weight <= sum
  <2> SUFFICES ASSUME NEW i \in DOMAIN segments PROVE weights[i] <= sum
    OBVIOUS
  <2> HIDE DEF weights
  <2>1. i \in 1 .. Len(weights)
    BY <1>1, <1>3
  <2> QED  BY <1>3, <2>1, TotalMember
<1>6. sum > 0
  <2> HIDE DEF sum
  <2> QED  BY <1>2, <1>4, <1>5
<1>7. budget \in Nat /\ budget <= max
  <2>1. max \div 2 \in Nat /\ max \div 2 <= max
    OBVIOUS
  <2> HIDE DEF labels
  <2> QED  BY <1>4, <2>1 DEF AtLeast
<1>8. first = [i \in DOMAIN segments |->
                 AtLeast(6 * Unit, (budget * segments[i].weight) \div sum)]
  BY DEF FirstAllocations
<1> HIDE DEF budget, sum, first
<1>9. Unit \in Nat /\ 3 * Unit \in Nat /\ 6 * Unit \in Nat /\ 3 * Unit <= 6 * Unit
  BY UnitAssumption
<1>10. ASSUME NEW i \in DOMAIN segments
       PROVE  first[i] \in Nat /\ first[i] >= 3 * Unit /\ first[i] <= AtLeast(3 * Unit, max + 6 * Unit)
  <2> DEFINE share == (budget * segments[i].weight) \div sum
  <2>1. share \in Nat /\ share <= budget
    BY <1>2, <1>4, <1>5, <1>6, <1>7, Share
  <2>2. first[i] = AtLeast(6 * Unit, share)
    BY <1>8
  <2> HIDE DEF share
  <2> QED  BY <1>7, <1>9, <2>1, <2>2 DEF AtLeast
<1>11. first = [i \in DOMAIN segments |-> first[i]]
  BY <1>8
<1>12. first \in [DOMAIN segments -> Nat]
  BY <1>10, <1>11
<1> QED  BY <1>10, <1>12 DEF IsAllocation, first

\* The rounds of the loop as a sequence without end.
Rounds(segments, max) ==
    CHOOSE R : R = [k \in Nat |-> IF k = 0 THEN FirstAllocations(segments, max)
                                  ELSE Reduced(R[k - 1])]

LEMMA ReducedFacts ==
    ASSUME NEW segments \in Seq(Segment), NEW a \in [DOMAIN segments -> Nat]
    PROVE  /\ Reduced(a) \in [DOMAIN segments -> Nat]
           /\ IsAllocation(Reduced(a), segments)
           /\ \A b \in Int, i \in DOMAIN segments :
                 a[i] <= AtLeast(3 * Unit, b) => Reduced(a)[i] <= AtLeast(3 * Unit, b - 1)
<1>1. Reduced(a) = [i \in DOMAIN segments |-> AtLeast(3 * Unit, (85 * a[i]) \div 100)]
  BY DEF Reduced
<1>2. \A i \in DOMAIN segments :
         /\ AtLeast(3 * Unit, (85 * a[i]) \div 100) \in Nat
         /\ AtLeast(3 * Unit, (85 * a[i]) \div 100) >= 3 * Unit
         /\ \A b \in Int : a[i] <= AtLeast(3 * Unit, b) =>
               AtLeast(3 * Unit, (85 * a[i]) \div 100) <= AtLeast(3 * Unit, b - 1)
  BY OneRound
<1>3. Reduced(a) \in [DOMAIN segments -> Nat]
  BY <1>1, <1>2
<1>4. \A i \in DOMAIN segments : Reduced(a)[i] = AtLeast(3 * Unit, (85 * a[i]) \div 100)
  BY <1>1
<1>5. IsAllocation(Reduced(a), segments)
  BY <1>2, <1>3, <1>4 DEF IsAllocation
<1>6. \A b \in Int, i \in DOMAIN segments :
         a[i] <= AtLeast(3 * Unit, b) => Reduced(a)[i] <= AtLeast(3 * Unit, b - 1)
  BY <1>2, <1>4
<1> QED  BY <1>3, <1>5, <1>6

LEMMA RoundsGoOn ==
    ASSUME NEW segments \in Seq(Segment), NEW max \in Nat,
           \E i \in DOMAIN segments : segments[i].weight > 0
    PROVE  /\ Rounds(segments, max)[0] = FirstAllocations(segments, max)
           /\ \A k \in Nat : Rounds(segments, max)[k + 1] = Reduced(Rounds(segments, max)[k])
<1> DEFINE A == [DOMAIN segments -> Nat]
           first == FirstAllocations(segments, max)
           step == [k \in Nat |-> [x \in A |-> Reduced(x)]]
           R == Rounds(segments, max)
<1>1. first \in A
  BY FirstFacts DEF IsAllocation
<1>2. \A x \in A : Reduced(x) \in A
  BY ReducedFacts
<1>3. IsStep(step, A)
  <2> HIDE DEF A
  <2> QED  BY <1>2 DEF IsStep
<1>4. PICK f : IsRecursion(f, A, first, step)
  <2> HIDE DEF A, step, first
  <2> QED  BY <1>1, <1>3, PrimitiveRecursion
<1>5. \A k \in Nat : f[k] \in A /\ f[k + 1] = Reduced(f[k])
  <2> HIDE DEF A
  <2>1. f \in [Nat -> A] /\ \A k \in Nat : f[k + 1] = step[k][f[k]]
    BY <1>4 DEF IsRecursion
  <2>2. \A k \in Nat, x \in A : step[k][x] = Reduced(x)
    OBVIOUS
  <2> HIDE DEF step
  <2> QED  BY <2>1, <2>2
<1>6. f = [k \in Nat |-> IF k = 0 THEN first ELSE Reduced(f[k - 1])]
  <2>1. f = [k \in Nat |-> f[k]] /\ f[0] = first
    BY <1>4 DEF IsRecursion
  <2>2. ASSUME NEW k \in Nat, k # 0 PROVE f[k] = Reduced(f[k - 1])
    <3>1. PICK m \in Nat : k = m + 1 /\ k - 1 = m
      BY <2>2, k - 1 \in Nat
    <3> QED  BY <1>5, <3>1
  <2> HIDE DEF A, first
  <2> QED  BY <2>1, <2>2
<1>7. R = [k \in Nat |-> IF k = 0 THEN first ELSE Reduced(R[k - 1])]
  BY <1>6 DEF Rounds
<1> HIDE DEF R, first
<1>8. R[0] = first
  BY <1>7
<1>9. ASSUME NEW k \in Nat PROVE R[k + 1] = Reduced(R[k])
  <2>1. k + 1 \in Nat /\ k + 1 # 0 /\ (k + 1) - 1 = k
    OBVIOUS
  <2> QED  BY <1>7, <2>1
<1> QED  BY <1>8, <1>9 DEF R, first

\* After as many rounds as the budget has tokens, everybody is down to the least.
LEMMA RoundsEnd ==
    ASSUME NEW segments \in Seq(Segment), NEW max \in Nat,
           \E i \in DOMAIN segments : segments[i].weight > 0,
           NEW k \in Nat
    PROVE  /\ IsAllocation(Rounds(segments, max)[k], segments)
           /\ \A i \in DOMAIN segments :
                 Rounds(segments, max)[k][i] <= AtLeast(3 * Unit, max + 6 * Unit - k)
<1> DEFINE R == Rounds(segments, max)
           top == max + 6 * Unit
           Down(n) == /\ IsAllocation(R[n], segments)
                      /\ \A i \in DOMAIN segments :
                            R[n][i] <= AtLeast(3 * Unit, top - n)
           T == {n \in Nat : Down(n)}
<1>1. R[0] = FirstAllocations(segments, max) /\ \A n \in Nat : R[n + 1] = Reduced(R[n])
  BY RoundsGoOn
<1> HIDE DEF R
<1>2. top \in Nat
  BY UnitAssumption
<1>a. \A i \in DOMAIN segments : FirstAllocations(segments, max)[i] <= AtLeast(3 * Unit, top)
  BY FirstFacts
<1> HIDE DEF top
<1>3. Down(0)
  <2>1. top - 0 = top
    BY <1>2
  <2> QED  BY <1>1, <1>a, <2>1, FirstFacts
<1>4. ASSUME NEW n \in Nat, Down(n) PROVE Down(n + 1)
  <2>1. R[n] \in [DOMAIN segments -> Nat]
    BY <1>4 DEF IsAllocation
  <2>2. top - n \in Int /\ top - (n + 1) = (top - n) - 1
    BY <1>2
  <2>3. IsAllocation(Reduced(R[n]), segments)
    BY <2>1, ReducedFacts
  <2>4. \A i \in DOMAIN segments :
           Reduced(R[n])[i] <= AtLeast(3 * Unit, (top - n) - 1)
    BY <1>4, <2>1, <2>2, ReducedFacts
  <2> QED  BY <1>1, <2>2, <2>3, <2>4
<1> HIDE DEF Down
<1>5. \A n \in Nat : n \in T
  <2>1. T \in SUBSET Nat /\ 0 \in T /\ \A n \in T : n + 1 \in T
    BY <1>3, <1>4
  <2> HIDE DEF T
  <2> QED  BY <2>1, SetInduction
<1>6. Down(k)
  BY <1>5
<1>7. /\ IsAllocation(R[k], segments)
      /\ \A i \in DOMAIN segments : R[k][i] <= AtLeast(3 * Unit, top - k)
  BY <1>6 DEF Down
<1>8. top - k = max + 6 * Unit - k
  BY UnitAssumption DEF top
<1> QED  BY <1>7, <1>8, Zenon DEF R

\* The loop ends, and it ends with a text within the budget or with everybody at the
\* least.
LEMMA ContextIsRendered ==
    ASSUME NEW segments \in Seq(Segment), segments # <<>>, NEW max \in Nat, max > 0,
           \E i \in DOMAIN segments : segments[i].weight > 0
    PROVE  \E a : /\ IsAllocation(a, segments)
                  /\ build_context_text(segments, max) = Rendered(segments, a)
                  /\ \/ Len(Rendered(segments, a)) <= max
                     \/ \A i \in DOMAIN segments : a[i] <= 3 * Unit
<1> DEFINE R == Rounds(segments, max)
           Enough(k) == \/ Len(Rendered(segments, R[k])) <= max
                        \/ \A i \in DOMAIN segments : R[k][i] <= 3 * Unit
           top == max + 6 * Unit
           last == CHOOSE k \in 0 .. top : Enough(k) /\ \A j \in 0 .. k - 1 : ~Enough(j)
<1>1. build_context_text(segments, max) = Rendered(segments, R[last])
  BY DEF build_context_text, Rounds
<1>2. top \in Nat
  BY UnitAssumption
<1>3. Enough(top)
  <2>1. \A i \in DOMAIN segments : R[top][i] <= AtLeast(3 * Unit, max + 6 * Unit - top)
    BY <1>2, RoundsEnd
  <2>2. AtLeast(3 * Unit, max + 6 * Unit - top) = 3 * Unit
    BY <1>2, UnitAssumption DEF AtLeast
  <2> QED  BY <2>1, <2>2
<1> HIDE DEF Enough, top
<1>4. \E k \in 0 .. top : Enough(k) /\ \A j \in 0 .. k - 1 : ~Enough(j)
  <2> DEFINE T == {k \in Nat : Enough(k)}
  <2>1. T \in SUBSET Nat /\ top \in T
    BY <1>2, <1>3
  <2>2. \A k \in Nat : k \in T <=> Enough(k)
    OBVIOUS
  <2> HIDE DEF T
  <2>3. PICK k \in T : \A m \in T : k <= m
    BY <2>1, LeastNumber
  <2>4. k \in 0 .. top /\ Enough(k)
    BY <1>2, <2>1, <2>2, <2>3
  <2>5. ASSUME NEW j \in 0 .. k - 1 PROVE ~Enough(j)
    <3>1. j \in Nat /\ ~(k <= j)
      BY <2>4
    <3> QED  BY <2>2, <2>3, <3>1
  <2> QED  BY <2>4, <2>5
<1>5. last \in 0 .. top /\ Enough(last)
  BY <1>4
<1> HIDE DEF last
<1>6. IsAllocation(R[last], segments)
  BY <1>2, <1>5, RoundsEnd
<1>7. \/ Len(Rendered(segments, R[last])) <= max
      \/ \A i \in DOMAIN segments : R[last][i] <= 3 * Unit
  BY <1>5 DEF Enough
<1> HIDE DEF R
<1> QED  BY <1>1, <1>6, <1>7

-----------------------------------------------------------------------------
(* fit_messages_for_prompt *)

\* The sizes of the messages from the k-th on.
SizesFrom(messages, k) ==
    [j \in 1 .. Len(messages) - k + 1 |-> Len(messages[k + j - 1])]

\* The text is the messages from the first one on, after a cut of the one before.
IsFitted(whole, messages, max, first, cut) ==
    /\ first \in 1 .. Len(messages) + 1
    /\ whole = cut \o FlattenSeq(SubSeq(messages, first, Len(messages)))
    /\ cut \in Seq(Token)
    /\ cut # <<>> => first > 1 /\ Tokens(cut) \subseteq Tokens(messages[first - 1]) \cup Tokens(Marker)
    /\ Len(cut) + Len(FlattenSeq(SubSeq(messages, first, Len(messages)))) <= max
    /\ first = Len(messages) + 1 /\ first > 1 /\ max >= 2 * Unit =>
          cut = trim_preserve_edges(messages[first - 1], max)

LEMMA LaterMessages ==
    ASSUME NEW messages \in Seq(Seq(Token)), NEW k \in 1 .. Len(messages) + 1
    PROVE  /\ SizesFrom(messages, k) \in Seq(Nat)
           /\ Len(SizesFrom(messages, k)) = Len(messages) - k + 1
           /\ SubSeq(messages, k, Len(messages)) \in Seq(Seq(Token))
           /\ Len(SubSeq(messages, k, Len(messages))) = Len(messages) - k + 1
           /\ \A j \in 1 .. Len(messages) - k + 1 :
                 SubSeq(messages, k, Len(messages))[j] = messages[k + j - 1]
           /\ FlattenSeq(SubSeq(messages, k, Len(messages))) \in Seq(Token)
           /\ Len(FlattenSeq(SubSeq(messages, k, Len(messages)))) <= Total(SizesFrom(messages, k))
<1> DEFINE n == Len(messages)
           later == SubSeq(messages, k, n)
           sizes == SizesFrom(messages, k)
<1>1. n \in Nat /\ k \in Nat /\ k >= 1 /\ k <= n + 1 /\ n - k + 1 \in Nat
  OBVIOUS
<1>2. later \in Seq(Seq(Token)) /\ Len(later) = n - k + 1
      /\ \A j \in 1 .. n - k + 1 : later[j] = messages[k + j - 1]
  BY <1>1
<1>3. sizes = [j \in 1 .. n - k + 1 |-> Len(messages[k + j - 1])]
  BY DEF SizesFrom
<1>4. ASSUME NEW j \in 1 .. n - k + 1 PROVE Len(messages[k + j - 1]) \in Nat
  <2>1. k + j - 1 \in 1 .. n
    BY <1>1
  <2> QED  BY <2>1, PartIsText
<1> HIDE DEF sizes
<1>5. sizes \in Seq(Nat) /\ Len(sizes) = n - k + 1
      /\ \A j \in 1 .. n - k + 1 : sizes[j] = Len(messages[k + j - 1])
  BY <1>1, <1>3, <1>4
<1> HIDE DEF later
<1>6. FlattenSeq(later) \in Seq(Token)
  BY <1>2, JoinedIsText
<1>7. Len(FlattenSeq(later)) <= Total(sizes)
  <2>1. ASSUME NEW j \in 1 .. Len(later) PROVE Len(later[j]) <= sizes[j]
    <3>1. j \in 1 .. n - k + 1
      BY <1>2
    <3>2. later[j] = messages[k + j - 1] /\ sizes[j] = Len(messages[k + j - 1])
      BY <3>1, <1>2, <1>5
    <3>3. Len(messages[k + j - 1]) \in Nat
      BY <3>1, <1>4
    <3> HIDE DEF n
    <3> QED  BY <3>2, <3>3
  <2>2. Len(sizes) = Len(later)
    BY <1>2, <1>5
  <2> QED  BY <1>2, <1>5, <2>1, <2>2, JoinedLength
<1> QED  BY <1>2, <1>5, <1>6, <1>7 DEF later, sizes

LEMMA MessagesFit ==
    ASSUME NEW messages \in Seq(Seq(Token)), NEW max \in Int, max > 0
    PROVE  \E first, cut : IsFitted(fit_messages_for_prompt(messages, max), messages, max, first, cut)
<1> DEFINE n == Len(messages)
           Size(k) == Total(SizesFrom(messages, k))
           first == CHOOSE k \in 1 .. n + 1 :
                      /\ Size(k) <= max
                      /\ k > 1 => Size(k - 1) > max
           remaining == max - Size(first)
           cut == IF first > 1 /\ remaining >= 2 * Unit
                  THEN trim_preserve_edges(messages[first - 1], remaining)
                  ELSE <<>>
           later == FlattenSeq(SubSeq(messages, first, n))
           whole == fit_messages_for_prompt(messages, max)
<1>1. whole = cut \o later
  <2>1. ~(max <= 0)
    OBVIOUS
  <2> QED  BY <2>1, Zenon DEF fit_messages_for_prompt, SizesFrom
<1>2. n \in Nat
  OBVIOUS
<1>3. \A k \in 1 .. n + 1 : Size(k) \in Nat
  BY LaterMessages, TotalIsNat
<1>4. Size(n + 1) = 0
  <2>1. n + 1 \in 1 .. n + 1 /\ n - (n + 1) + 1 = 0
    BY <1>2
  <2>2. SizesFrom(messages, n + 1) \in Seq(Nat) /\ Len(SizesFrom(messages, n + 1)) = 0
    BY <2>1, LaterMessages
  <2> QED  BY <2>2, TotalIsNat
<1> HIDE DEF Size
<1>5. \E k \in 1 .. n + 1 : Size(k) <= max /\ (k > 1 => Size(k - 1) > max)
  <2> DEFINE T == {k \in 1 .. n + 1 : Size(k) <= max}
  <2>1. T \in SUBSET Nat /\ n + 1 \in T
    BY <1>2, <1>4
  <2>2. \A k : k \in T <=> k \in 1 .. n + 1 /\ Size(k) <= max
    OBVIOUS
  <2> HIDE DEF T
  <2>3. PICK k \in T : \A m \in T : k <= m
    BY <2>1, LeastNumber
  <2>4. k \in 1 .. n + 1 /\ Size(k) <= max
    BY <2>2
  <2>5. ASSUME k > 1 PROVE Size(k - 1) > max
    <3>1. k - 1 \in 1 .. n + 1 /\ ~(k <= k - 1)
      BY <1>2, <2>4, <2>5
    <3>2. ~(Size(k - 1) <= max)
      BY <2>2, <2>3, <3>1
    <3> QED  BY <1>3, <3>1, <3>2
  <2> QED  BY <2>4, <2>5
<1>6. first \in 1 .. n + 1 /\ Size(first) <= max
  BY <1>5
<1> HIDE DEF first
<1>7. Size(first) \in Nat /\ remaining \in Nat /\ remaining + Size(first) = max
  BY <1>3, <1>6
<1>8. first = n + 1 => remaining = max
  BY <1>4
<1>9. later \in Seq(Token) /\ Len(later) <= Size(first) /\ Len(later) \in Nat
  BY <1>6, LaterMessages DEF Size
<1> HIDE DEF remaining, later, whole
<1>10. /\ cut \in Seq(Token) /\ Len(cut) <= remaining
       /\ cut # <<>> => first > 1 /\ Tokens(cut) \subseteq Tokens(messages[first - 1]) \cup Tokens(Marker)
  <2>1. CASE first > 1 /\ remaining >= 2 * Unit
    <3>1. first - 1 \in 1 .. n
      BY <1>2, <1>6, <2>1
    <3>2. messages[first - 1] \in Seq(Token)
      BY <3>1, PartIsText
    <3>3. IsCut(cut, messages[first - 1], remaining, Token)
      <4>1. cut = trim_preserve_edges(messages[first - 1], remaining)
        BY <2>1
      <4> HIDE DEF cut
      <4> QED  BY <1>7, <3>2, <4>1, TrimBounds, MarkerIsText
    <3> HIDE DEF cut
    <3> QED  BY <1>7, <2>1, <3>3 DEF IsCut
  <2>2. CASE ~(first > 1 /\ remaining >= 2 * Unit)
    <3>1. cut = <<>>
      BY <2>2
    <3> HIDE DEF cut
    <3> QED  BY <1>7, <3>1
  <2> QED  BY <2>1, <2>2
<1>11. first = n + 1 /\ first > 1 /\ max >= 2 * Unit => cut = trim_preserve_edges(messages[first - 1], max)
  BY <1>8
<1> HIDE DEF cut
<1>12. Len(cut) + Len(later) <= max
  BY <1>7, <1>9, <1>10
<1>13. IsFitted(whole, messages, max, first, cut)
  BY <1>1, <1>6, <1>10, <1>11, <1>12 DEF IsFitted, later
<1> QED  BY <1>13 DEF whole

-----------------------------------------------------------------------------
(* The prompts *)

LEMMA InputFields ==
    ASSUME NEW i \in Input
    PROVE  /\ i.role \in {"drafter", "judge", "rewriter", "other"}
           /\ i.system \in Nat /\ i.query \in Nat /\ i.snapshot \in Nat
           /\ i.feedback \in Nat /\ i.draft \in Nat
           /\ i.tools \in Seq(Nat) /\ i.messages \in Seq(Nat)
           /\ i.chunks \in Seq([score : Nat, size : Nat])
BY DEF Input

LEMMA RankWeight ==
    ASSUME NEW n \in Nat, n > 0
    PROVE  OneScore \div n \in Nat
BY BudgetsAssumption

LEMMA TableIsSequence ==
    ASSUME NEW S, NEW n \in Nat, NEW f, f = [k \in 1 .. n |-> f[k]], \A k \in 1 .. n : f[k] \in S
    PROVE  f \in Seq(S) /\ Len(f) = n
OBVIOUS

LEMMA MemberOf ==
    ASSUME NEW S, NEW s \in Seq(S), NEW n \in 1 .. Len(s)
    PROVE  s[n] \in S
OBVIOUS

\* The segments are the tool results and then the chunks, each with a label of its
\* own, and if there are any then the first one weighs something.
LEMMA SegmentsFacts ==
    ASSUME NEW i \in Input
    PROVE  /\ Segments(i) \in Seq(Segment)
           /\ \A n \in DOMAIN Segments(i) : Segments(i)[n].label = Label(n)
           /\ Segments(i) # <<>> => \E n \in DOMAIN Segments(i) : Segments(i)[n].weight > 0
<1> DEFINE t == [n \in DOMAIN i.tools |->
                   [weight |-> 5 * OneScore, label |-> Label(n),
                    body |-> Words("tool", n, i.tools[n])]]
           c == [n \in DOMAIN i.chunks |->
                   [weight |-> IF i.chunks[n].score > 0 THEN i.chunks[n].score
                               ELSE OneScore \div n,
                    label |-> Label(Len(i.tools) + n),
                    body |-> Words("chunk", n, i.chunks[n].size)]]
           T == Len(i.tools)
           C == Len(i.chunks)
<1>1. Segments(i) = t \o c
  BY Zenon DEF Segments
<1>2. T \in Nat /\ C \in Nat /\ DOMAIN i.tools = 1 .. T /\ DOMAIN i.chunks = 1 .. C
  BY InputFields
<1>3. ASSUME NEW n \in 1 .. T
      PROVE  t[n] \in Segment /\ t[n].label = Label(n) /\ t[n].weight > 0
  <2>1. i.tools[n] \in Nat /\ n \in Nat
    BY InputFields
  <2>2. Label(n) \in Seq(Token) /\ Words("tool", n, i.tools[n]) \in Seq(Token)
    BY <2>1, WordsAreText DEF Label, Kinds
  <2>3. 5 * OneScore \in Nat /\ 5 * OneScore > 0
    BY BudgetsAssumption
  <2>4. t[n] = [weight |-> 5 * OneScore, label |-> Label(n),
                body |-> Words("tool", n, i.tools[n])]
    BY <1>2
  <2> QED  BY <2>2, <2>3, <2>4 DEF Segment
<1>4. ASSUME NEW n \in 1 .. C
      PROVE  c[n] \in Segment /\ c[n].label = Label(T + n) /\ (n = 1 => c[n].weight > 0)
  <2> DEFINE w == IF i.chunks[n].score > 0 THEN i.chunks[n].score ELSE OneScore \div n
  <2>1. i.chunks[n].score \in Nat /\ i.chunks[n].size \in Nat /\ n \in Nat /\ T + n \in Nat
    <3>1. i.chunks \in Seq([score : Nat, size : Nat])
      BY InputFields
    <3>2. i.chunks[n] \in [score : Nat, size : Nat]
      BY <3>1, MemberOf
    <3> QED  BY <1>2, <3>2
  <2>2. Label(T + n) \in Seq(Token) /\ Words("chunk", n, i.chunks[n].size) \in Seq(Token)
    BY <2>1, WordsAreText DEF Label, Kinds
  <2>3. w \in Nat
    BY <2>1, RankWeight
  <2>4. n = 1 => w > 0
    BY <2>1, BudgetsAssumption
  <2>5. c[n] = [weight |-> w, label |-> Label(T + n),
                body |-> Words("chunk", n, i.chunks[n].size)]
    BY <1>2
  <2> HIDE DEF w, c
  <2> QED  BY <2>2, <2>3, <2>4, <2>5 DEF Segment
<1>5. DOMAIN t = 1 .. T /\ DOMAIN c = 1 .. C
  BY <1>2
<1>a. t = [n \in 1 .. T |-> t[n]] /\ c = [n \in 1 .. C |-> c[n]]
  BY <1>2
<1> HIDE DEF t, c
<1> HIDE DEF T, C
<1>6. t \in Seq(Segment) /\ Len(t) = T /\ c \in Seq(Segment) /\ Len(c) = C
  BY <1>2, <1>3, <1>4, <1>a, TableIsSequence
<1>7. t \o c \in Seq(Segment) /\ Len(t \o c) = T + C /\ DOMAIN (t \o c) = 1 .. T + C
  BY <1>6
<1>8. ASSUME NEW n \in 1 .. T + C PROVE (t \o c)[n].label = Label(n)
  <2>1. CASE n <= T
    <3>1. n \in 1 .. T
      BY <1>2, <2>1
    <3>2. (t \o c)[n] = t[n]
      BY <1>6, <3>1
    <3> QED  BY <1>3, <3>1, <3>2
  <2>2. CASE ~(n <= T)
    <3>1. n - T \in 1 .. C /\ T + (n - T) = n
      BY <1>2, <2>2
    <3>2. (t \o c)[n] = c[n - T]
      BY <1>2, <1>6, <2>2, <3>1
    <3> QED  BY <1>4, <3>1, <3>2
  <2> QED  BY <2>1, <2>2
<1>9. ASSUME t \o c # <<>> PROVE \E n \in 1 .. T + C : (t \o c)[n].weight > 0
  <2>1. T + C > 0
    BY <1>2, <1>6, <1>7, <1>9
  <2>2. 1 \in 1 .. T + C
    BY <1>2, <2>1
  <2>3. CASE T > 0
    <3>1. 1 \in 1 .. T
      BY <1>2, <2>3
    <3>2. (t \o c)[1] = t[1]
      BY <1>6, <3>1
    <3> QED  BY <1>3, <2>2, <3>1, <3>2
  <2>4. CASE ~(T > 0)
    <3>1. 1 \in 1 .. C /\ T = 0
      BY <1>2, <2>1, <2>4
    <3>2. (t \o c)[1] = c[1]
      BY <1>6, <3>1
    <3> QED  BY <1>4, <2>2, <3>1, <3>2
  <2> QED  BY <2>3, <2>4
<1> QED  BY <1>1, <1>7, <1>8, <1>9

LEMMA ContextIsText ==
    ASSUME NEW i \in Input
    PROVE  Context(i) \in Seq(Token)
<1>1. ContextBudget \in Nat
  BY BudgetsAssumption
<1>2. Segments(i) \in Seq(Segment)
  BY SegmentsFacts
<1>3. CASE ContextBudget <= 0 \/ Segments(i) = <<>>
  <2>1. Context(i) = <<>>
    BY <1>3 DEF Context, build_context_text
  <2> QED  BY <2>1
<1>4. CASE ~(ContextBudget <= 0) /\ Segments(i) # <<>>
  <2>1. ContextBudget > 0 /\ \E n \in DOMAIN Segments(i) : Segments(i)[n].weight > 0
    BY <1>1, <1>4, SegmentsFacts
  <2>2. PICK a : /\ IsAllocation(a, Segments(i))
                 /\ build_context_text(Segments(i), ContextBudget) = Rendered(Segments(i), a)
    BY <1>1, <1>2, <1>4, <2>1, ContextIsRendered
  <2>3. Rendered(Segments(i), a) \in Seq(Token)
    <3>1. a \in [DOMAIN Segments(i) -> Nat]
      BY <2>2 DEF IsAllocation
    <3> QED  BY <1>2, <3>1, RenderedFacts
  <2> QED  BY <2>2, <2>3 DEF Context
<1> QED  BY <1>3, <1>4

LEMMA HistoryIsText ==
    ASSUME NEW i \in Input
    PROVE  /\ History(i) \in Seq(Seq(Token))
           /\ Len(History(i)) = Len(i.messages)
           /\ \A n \in 1 .. Len(i.messages) :
                 History(i)[n] = Words("message", n, i.messages[n])
<1> DEFINE n == Len(i.messages)
<1>1. n \in Nat /\ DOMAIN i.messages = 1 .. n
  BY InputFields
<1>2. ASSUME NEW m \in 1 .. n PROVE Words("message", m, i.messages[m]) \in Seq(Token)
  <2>1. m \in Nat /\ i.messages[m] \in Nat
    BY InputFields
  <2> QED  BY <2>1, WordsAreText DEF Kinds
<1>3. History(i) = [m \in 1 .. n |-> Words("message", m, i.messages[m])]
  BY <1>1 DEF History
<1> HIDE DEF n
<1> QED  BY <1>1, <1>2, <1>3 DEF n

LEMMA FittedIsText ==
    ASSUME NEW messages \in Seq(Seq(Token)), NEW max \in Int, max > 0
    PROVE  fit_messages_for_prompt(messages, max) \in Seq(Token)
<1> DEFINE t == fit_messages_for_prompt(messages, max)
<1>1. PICK first, cut : IsFitted(t, messages, max, first, cut)
  BY MessagesFit
<1> HIDE DEF t
<1>2. first \in 1 .. Len(messages) + 1 /\ cut \in Seq(Token)
      /\ t = cut \o FlattenSeq(SubSeq(messages, first, Len(messages)))
  BY <1>1 DEF IsFitted
<1>3. FlattenSeq(SubSeq(messages, first, Len(messages))) \in Seq(Token)
  BY <1>2, LaterMessages
<1> QED  BY <1>2, <1>3, ConcatProperties DEF t

LEMMA TrimIsText ==
    ASSUME NEW whole \in Seq(Token), NEW max \in Int
    PROVE  trim_preserve_edges(whole, max) \in Seq(Token)
BY MarkerIsText, TrimBounds DEF IsCut

\* The budgets of the rewriter's parts.
LEMMA RewriterBudgets ==
    /\ AtLeast(16 * Unit, RewriterBudget \div 3) \in Nat
    /\ AtLeast(16 * Unit, RewriterBudget \div 2) \in Nat
    /\ AtLeast(16 * Unit, RewriterBudget \div 2) >= 16 * Unit
    /\ AtLeast(8 * Unit, RewriterBudget \div 4) \in Nat
BY UnitAssumption, BudgetsAssumption DEF AtLeast

\* Every prompt is a text, and the drafter's and the plain ones end with the question.
LEMMA PromptIsText ==
    ASSUME NEW i \in Input
    PROVE  /\ Query(i) \in Seq(Token) /\ Len(Query(i)) = i.query
           /\ Prompt(i) \in Seq(Token)
           /\ i.role \in {"drafter", "other"} => EndsWith(Prompt(i), Query(i))
<1>1. Query(i) \in Seq(Token) /\ Len(Query(i)) = i.query
  <2>1. "query" \in Kinds /\ i.query \in Nat
    BY InputFields DEF Kinds
  <2> QED  BY <2>1, WordsAreText DEF Query
<1>2. Context(i) \in Seq(Token)
  BY ContextIsText
<1>3. Context(i) \o Query(i) \in Seq(Token) /\ EndsWith(Context(i) \o Query(i), Query(i))
  <2> DEFINE p == Context(i)
             q == Query(i)
  <2>1. p \in Seq(Token) /\ q \in Seq(Token)
    BY <1>1, <1>2
  <2> HIDE DEF p, q
  <2>2. p \o q \in Seq(Token) /\ EndsWith(p \o q, q)
    BY <2>1 DEF EndsWith
  <2> QED  BY <2>2 DEF p, q
<1>4. JudgePrompt(i) \in Seq(Token)
  <2> DEFINE d == trim_preserve_edges(Words("draft", 1, i.draft), DraftBudget)
  <2>1. Words("draft", 1, i.draft) \in Seq(Token)
    BY InputFields, WordsAreText DEF Kinds
  <2>2. d \in Seq(Token)
    BY <2>1, TrimIsText, BudgetsAssumption
  <2> QED  BY <1>3, <2>2, ConcatProperties DEF JudgePrompt
<1>5. RewriterPrompt(i) \in Seq(Token)
  <2> DEFINE s == trim_preserve_edges(Words("snapshot", 1, i.snapshot),
                                      AtLeast(16 * Unit, RewriterBudget \div 3))
             h == fit_messages_for_prompt(History(i), AtLeast(16 * Unit, RewriterBudget \div 2))
             f == trim_preserve_edges(Words("feedback", 1, i.feedback),
                                      AtLeast(8 * Unit, RewriterBudget \div 4))
  <2>1. Words("snapshot", 1, i.snapshot) \in Seq(Token)
        /\ Words("feedback", 1, i.feedback) \in Seq(Token)
    BY InputFields, WordsAreText DEF Kinds
  <2>2. s \in Seq(Token) /\ f \in Seq(Token)
    BY <2>1, TrimIsText, RewriterBudgets
  <2>3. h \in Seq(Token)
    <3>1. AtLeast(16 * Unit, RewriterBudget \div 2) > 0
      BY RewriterBudgets, UnitAssumption
    <3> QED  BY <3>1, RewriterBudgets, HistoryIsText, FittedIsText
  <2>4. RewriterPrompt(i) = s \o h \o Query(i) \o f
    BY DEF RewriterPrompt
  <2> HIDE DEF s, h, f
  <2>5. s \o h \in Seq(Token)
    BY <2>2, <2>3, ConcatProperties
  <2>6. s \o h \o Query(i) \in Seq(Token)
    BY <1>1, <2>5, ConcatProperties
  <2> QED  BY <2>2, <2>4, <2>6, ConcatProperties
<1>6. CASE i.role = "drafter"
  <2>1. Prompt(i) = Context(i) \o Query(i)
    BY <1>6 DEF Prompt
  <2> QED  BY <1>1, <1>3, <2>1
<1>7. CASE i.role = "judge"
  <2>1. Prompt(i) = JudgePrompt(i)
    BY <1>7 DEF Prompt
  <2> QED  BY <1>1, <1>4, <1>7, <2>1
<1>8. CASE i.role = "rewriter"
  <2>1. Prompt(i) = RewriterPrompt(i)
    BY <1>8 DEF Prompt
  <2> QED  BY <1>1, <1>5, <1>8, <2>1
<1>9. CASE i.role = "other"
  <2>1. Prompt(i) = Query(i)
    BY <1>9 DEF Prompt
  <2>2. EndsWith(Query(i), Query(i))
    BY <1>1 DEF EndsWith
  <2> QED  BY <1>1, <2>1, <2>2
<1> QED  BY <1>6, <1>7, <1>8, <1>9, InputFields

-----------------------------------------------------------------------------
(* The call *)

\* The question is short enough to survive every cut.
QuestionFits ==
    /\ input.role \in {"drafter", "other"}
    /\ 2 * input.query <= 16 * Unit - MarkerSize
    /\ UserBudget(input.system, MaxInput) >= 16 * Unit

\* What is about to be sent is a text within its bounds; before any refusal it is the
\* prompt fitted to the input, and it never loses a question that fits.
Sendable ==
    /\ payload \in Seq(Token)
    /\ Len(payload) <= UserBudget(input.system, MaxInput)
    /\ shrinks > 0 => Len(payload) <= AtLeast(16 * Unit, target)
    /\ shrinks = 0 => payload = fit_llm_input(input.system, Prompt(input), MaxInput)
    /\ QuestionFits => EndsWith(payload, Query(input))

LlmInv ==
    /\ LlmTypeOK
    /\ at = "build" => attempt = 0 /\ shrinks = 0
    /\ at = "send" => attempt < GroqMaxRetries /\ shrinks < 8 /\ Sendable

LEMMA InputIsInput ==
    ASSUME LlmTypeOK
    PROVE  input \in Input /\ input.system \in Nat /\ input.query \in Nat
BY InputsAssumption, InputFields DEF LlmTypeOK

LEMMA UserBudgetIsNat ==
    ASSUME NEW s \in Nat
    PROVE  UserBudget(s, MaxInput) \in Nat /\ UserBudget(s, MaxInput) > 0
BY UnitAssumption, BudgetsAssumption DEF UserBudget, AtLeast

\* The half of a target is a number, and so is the bound made of it.
LEMMA Shrunk ==
    ASSUME NEW t \in Nat
    PROVE  /\ t \div 2 \in Nat
           /\ AtLeast(16 * Unit, t \div 2) \in Nat
           /\ AtLeast(16 * Unit, t \div 2) >= 16 * Unit
           /\ AtLeast(16 * Unit, t \div 2) > 0
BY UnitAssumption, Halves DEF AtLeast

\* A question that fits survives a cut to sixteen units or more.
LEMMA QuestionSurvives ==
    ASSUME LlmTypeOK, QuestionFits, NEW p \in Seq(Token), EndsWith(p, Query(input)),
           NEW max \in Nat, max >= 16 * Unit
    PROVE  EndsWith(trim_preserve_edges(p, max), Query(input))
<1> DEFINE q == Query(input)
<1>1. input \in Input /\ input.query \in Nat
  BY InputIsInput
<1>2. q \in Seq(Token) /\ Len(q) = input.query
  BY <1>1, PromptIsText
<1>3. Marker \in Seq(Token) /\ Len(Marker) = MarkerSize
  BY MarkerIsText
<1>4. max - Len(Marker) >= Unit /\ 2 * Len(q) <= max - Len(Marker)
  BY <1>1, <1>2, <1>3, UnitAssumption, MarkerAssumption DEF QuestionFits
<1>5. max \in Int
  OBVIOUS
<1>6. EndsWith(p, q)
  OBVIOUS
<1> HIDE DEF q
<1>7. EndsWith(trim_preserve_edges(p, max), q)
  BY <1>2, <1>3, <1>4, <1>5, <1>6, TrimKeepsEnd
<1> QED  BY <1>7 DEF q

LEMMA LlmInitInv == LlmInit => LlmInv
BY BudgetsAssumption DEF LlmInit, LlmInv, LlmTypeOK, Texts

\* The first payload.
LEMMA GroqKeeps == LlmInv /\ Groq => LlmInv'
<1> SUFFICES ASSUME LlmInv, Groq PROVE LlmInv'
  OBVIOUS
<1> DEFINE b == UserBudget(input.system, MaxInput)
           p == Prompt(input)
<1>1. LlmTypeOK /\ attempt = 0 /\ shrinks = 0
  BY DEF LlmInv, Groq
<1>2. input \in Input /\ input.system \in Nat
  BY <1>1, InputIsInput
<1>3. p \in Seq(Token) /\ (input.role \in {"drafter", "other"} => EndsWith(p, Query(input)))
  BY <1>2, PromptIsText
<1>4. b \in Nat /\ b > 0
  BY <1>2, UserBudgetIsNat
<1>5. payload' = trim_preserve_edges(p, b)
  BY DEF Groq, fit_llm_input
<1>a. payload' = fit_llm_input(input.system, p, MaxInput)
  BY DEF Groq
<1> HIDE DEF b, p
<1>6. IsCut(payload', p, b, Token)
  BY <1>3, <1>4, <1>5, MarkerIsText, TrimBounds
<1>7. payload' \in Seq(Token) /\ Len(payload') <= b
  BY <1>4, <1>6 DEF IsCut
<1>8. QuestionFits => EndsWith(payload', Query(input))
  <2> SUFFICES ASSUME QuestionFits PROVE EndsWith(payload', Query(input))
    OBVIOUS
  <2>1. b >= 16 * Unit /\ input.role \in {"drafter", "other"}
    BY DEF QuestionFits, b
  <2> QED  BY <1>1, <1>3, <1>4, <1>5, <2>1, QuestionSurvives
<1>9. input' = input /\ attempt' = attempt /\ shrinks' = shrinks /\ status' = status
      /\ text' = text
  BY DEF Groq
<1>10. QuestionFits' <=> QuestionFits
  BY <1>9 DEF QuestionFits
<1>11. Sendable'
  BY <1>1, <1>7, <1>8, <1>9, <1>10, <1>a DEF Sendable, b, p
<1>12. LlmTypeOK'
  <2>1. target' \in Nat
    <3> DEFINE x == MaxInput - input.system - 8 * Unit
    <3>1. target' = AtLeast(32 * Unit, x)
      BY DEF Groq
    <3>2. 32 * Unit \in Nat /\ x \in Int
      BY <1>2, UnitAssumption, BudgetsAssumption
    <3> HIDE DEF x
    <3> QED  BY <3>1, <3>2 DEF AtLeast
  <2>2. at' \in {"build", "send", "give up", "done"}
    BY DEF Groq
  <2> QED  BY <1>1, <1>9, <2>1, <2>2 DEF LlmTypeOK
<1>13. at' # "build" /\ (at' = "send" => attempt' < GroqMaxRetries /\ shrinks' < 8)
  <2>1. at' = "give up" \/ (at' = "send" /\ GroqMaxRetries # 0)
    BY DEF Groq
  <2>2. GroqMaxRetries # 0 => attempt' < GroqMaxRetries
    BY <1>1, <1>9, BudgetsAssumption
  <2>3. shrinks' < 8
    BY <1>1, <1>9
  <2> QED  BY <2>1, <2>2, <2>3
<1>14. at' = "build" => attempt' = 0 /\ shrinks' = 0
  BY <1>13
<1>15. at' = "send" => attempt' < GroqMaxRetries /\ shrinks' < 8 /\ Sendable'
  BY <1>11, <1>13
<1> QED  BY <1>12, <1>14, <1>15 DEF LlmInv

\* The next attempt is below the number of retries or it is none.
LEMMA NextAttemptFacts ==
    ASSUME LlmTypeOK, at = "send" => attempt < GroqMaxRetries, at = "send", NextAttempt
    PROVE  /\ attempt' \in 0 .. GroqMaxRetries
           /\ at' \in {"send", "give up"}
           /\ at' = "send" => attempt' < GroqMaxRetries
<1>1. attempt \in Nat /\ GroqMaxRetries \in Nat /\ attempt < GroqMaxRetries
  BY BudgetsAssumption DEF LlmTypeOK
<1>2. attempt' = attempt + 1
  BY DEF NextAttempt
<1>3. CASE attempt + 1 = GroqMaxRetries
  <2>1. at' = "give up"
    BY <1>3 DEF NextAttempt
  <2>2. attempt' \in 0 .. GroqMaxRetries
    BY <1>1, <1>2
  <2>3. at' \in {"send", "give up"} /\ at' # "send"
    BY <2>1
  <2> QED  BY <2>2, <2>3
<1>4. CASE attempt + 1 # GroqMaxRetries
  <2>1. at' = "send"
    BY <1>4 DEF NextAttempt
  <2> QED  BY <1>1, <1>2, <1>4, <2>1
<1> QED  BY <1>3, <1>4

\* A refusal, after which the payload is cut again.
LEMMA TooLargeKeeps == LlmInv /\ TooLarge => LlmInv'
<1> SUFFICES ASSUME LlmInv, TooLarge PROVE LlmInv'
  OBVIOUS
<1> DEFINE b == UserBudget(input.system, MaxInput)
           m == AtLeast(16 * Unit, target \div 2)
<1>1. LlmTypeOK /\ at = "send" /\ attempt < GroqMaxRetries /\ shrinks < 8 /\ Sendable
  BY DEF LlmInv, TooLarge
<1>2. input \in Input /\ input.system \in Nat /\ target \in Nat
  BY <1>1, InputIsInput DEF LlmTypeOK
<1>3. target \div 2 \in Nat /\ m \in Nat /\ m >= 16 * Unit /\ m > 0
  BY <1>2, Shrunk
<1>4. payload' = trim_preserve_edges(payload, m) /\ target' = target \div 2
  BY DEF TooLarge
<1>5. b \in Nat
  BY <1>2, UserBudgetIsNat
<1>6. payload \in Seq(Token) /\ Len(payload) <= b
  BY <1>1 DEF Sendable
<1>a. m' = AtLeast(16 * Unit, target' \div 2) /\ m = AtLeast(16 * Unit, target')
  BY <1>4
<1> HIDE DEF b, m
<1>7. IsCut(payload', payload, m, Token)
  BY <1>3, <1>4, <1>6, MarkerIsText, TrimBounds
<1>8. payload' \in Seq(Token) /\ Len(payload') <= b /\ Len(payload') <= m
  <2>1. payload' \in Seq(Token) /\ Len(payload') <= m /\ Len(payload') <= Len(payload)
    BY <1>3, <1>7 DEF IsCut
  <2>2. Len(payload') \in Nat /\ Len(payload) \in Nat
    BY <1>6, <2>1, LenProperties
  <2> QED  BY <1>5, <1>6, <2>1, <2>2
<1>9. QuestionFits => EndsWith(payload', Query(input))
  BY <1>1, <1>3, <1>4, <1>6, QuestionSurvives DEF Sendable
<1>10. input' = input /\ status' = 413 /\ shrinks' = shrinks + 1
  BY DEF TooLarge
<1>11. QuestionFits' <=> QuestionFits
  BY <1>10 DEF QuestionFits
<1>12. shrinks' \in 0 .. 8 /\ shrinks' > 0 /\ shrinks' # 0
  BY <1>1, <1>10 DEF LlmTypeOK
<1>13. Sendable'
  BY <1>8, <1>9, <1>10, <1>11, <1>12, <1>a DEF Sendable, b
<1>14. CASE shrinks + 1 >= 8
  <2>1. at' = "done" /\ text' = "excuse" /\ attempt' = attempt
    BY <1>14 DEF TooLarge, Return
  <2> QED  BY <1>1, <1>3, <1>4, <1>10, <1>12, <2>1 DEF LlmInv, LlmTypeOK, Texts
<1>15. CASE ~(shrinks + 1 >= 8)
  <2>1. NextAttempt /\ text' = text
    BY <1>15 DEF TooLarge
  <2>2. /\ attempt' \in 0 .. GroqMaxRetries
        /\ at' \in {"send", "give up"}
        /\ at' = "send" => attempt' < GroqMaxRetries
    BY <1>1, <2>1, NextAttemptFacts
  <2>3. shrinks' < 8
    BY <1>1, <1>10, <1>15 DEF LlmTypeOK
  <2> QED  BY <1>1, <1>3, <1>4, <1>10, <1>12, <1>13, <2>1, <2>2, <2>3 DEF LlmInv, LlmTypeOK
<1> QED  BY <1>14, <1>15

\* Another answer or none: the payload stays what it is.
LEMMA RetryKeeps == LlmInv /\ (Busy \/ Unanswered) => LlmInv'
<1> SUFFICES ASSUME LlmInv, Busy \/ Unanswered PROVE LlmInv'
  OBVIOUS
<1>1. LlmTypeOK /\ at = "send" /\ attempt < GroqMaxRetries /\ shrinks < 8 /\ Sendable
  BY DEF LlmInv, Busy, Unanswered
<1>2. NextAttempt /\ input' = input /\ payload' = payload /\ target' = target
      /\ shrinks' = shrinks /\ text' = text
      /\ status' \in {0, 200, 400, 413, 429, 503}
  BY <1>1 DEF Busy, Unanswered, LlmTypeOK
<1>3. /\ attempt' \in 0 .. GroqMaxRetries
      /\ at' \in {"send", "give up"}
      /\ at' = "send" => attempt' < GroqMaxRetries
  BY <1>1, <1>2, NextAttemptFacts
<1>4. Sendable'
  BY <1>1, <1>2 DEF Sendable, QuestionFits
<1> QED  BY <1>1, <1>2, <1>3, <1>4 DEF LlmInv, LlmTypeOK

\* The call returns.
LEMMA ReturnKeeps ==
    ASSUME LlmInv, NEW t \in Texts, Return(t),
           input' = input, target' = target, attempt' = attempt, shrinks' = shrinks,
           status' \in {0, 200, 400, 413, 429, 503}
    PROVE  LlmInv'
BY DEF LlmInv, LlmTypeOK, Return

LEMMA LlmNextInv == LlmInv /\ [LlmNext]_llmVars => LlmInv'
<1> SUFFICES ASSUME LlmInv, [LlmNext]_llmVars PROVE LlmInv'
  OBVIOUS
<1>a. status \in {0, 200, 400, 413, 429, 503}
  BY DEF LlmInv, LlmTypeOK
<1>1. CASE Groq
  BY <1>1, GroqKeeps
<1>2. CASE NoKey
  BY <1>2, <1>a, ReturnKeeps DEF NoKey, Texts
<1>3. CASE Local
  <2>1. PICK t \in {"model", "blank", "excuse", "exception"} : Return(t)
    BY <1>3 DEF Local
  <2>2. t \in Texts
    BY DEF Texts
  <2> QED  BY <1>3, <1>a, <2>1, <2>2, ReturnKeeps DEF Local
<1>4. CASE TooLarge
  BY <1>4, TooLargeKeeps
<1>5. CASE Busy \/ Unanswered
  BY <1>5, RetryKeeps
<1>6. CASE Answer
  <2>1. PICK t \in {"model", "excuse"} : Return(t)
    BY <1>6 DEF Answer
  <2>2. t \in Texts
    BY DEF Texts
  <2> QED  BY <1>6, <2>1, <2>2, ReturnKeeps DEF Answer
<1>7. CASE Raises
  BY <1>7, ReturnKeeps DEF Raises, Texts
<1>8. CASE GiveUp
  BY <1>8, <1>a, ReturnKeeps DEF GiveUp, Texts
<1>9. CASE UNCHANGED llmVars
  <2>1. /\ input' = input /\ at' = at /\ payload' = payload /\ target' = target
        /\ attempt' = attempt /\ shrinks' = shrinks /\ status' = status /\ text' = text
    BY <1>9 DEF llmVars
  <2>2. LlmTypeOK'
    <3>1. LlmTypeOK
      BY DEF LlmInv
    <3>2. input' \in Inputs /\ at' \in {"build", "send", "give up", "done"}
          /\ target' \in Nat /\ attempt' \in 0 .. GroqMaxRetries /\ shrinks' \in 0 .. 8
      BY <2>1, <3>1 DEF LlmTypeOK
    <3>3. status' \in {0, 200, 400, 413, 429, 503} /\ text' \in Texts
      BY <2>1, <3>1 DEF LlmTypeOK
    <3> QED  BY <3>2, <3>3 DEF LlmTypeOK, Texts
  <2>3. Sendable => Sendable'
    BY <2>1 DEF Sendable, QuestionFits
  <2> QED  BY <2>1, <2>2, <2>3 DEF LlmInv
<1> QED  BY <1>1, <1>2, <1>3, <1>4, <1>5, <1>6, <1>7, <1>8, <1>9 DEF LlmNext

\* The invariant of a call of the gateway: what is about to be sent fits, and carries
\* the question.
THEOREM LlmInvariant == LlmSpec => []LlmInv
BY LlmInitInv, LlmNextInv, PTL DEF LlmSpec

\* The types of a call of the gateway; no more attempts than groq_max_retries and no
\* more than eight refusals.
THEOREM LlmTypes == LlmSpec => []LlmTypeOK
<1>1. LlmInv => LlmTypeOK
  BY DEF LlmInv
<1> QED  BY <1>1, LlmInvariant, PTL

\* Whatever was put into the prompt, however often the provider found it too large and
\* whatever the budgets are, what _call_groq sends fits.
THEOREM PayloadsFit == LlmSpec => []PromptFits
<1>1. LlmInv => PromptFits
  BY DEF LlmInv, Sendable, PromptFits
<1> QED  BY <1>1, LlmInvariant, PTL

LEMMA EndIsPiece ==
    ASSUME NEW S, NEW t \in Seq(S), NEW q \in Seq(S), EndsWith(t, q)
    PROVE  SubSeq(t, Len(t) - Len(q) + 1, Len(t)) = q
<1> DEFINE n == Len(q)
           r == SubSeq(t, Len(t) - n + 1, Len(t))
<1>1. n \in Nat /\ n <= Len(t)
  BY DEF EndsWith
<1>2. r \in Seq(S) /\ Len(r) = n /\ \A i \in 1 .. n : r[i] = t[Len(t) - n + i]
  BY <1>1, Pieces
<1>3. \A i \in 1 .. n : r[i] = q[i]
  BY <1>2 DEF EndsWith
<1> HIDE DEF r
<1>4. r = q
  BY <1>2, <1>3, SeqEqual
<1> QED  BY <1>4 DEF r

\* No sequence of refusals makes the drafter answer without its question, as long as
\* the question is no longer than the end that the smallest cut keeps.
THEOREM QuestionAlwaysSent == LlmSpec => []QuestionIsSent
<1>1. LlmInv => QuestionIsSent
  <2> SUFFICES ASSUME LlmInv, at = "send", QuestionFits
               PROVE  SubSeq(payload, Len(payload) - input.query + 1, Len(payload))
                        = Query(input)
    BY DEF QuestionIsSent, QuestionFits
  <2>1. payload \in Seq(Token) /\ EndsWith(payload, Query(input))
    BY DEF LlmInv, Sendable
  <2>2. Query(input) \in Seq(Token) /\ Len(Query(input)) = input.query
    <3>1. input \in Input
      BY InputIsInput DEF LlmInv
    <3> QED  BY <3>1, PromptIsText
  <2> QED  BY <2>1, <2>2, EndIsPiece
<1> QED  BY <1>1, LlmInvariant, PTL

-----------------------------------------------------------------------------
(* The sources in the prompt *)

\* What a source costs when it is cut to the least.
LeastContext(segments) == Total([n \in DOMAIN segments |-> Len(segments[n].label) + 3 * Unit])

LEMMA LeastIsNat ==
    ASSUME NEW segments \in Seq(Segment)
    PROVE  LeastContext(segments) \in Nat
<1> DEFINE sizes == [n \in DOMAIN segments |-> Len(segments[n].label) + 3 * Unit]
           c == Len(segments)
<1>1. c \in Nat /\ DOMAIN segments = 1 .. c
  OBVIOUS
<1>2. ASSUME NEW n \in 1 .. c PROVE Len(segments[n].label) + 3 * Unit \in Nat
  <2>1. segments[n] \in Segment
    BY MemberOf
  <2>2. segments[n].label \in Seq(Token)
    BY <2>1 DEF Segment
  <2>3. Len(segments[n].label) \in Nat
    BY <2>2, LenProperties
  <2>4. 3 * Unit \in Nat
    BY UnitAssumption
  <2> DEFINE l == Len(segments[n].label)
             u == 3 * Unit
  <2> HIDE DEF l, u
  <2>5. l + u \in Nat
    BY <2>3, <2>4 DEF l, u
  <2> QED  BY <2>5 DEF l, u
<1>3. sizes = [n \in 1 .. c |-> sizes[n]] /\ \A n \in 1 .. c : sizes[n] \in Nat
  BY <1>1, <1>2
<1> HIDE DEF sizes, c
<1>4. sizes \in Seq(Nat)
  BY <1>1, <1>3, TableIsSequence
<1>5. Total(sizes) \in Nat
  BY <1>4, TotalIsNat
<1> QED  BY <1>5 DEF LeastContext, sizes

\* The context holds every source, cut to some room, and is within its budget or the
\* sources are cut to the least.
LEMMA ContextHolds ==
    ASSUME NEW i \in Input, Segments(i) # <<>>, ContextBudget > 0
    PROVE  /\ Len(Context(i)) <= AtLeast(ContextBudget, LeastContext(Segments(i)))
           /\ \A n \in DOMAIN Segments(i) :
                \E m \in Nat : m > 0 /\ Inside(Entry(Segments(i)[n], m), Context(i))
<1> DEFINE segments == Segments(i)
           least == LeastContext(segments)
<1>1. ContextBudget \in Nat
  BY BudgetsAssumption
<1>2. segments \in Seq(Segment) /\ segments # <<>>
      /\ \E n \in DOMAIN segments : segments[n].weight > 0
  BY SegmentsFacts
<1>3. Context(i) = build_context_text(segments, ContextBudget)
  BY DEF Context
<1> HIDE DEF segments
<1>4. PICK a : /\ IsAllocation(a, segments)
               /\ build_context_text(segments, ContextBudget) = Rendered(segments, a)
               /\ \/ Len(Rendered(segments, a)) <= ContextBudget
                  \/ \A n \in DOMAIN segments : a[n] <= 3 * Unit
  BY <1>1, <1>2, ContextIsRendered
<1>5. a \in [DOMAIN segments -> Nat] /\ \A n \in DOMAIN segments : a[n] >= 3 * Unit
  BY <1>4 DEF IsAllocation
<1>6. /\ Rendered(segments, a) \in Seq(Token)
      /\ \A n \in DOMAIN segments : Inside(Entry(segments[n], a[n]), Rendered(segments, a))
      /\ (\A n \in DOMAIN segments : a[n] <= 3 * Unit) => Len(Rendered(segments, a)) <= least
  BY <1>2, <1>5, RenderedFacts DEF LeastContext
<1>7. least \in Nat
  BY <1>2, LeastIsNat
<1>8. Len(Rendered(segments, a)) \in Nat
  BY <1>6, LenProperties
<1> HIDE DEF least
<1>9. Len(Rendered(segments, a)) <= ContextBudget \/ Len(Rendered(segments, a)) <= least
  BY <1>4, <1>6
<1>10. Len(Rendered(segments, a)) <= AtLeast(ContextBudget, least)
  BY <1>1, <1>7, <1>8, <1>9 DEF AtLeast
<1>11. ASSUME NEW n \in DOMAIN segments
       PROVE  \E m \in Nat : m > 0 /\ Inside(Entry(segments[n], m), Rendered(segments, a))
  <2>1. a[n] \in Nat /\ a[n] > 0
    BY <1>5, UnitAssumption
  <2> QED  BY <1>6, <2>1
<1> QED  BY <1>3, <1>4, <1>10, <1>11 DEF segments, least

LEMMA Two ==
    ASSUME NEW S, NEW x \in Seq(S), NEW y \in Seq(S)
    PROVE  /\ x \o y \in Seq(S) /\ Len(x \o y) = Len(x) + Len(y)
           /\ Len(x) \in Nat /\ Len(y) \in Nat
           /\ \A k \in 1 .. Len(x) : (x \o y)[k] = x[k]
           /\ \A k \in 1 .. Len(y) : (x \o y)[Len(x) + k] = y[k]
OBVIOUS

\* A text that holds a source's entry shows its label and, next to it, the start of
\* its body.
LEMMA EntryShows ==
    ASSUME NEW s \in Segment, Len(s.label) = 1, NEW m \in Nat, m > 0,
           NEW t \in Seq(Token), Inside(Entry(s, m), t)
    PROVE  \E k \in DOMAIN t : /\ <<t[k]>> = s.label
                               /\ s.body # <<>> => t[k + 1] = s.body[1]
<1> DEFINE l == s.label
           b == s.body
           r == trim_preserve_edges(b, m)
           e == Entry(s, m)
<1>1. l \in Seq(Token) /\ b \in Seq(Token) /\ Len(l) = 1
  BY DEF Segment
<1>2. e = l \o r
  BY DEF Entry
<1>3. r \in Seq(Token)
  <2>1. m \in Int
    OBVIOUS
  <2> HIDE DEF b
  <2> QED  BY <1>1, <2>1, TrimIsText
<1>4. b # <<>> => Len(r) > 0 /\ r[1] = b[1]
  <2> SUFFICES ASSUME b # <<>> PROVE Len(r) > 0 /\ r[1] = b[1]
    OBVIOUS
  <2>1. Len(b) > 0
    BY <1>1
  <2>2. m \in Int
    OBVIOUS
  <2>3. m > 0
    OBVIOUS
  <2> HIDE DEF b
  <2>4. LET x == trim_preserve_edges(b, m) IN Len(x) > 0 /\ x[1] = b[1]
    BY <1>1, <2>1, <2>2, <2>3, TrimKeepsStart, MarkerIsText
  <2> QED  BY <2>4
<1>5. PICK o \in Nat : o + Len(e) <= Len(t) /\ \A j \in 1 .. Len(e) : t[o + j] = e[j]
  BY DEF Inside
<1> HIDE DEF r, e, l, b
<1>6. Len(e) = 1 + Len(r) /\ Len(r) \in Nat /\ e[1] = l[1]
  <2>1. /\ Len(l \o r) = Len(l) + Len(r) /\ Len(r) \in Nat
        /\ \A k \in 1 .. Len(l) : (l \o r)[k] = l[k]
    BY <1>1, <1>3, Two
  <2>2. (l \o r)[1] = l[1]
    BY <1>1, <2>1
  <2> QED  BY <1>1, <1>2, <2>1, <2>2
<1>7. o + 1 \in DOMAIN t /\ t[o + 1] = l[1]
  BY <1>5, <1>6
<1>8. l = <<l[1]>>
  BY <1>1
<1>9. b # <<>> => t[(o + 1) + 1] = b[1]
  <2> SUFFICES ASSUME b # <<>> PROVE t[(o + 1) + 1] = b[1]
    OBVIOUS
  <2>1. Len(r) > 0 /\ r[1] = b[1]
    BY <1>4
  <2>2. 2 \in 1 .. Len(e) /\ e[2] = r[1]
    BY <1>1, <1>2, <1>3, <1>6, <2>1
  <2>3. t[o + 2] = e[2] /\ o + 2 = (o + 1) + 1
    BY <1>5, <2>2
  <2> QED  BY <2>1, <2>2, <2>3
<1> QED  BY <1>7, <1>8, <1>9 DEF l, b

\* The draft's room in the judge's prompt.
DraftRoom(i) == IF i.role = "judge" THEN AtLeast(DraftBudget, 0) ELSE 0

\* The prompt of the drafter and the judge is the context and what follows it.
LEMMA PromptOfSources ==
    ASSUME NEW i \in Input, i.role \in {"drafter", "judge"}
    PROVE  /\ Len(Prompt(i)) <= Len(Context(i)) + i.query + DraftRoom(i)
           /\ \A p \in Seq(Token) : Inside(p, Context(i)) => Inside(p, Prompt(i))
<1> DEFINE c == Context(i)
           q == Query(i)
           d == trim_preserve_edges(Words("draft", 1, i.draft), DraftBudget)
<1>1. c \in Seq(Token) /\ q \in Seq(Token) /\ Len(q) = i.query /\ i.query \in Nat
  BY ContextIsText, PromptIsText, InputFields
<1>2. DraftBudget \in Int /\ Words("draft", 1, i.draft) \in Seq(Token)
  <2>1. "draft" \in Kinds /\ i.draft \in Nat
    BY InputFields DEF Kinds
  <2> QED  BY <2>1, WordsAreText, BudgetsAssumption
<1>3. d \in Seq(Token) /\ Len(d) <= AtLeast(DraftBudget, 0)
  <2>1. IsCut(d, Words("draft", 1, i.draft), DraftBudget, Token)
    BY <1>2, MarkerIsText, TrimBounds
  <2>2. d \in Seq(Token) /\ (DraftBudget <= 0 => Len(d) = 0)
        /\ (DraftBudget > 0 => Len(d) <= DraftBudget)
    BY <2>1 DEF IsCut
  <2>3. Len(d) \in Nat
    BY <2>2, LenProperties
  <2> HIDE DEF d
  <2> QED  BY <1>2, <2>2, <2>3 DEF AtLeast
<1>4. i.role = "drafter" => Prompt(i) = c \o q
  BY DEF Prompt
<1>5. i.role = "judge" => Prompt(i) = c \o q \o d
  BY DEF Prompt, JudgePrompt
<1>6. i.role = "drafter" => DraftRoom(i) = 0
  BY DEF DraftRoom
<1>7. i.role = "judge" => DraftRoom(i) = AtLeast(DraftBudget, 0)
  BY DEF DraftRoom
<1> HIDE DEF c, q, d
<1>8. c \o q \in Seq(Token) /\ Len(c \o q) = Len(c) + i.query /\ Len(c) \in Nat
  BY <1>1
<1>9. \A p \in Seq(Token) : Inside(p, c) => Inside(p, c \o q)
  BY <1>1, InsideLonger
<1>10. CASE i.role = "drafter"
  <2>1. Prompt(i) = c \o q /\ DraftRoom(i) = 0
    BY <1>4, <1>6, <1>10
  <2>2. Len(c \o q) <= Len(c) + i.query + 0
    BY <1>1, <1>8
  <2> QED  BY <1>9, <2>1, <2>2 DEF c
<1>11. CASE i.role = "judge"
  <2>1. Len(c \o q \o d) = Len(c) + i.query + Len(d) /\ Len(d) \in Nat
    BY <1>1, <1>3, Three
  <2>2. Len(c \o q \o d) <= Len(c) + i.query + DraftRoom(i)
    <3>1. AtLeast(DraftBudget, 0) \in Nat
      BY <1>2 DEF AtLeast
    <3> QED  BY <1>1, <1>3, <1>7, <1>8, <1>11, <2>1, <3>1
  <2>3. \A p \in Seq(Token) : Inside(p, c \o q) => Inside(p, (c \o q) \o d)
    BY <1>3, <1>8, InsideLonger
  <2> QED  BY <1>5, <1>9, <1>11, <2>2, <2>3 DEF c
<1> QED  BY <1>10, <1>11

\* A prompt that is no longer than what is left beside the system prompt is sent as
\* it is.
LEMMA WholePromptSent ==
    ASSUME LlmInv, at = "send", shrinks = 0,
           Len(Prompt(input)) <= UserBudget(input.system, MaxInput)
    PROVE  payload = Prompt(input)
<1> DEFINE p == Prompt(input)
           b == UserBudget(input.system, MaxInput)
<1>1. input \in Input /\ input.system \in Nat
  BY InputIsInput DEF LlmInv
<1>2. p \in Seq(Token) /\ Len(p) <= b
  BY <1>1, PromptIsText
<1>3. b \in Nat /\ b > 0
  BY <1>1, UserBudgetIsNat
<1>4. payload = trim_preserve_edges(p, b)
  BY DEF LlmInv, Sendable, fit_llm_input
<1> HIDE DEF p, b
<1>5. IsCut(payload, p, b, Token)
  BY <1>2, <1>3, <1>4, MarkerIsText, TrimBounds
<1>6. payload = p
  BY <1>2, <1>3, <1>5 DEF IsCut
<1> QED  BY <1>6 DEF p

\* Three budgets cut the prompt of the drafter and the judge one after the other.  If
\* the last of them is wide enough for the first two together, they shorten the
\* sources and drop none, whatever their number, sizes and scores: the first payload,
\* before any 413, has them all.
THEOREM SourcesSent == LlmSpec => []EverySourceSent
<1>1. LlmInv => EverySourceSent
  <2> DEFINE segments == Segments(input)
             least == LeastContext(segments)
  <2> SUFFICES ASSUME LlmInv, at = "send", shrinks = 0,
                      input.role \in {"drafter", "judge"}, ContextBudget > 0,
                      AtLeast(ContextBudget, least) + input.query + DraftRoom(input)
                        <= UserBudget(input.system, MaxInput),
                      NEW n \in DOMAIN segments
               PROVE  \E k \in DOMAIN payload :
                        /\ <<payload[k]>> = segments[n].label
                        /\ segments[n].body # <<>> => payload[k + 1] = segments[n].body[1]
    BY Zenon DEF EverySourceSent, LeastContext, DraftRoom
  <2>1. input \in Input /\ input.system \in Nat /\ input.query \in Nat
    BY InputIsInput DEF LlmInv
  <2>2. segments \in Seq(Segment) /\ segments[n].label = Label(n) /\ segments # <<>>
    BY <2>1, SegmentsFacts
  <2>3. /\ Len(Context(input)) <= AtLeast(ContextBudget, least)
        /\ \E m \in Nat : m > 0 /\ Inside(Entry(segments[n], m), Context(input))
    BY <2>1, <2>2, ContextHolds
  <2>4. PICK m \in Nat : m > 0 /\ Inside(Entry(segments[n], m), Context(input))
    BY <2>3
  <2>5. least \in Nat
    BY <2>2, LeastIsNat
  <2> HIDE DEF least
  <2>6. segments[n] \in Segment /\ Len(segments[n].label) = 1
    <3>1. n \in Nat /\ n \in 1 .. Len(segments)
      BY <2>2
    <3>2. Len(Label(n)) = 1
      <4>1. "source" \in Kinds /\ 1 \in Nat
        BY DEF Kinds
      <4> QED  BY <3>1, <4>1, WordsAreText DEF Label
    <3> HIDE DEF segments
    <3> QED  BY <2>2, <3>1, <3>2, MemberOf
  <2>7. Entry(segments[n], m) \in Seq(Token)
    BY <2>6, EntryIsText
  <2>8. Inside(Entry(segments[n], m), Prompt(input))
    BY <2>1, <2>4, <2>7, PromptOfSources
  <2>9. Len(Prompt(input)) <= UserBudget(input.system, MaxInput)
    <3>1. Len(Prompt(input)) <= Len(Context(input)) + input.query + DraftRoom(input)
      BY <2>1, PromptOfSources
    <3>2. Len(Prompt(input)) \in Nat /\ Len(Context(input)) \in Nat
      BY <2>1, PromptIsText, ContextIsText, LenProperties
    <3>3. AtLeast(ContextBudget, least) \in Nat /\ DraftRoom(input) \in Nat
      BY <2>5, BudgetsAssumption DEF AtLeast, DraftRoom
    <3>4. UserBudget(input.system, MaxInput) \in Nat
      BY <2>1, UserBudgetIsNat
    <3> QED  BY <2>1, <2>3, <3>1, <3>2, <3>3, <3>4
  <2>10. payload = Prompt(input)
    BY <2>9, WholePromptSent
  <2>11. payload \in Seq(Token) /\ Inside(Entry(segments[n], m), payload)
    BY <2>1, <2>8, <2>10, PromptIsText
  <2> HIDE DEF segments
  <2> QED  BY <2>4, <2>6, <2>11, EntryShows
<1> QED  BY <1>1, LlmInvariant, PTL

-----------------------------------------------------------------------------
(* The messages in the prompt *)

MessageTokens(i, m) == {<<"message", m, k>> : k \in 1 .. i.messages[m]}

LEMMA InsideTokens ==
    ASSUME NEW S, NEW p \in Seq(S), NEW t \in Seq(S), Inside(p, t)
    PROVE  Tokens(p) \subseteq Tokens(t)
<1> SUFFICES ASSUME NEW x \in Tokens(p) PROVE x \in Tokens(t)
  OBVIOUS
<1>1. PICK o \in Nat : o + Len(p) <= Len(t) /\ \A j \in 1 .. Len(p) : t[o + j] = p[j]
  BY DEF Inside
<1>2. PICK k \in 1 .. Len(p) : x = p[k]
  BY DEF Tokens
<1>3. o + k \in 1 .. Len(t) /\ t[o + k] = x
  BY <1>1, <1>2
<1> QED  BY <1>3 DEF Tokens

LEMMA HistoryTokens ==
    ASSUME NEW i \in Input, NEW m \in 1 .. Len(i.messages)
    PROVE  Tokens(History(i)[m]) = MessageTokens(i, m)
<1>1. m \in Nat /\ i.messages[m] \in Nat
  BY InputFields
<1>2. History(i)[m] = Words("message", m, i.messages[m])
  BY HistoryIsText
<1>3. "message" \in Kinds
  BY DEF Kinds
<1>4. Tokens(Words("message", m, i.messages[m])) = {<<"message", m, k>> : k \in 1 .. i.messages[m]}
  BY <1>1, <1>3, WordsAreText
<1> QED  BY <1>2, <1>4 DEF MessageTokens

\* The messages from the first one on are whole, of those before the cut one there is
\* nothing, and if even the last one is cut then its start is there.
LEMMA FittedMessages ==
    ASSUME NEW i \in Input, NEW max \in Int, max >= 2 * Unit, NEW h, NEW first, NEW cut,
           IsFitted(h, History(i), max, first, cut)
    PROVE  /\ h \in Seq(Token) /\ Len(h) <= max
           /\ first \in 1 .. Len(i.messages) + 1
           /\ \A m \in 1 .. Len(i.messages) : m >= first => MessageTokens(i, m) \subseteq Tokens(h)
           /\ \A m \in 1 .. Len(i.messages) : m < first - 1 =>
                 \A k : <<"message", m, k>> \notin Tokens(h)
           /\ LET n == Len(i.messages)
              IN  first = n + 1 /\ n > 0 /\ i.messages[n] > 0 => <<"message", n, 1>> \in Tokens(h)
<1> DEFINE hist == History(i)
           n == Len(i.messages)
           later == SubSeq(hist, first, Len(hist))
           rest == FlattenSeq(later)
<1>1. hist \in Seq(Seq(Token)) /\ Len(hist) = n /\ n \in Nat
  BY HistoryIsText, InputFields
<1>a. \A m \in 1 .. n : Tokens(hist[m]) = MessageTokens(i, m) /\ hist[m] \in Seq(Token)
  BY <1>1, HistoryTokens, PartIsText
<1>2. /\ first \in 1 .. n + 1
      /\ h = cut \o rest
      /\ cut \in Seq(Token)
      /\ cut # <<>> => first > 1 /\ Tokens(cut) \subseteq Tokens(hist[first - 1]) \cup Tokens(Marker)
      /\ Len(cut) + Len(rest) <= max
      /\ first = n + 1 /\ first > 1 => cut = trim_preserve_edges(hist[first - 1], max)
  BY <1>1 DEF IsFitted
<1> HIDE DEF hist
<1>3. /\ later \in Seq(Seq(Token)) /\ Len(later) = n - first + 1
      /\ \A j \in 1 .. n - first + 1 : later[j] = hist[first + j - 1]
      /\ rest \in Seq(Token)
  BY <1>1, <1>2, LaterMessages
<1> HIDE DEF later
<1>4. h \in Seq(Token) /\ Len(h) <= max /\ Tokens(h) = Tokens(cut) \cup Tokens(rest)
  BY <1>2, <1>3, Two, TokensOfBoth
<1>5. ASSUME NEW m \in 1 .. n, m >= first PROVE MessageTokens(i, m) \subseteq Tokens(h)
  <2>1. m - first + 1 \in 1 .. Len(later) /\ first + (m - first + 1) - 1 = m
    BY <1>1, <1>2, <1>3, <1>5
  <2>2. later[m - first + 1] = hist[m]
    BY <1>3, <2>1
  <2>3. Inside(later[m - first + 1], rest)
    BY <1>3, <2>1, JoinedHolds
  <2>4. Inside(hist[m], rest) /\ hist[m] \in Seq(Token)
    BY <1>a, <2>2, <2>3
  <2> HIDE DEF rest
  <2>5. Tokens(hist[m]) \subseteq Tokens(rest)
    BY <1>3, <2>4, InsideTokens
  <2> QED  BY <1>4, <1>a, <2>5
<1>6. ASSUME NEW m \in 1 .. n, m < first - 1, NEW k, <<"message", m, k>> \in Tokens(h)
      PROVE  FALSE
  <2> DEFINE x == <<"message", m, k>>
  <2>1. \A y \in 1 .. n : x \in Tokens(hist[y]) => y = m
    BY <1>a DEF MessageTokens
  <2>2. x \notin Tokens(Marker)
    BY MarkerIsText
  <2>3. CASE x \in Tokens(cut)
    <3>1. cut # <<>>
      BY <2>3 DEF Tokens
    <3>2. x \in Tokens(hist[first - 1]) /\ first - 1 \in 1 .. n
      BY <1>1, <1>2, <2>2, <2>3, <3>1
    <3>3. first - 1 = m
      BY <2>1, <3>2
    <3> QED  BY <1>1, <1>2, <1>6, <3>3
  <2>4. CASE x \in Tokens(rest)
    <3>1. PICK j \in 1 .. Len(later) : x \in Tokens(later[j])
      BY <1>3, <2>4, JoinedFrom
    <3>a. j \in 1 .. n - first + 1
      BY <1>3
    <3>b. first + j - 1 \in 1 .. n /\ first + j - 1 >= first
      BY <1>1, <1>2, <3>a
    <3>2. later[j] = hist[first + j - 1] /\ first + j - 1 \in 1 .. n /\ first + j - 1 >= first
      BY <1>3, <3>a, <3>b
    <3>3. first + j - 1 = m
      BY <2>1, <3>1, <3>2
    <3> QED  BY <1>1, <1>2, <1>6, <3>2, <3>3
  <2> QED  BY <1>4, <1>6, <2>3, <2>4
<1>7. ASSUME first = n + 1, n > 0, i.messages[n] > 0 PROVE <<"message", n, 1>> \in Tokens(h)
  <2>1. n \in 1 .. n /\ first - 1 = n /\ first > 1
    BY <1>1, <1>7
  <2>2. hist[n] = Words("message", n, i.messages[n]) /\ i.messages[n] \in Nat
    BY <2>1, HistoryIsText, InputFields DEF hist
  <2>3. "message" \in Kinds
    BY DEF Kinds
  <2>4. Len(hist[n]) = i.messages[n] /\ hist[n][1] = <<"message", n, 1>>
    <3> DEFINE w == Words("message", n, i.messages[n])
    <3>1. Len(w) = i.messages[n] /\ \A k \in 1 .. i.messages[n] : w[k] = <<"message", n, k>>
      BY <1>1, <2>2, <2>3, WordsAreText
    <3>2. 1 \in 1 .. i.messages[n]
      BY <1>7, <2>2
    <3> HIDE DEF w
    <3>3. w[1] = <<"message", n, 1>>
      BY <3>1, <3>2
    <3> QED  BY <2>2, <3>1, <3>3 DEF w
  <2>5. hist[n] \in Seq(Token) /\ Len(hist[n]) > 0
    BY <1>7, <1>a, <2>1, <2>4
  <2>6. cut = trim_preserve_edges(hist[n], max)
    BY <1>2, <1>7, <2>1
  <2>7. max > 0
    BY UnitAssumption
  <2>8. LET r == trim_preserve_edges(hist[n], max) IN Len(r) > 0 /\ r[1] = hist[n][1]
    BY <2>5, <2>7, TrimKeepsStart, MarkerIsText
  <2>9. Len(cut) > 0 /\ cut[1] = <<"message", n, 1>>
    BY <2>4, <2>6, <2>8
  <2>10. 1 \in 1 .. Len(cut)
    BY <1>2, <2>9
  <2> QED  BY <1>4, <2>9, <2>10 DEF Tokens
<1> HIDE DEF rest
<1>8. first \in 1 .. n + 1
  BY <1>2
<1> QED  BY <1>4, <1>5, <1>6, <1>7, <1>8

SnapshotBudget == AtLeast(16 * Unit, RewriterBudget \div 3)
HistoryBudget == AtLeast(16 * Unit, RewriterBudget \div 2)
FeedbackBudget == AtLeast(8 * Unit, RewriterBudget \div 4)

\* A part that is no message takes no more than its budget and has no token of one.
LEMMA OtherPart ==
    ASSUME NEW kind \in Kinds \ {"message"}, NEW size \in Nat, NEW max \in Nat
    PROVE  LET r == trim_preserve_edges(Words(kind, 1, size), max)
           IN  /\ r \in Seq(Token) /\ Len(r) <= max
               /\ \A m, k : <<"message", m, k>> \notin Tokens(r)
<1> DEFINE w == Words(kind, 1, size)
           r == trim_preserve_edges(w, max)
<1>1. w \in Seq(Token) /\ Tokens(w) = {<<kind, 1, k>> : k \in 1 .. size}
  BY WordsAreText
<1>2. max \in Int
  OBVIOUS
<1>3. Tokens(Marker) = {<<"marker", 1, k>> : k \in 1 .. MarkerSize}
  BY MarkerIsText
<1> HIDE DEF w
<1>4. IsCut(r, w, max, Token)
  BY <1>1, <1>2, MarkerIsText, TrimBounds
<1> HIDE DEF r
<1>5. /\ r \in Seq(Token) /\ (max <= 0 => Len(r) = 0) /\ (max > 0 => Len(r) <= max)
      /\ Tokens(r) \subseteq Tokens(w) \cup Tokens(Marker)
  BY <1>4 DEF IsCut
<1>6. Len(r) <= max
  BY <1>5
<1>7. ASSUME NEW m, NEW k PROVE <<"message", m, k>> \notin Tokens(r)
  <2>1. <<"message", m, k>> \notin Tokens(w) /\ <<"message", m, k>> \notin Tokens(Marker)
    BY <1>1, <1>3
  <2> QED  BY <1>5, <2>1
<1> QED  BY <1>5, <1>6, <1>7 DEF r, w

\* The rewriter's prompt: the fitted messages and parts that hold none.
LEMMA RewriterParts ==
    ASSUME NEW i \in Input, i.role = "rewriter",
           NEW h, h = fit_messages_for_prompt(History(i), HistoryBudget),
           h \in Seq(Token), Len(h) <= HistoryBudget
    PROVE  /\ Len(Prompt(i)) <= SnapshotBudget + HistoryBudget + FeedbackBudget + i.query
           /\ \A m, k : <<"message", m, k>> \in Tokens(Prompt(i))
                          <=> <<"message", m, k>> \in Tokens(h)
<1> DEFINE s == trim_preserve_edges(Words("snapshot", 1, i.snapshot), SnapshotBudget)
           f == trim_preserve_edges(Words("feedback", 1, i.feedback), FeedbackBudget)
           q == Query(i)
           M(m, k) == <<"message", m, k>>
<1>1. SnapshotBudget \in Nat /\ HistoryBudget \in Nat /\ FeedbackBudget \in Nat
  BY RewriterBudgets DEF SnapshotBudget, HistoryBudget, FeedbackBudget
<1>2. i.snapshot \in Nat /\ i.feedback \in Nat /\ i.query \in Nat
  BY InputFields
<1>3. "snapshot" \in Kinds \ {"message"} /\ "feedback" \in Kinds \ {"message"}
      /\ "query" \in Kinds
  BY DEF Kinds
<1>4. /\ s \in Seq(Token) /\ Len(s) <= SnapshotBudget
      /\ \A m, k : M(m, k) \notin Tokens(s)
  BY <1>1, <1>2, <1>3, OtherPart
<1>5. /\ f \in Seq(Token) /\ Len(f) <= FeedbackBudget
      /\ \A m, k : M(m, k) \notin Tokens(f)
  BY <1>1, <1>2, <1>3, OtherPart
<1>6. q \in Seq(Token) /\ Len(q) = i.query /\ \A m, k : M(m, k) \notin Tokens(q)
  <2>1. q \in Seq(Token) /\ Len(q) = i.query
        /\ Tokens(q) = {<<"query", 1, k>> : k \in 1 .. i.query}
    <3>1. 1 \in Nat
      OBVIOUS
    <3>2. /\ Words("query", 1, i.query) \in Seq(Token)
          /\ Len(Words("query", 1, i.query)) = i.query
          /\ Tokens(Words("query", 1, i.query)) = {<<"query", 1, k>> : k \in 1 .. i.query}
      BY <1>2, <1>3, <3>1, WordsAreText
    <3> QED  BY <3>2 DEF Query
  <2> QED  BY <2>1
<1>7. Prompt(i) = s \o h \o q \o f
  BY Zenon DEF Prompt, RewriterPrompt, SnapshotBudget, HistoryBudget, FeedbackBudget
<1> HIDE DEF s, f, q
<1>8. /\ s \o h \in Seq(Token) /\ Len(s \o h) = Len(s) + Len(h)
      /\ Tokens(s \o h) = Tokens(s) \cup Tokens(h)
  BY <1>4, Two, TokensOfBoth
<1>9. /\ Len((s \o h) \o q \o f) = Len(s \o h) + Len(q) + Len(f)
      /\ Tokens((s \o h) \o q \o f) = Tokens(s \o h) \cup Tokens(q) \cup Tokens(f)
  <2> DEFINE b == s \o h
  <2>1. b \in Seq(Token)
    BY <1>8
  <2> HIDE DEF b
  <2>2. /\ Len(b \o q \o f) = Len(b) + Len(q) + Len(f)
        /\ Tokens(b \o q \o f) = Tokens(b) \cup Tokens(q) \cup Tokens(f)
    <3>1. Len(b \o q \o f) = Len(b) + Len(q) + Len(f)
      <4>1. q \in Seq(Token) /\ f \in Seq(Token)
        BY <1>5, <1>6
      <4>2. b \o q \in Seq(Token) /\ Len(b \o q) = Len(b) + Len(q)
        BY <2>1, <4>1, Two
      <4>3. Len((b \o q) \o f) = Len(b \o q) + Len(f)
        BY <4>1, <4>2, Two
      <4> QED  BY <4>2, <4>3
    <3>2. Tokens(b \o q \o f) = Tokens(b) \cup Tokens(q) \cup Tokens(f)
      BY <1>5, <1>6, <2>1, Three
    <3> QED  BY <3>1, <3>2
  <2> QED  BY <2>2 DEF b
<1>10. Len(s) \in Nat /\ Len(h) \in Nat /\ Len(f) \in Nat
  BY <1>4, <1>5, LenProperties
<1>11. Len(Prompt(i)) <= SnapshotBudget + HistoryBudget + FeedbackBudget + i.query
  BY <1>1, <1>2, <1>4, <1>5, <1>6, <1>7, <1>8, <1>9, <1>10
<1>12. ASSUME NEW m, NEW k PROVE M(m, k) \in Tokens(Prompt(i)) <=> M(m, k) \in Tokens(h)
  <2>1. Tokens(Prompt(i)) = Tokens(s) \cup Tokens(h) \cup Tokens(q) \cup Tokens(f)
    BY <1>7, <1>8, <1>9
  <2>2. M(m, k) \notin Tokens(s) /\ M(m, k) \notin Tokens(q) /\ M(m, k) \notin Tokens(f)
    BY <1>4, <1>5, <1>6
  <2> HIDE DEF M
  <2> QED  BY <2>1, <2>2
<1> QED  BY <1>11, <1>12

\* The rewriter sees the newest messages, whatever their number and sizes: where one is
\* missing or cut, every older one is missing, and the last one never is, if the three
\* budgets fit into the input together; this is the first payload, before any 413.
THEOREM NewestSent == LlmSpec => []NewestMessagesSent
<1>1. LlmInv => NewestMessagesSent
  <2> DEFINE n == Len(input.messages)
             Sent(m, k) == \E j \in DOMAIN payload : payload[j] = <<"message", m, k>>
             h == fit_messages_for_prompt(History(input), HistoryBudget)
  <2> SUFFICES ASSUME LlmInv, at = "send", shrinks = 0, input.role = "rewriter",
                      SnapshotBudget + HistoryBudget + FeedbackBudget + input.query
                        <= UserBudget(input.system, MaxInput)
               PROVE  /\ \A m \in 1 .. n - 1 :
                            \/ \A k \in 1 .. input.messages[m + 1] : Sent(m + 1, k)
                            \/ \A k \in 1 .. input.messages[m] : ~Sent(m, k)
                      /\ n > 0 /\ input.messages[n] > 0 =>
                            ~ \A k \in 1 .. input.messages[n] : ~Sent(n, k)
    BY Zenon DEF NewestMessagesSent, SnapshotBudget, HistoryBudget, FeedbackBudget
  <2>1. input \in Input /\ n \in Nat /\ input.query \in Nat
    <3>1. input \in Input
      BY InputIsInput DEF LlmInv
    <3> QED  BY <3>1, InputFields
  <2>2. HistoryBudget \in Int /\ HistoryBudget > 0 /\ HistoryBudget >= 2 * Unit
    BY RewriterBudgets, UnitAssumption DEF HistoryBudget
  <2>3. PICK first, cut : IsFitted(h, History(input), HistoryBudget, first, cut)
    BY <2>1, <2>2, HistoryIsText, MessagesFit
  <2> HIDE DEF h
  <2>4. /\ h \in Seq(Token) /\ Len(h) <= HistoryBudget
        /\ first \in 1 .. n + 1
        /\ \A m \in 1 .. n : m >= first => MessageTokens(input, m) \subseteq Tokens(h)
        /\ \A m \in 1 .. n : m < first - 1 => \A k : <<"message", m, k>> \notin Tokens(h)
        /\ first = n + 1 /\ n > 0 /\ input.messages[n] > 0 => <<"message", n, 1>> \in Tokens(h)
    BY <2>1, <2>2, <2>3, FittedMessages
  <2>5. /\ Len(Prompt(input)) <= SnapshotBudget + HistoryBudget + FeedbackBudget + input.query
        /\ \A m, k : <<"message", m, k>> \in Tokens(Prompt(input))
                       <=> <<"message", m, k>> \in Tokens(h)
    BY <2>1, <2>4, RewriterParts DEF h
  <2>6. payload = Prompt(input)
    <3>1. Len(Prompt(input)) <= UserBudget(input.system, MaxInput)
      <4>1. input.system \in Nat
        BY <2>1, InputFields
      <4>2. UserBudget(input.system, MaxInput) \in Nat /\ Len(Prompt(input)) \in Nat
        BY <2>1, <4>1, UserBudgetIsNat, PromptIsText, LenProperties
      <4>3. SnapshotBudget \in Nat /\ HistoryBudget \in Nat /\ FeedbackBudget \in Nat
        BY RewriterBudgets DEF SnapshotBudget, HistoryBudget, FeedbackBudget
      <4> QED  BY <2>1, <2>5, <4>2, <4>3
    <3> QED  BY <3>1, WholePromptSent
  <2>7. ASSUME NEW m, NEW k PROVE Sent(m, k) <=> <<"message", m, k>> \in Tokens(h)
    <3>1. payload \in Seq(Token)
      BY <2>1, <2>6, PromptIsText
    <3>2. DOMAIN payload = 1 .. Len(payload)
      BY <3>1
    <3>3. Sent(m, k) <=> <<"message", m, k>> \in Tokens(payload)
      BY <3>2 DEF Tokens
    <3> QED  BY <2>5, <2>6, <3>3
  <2> HIDE DEF Sent
  <2>8. ASSUME NEW m \in 1 .. n, m >= first
        PROVE  \A k \in 1 .. input.messages[m] : Sent(m, k)
    BY <2>4, <2>7, <2>8 DEF MessageTokens
  <2>9. ASSUME NEW m \in 1 .. n - 1
        PROVE  \/ \A k \in 1 .. input.messages[m + 1] : Sent(m + 1, k)
               \/ \A k \in 1 .. input.messages[m] : ~Sent(m, k)
    <3>1. m + 1 \in 1 .. n /\ m \in 1 .. n
      BY <2>1
    <3>2. CASE m + 1 >= first
      BY <2>8, <3>1, <3>2
    <3>3. CASE m < first - 1
      BY <2>4, <2>7, <3>1, <3>3
    <3>4. m + 1 >= first \/ m < first - 1
      BY <2>4
    <3> QED  BY <3>2, <3>3, <3>4
  <2>10. ASSUME n > 0, input.messages[n] > 0
         PROVE  \E k \in 1 .. input.messages[n] : Sent(n, k)
    <3>1. n \in 1 .. n /\ input.messages[n] \in Nat
      BY <2>1, <2>10, InputFields
    <3>2. 1 \in 1 .. input.messages[n]
      BY <2>10, <3>1
    <3>3. CASE n >= first
      BY <2>8, <3>1, <3>2, <3>3
    <3>4. CASE first = n + 1
      BY <2>4, <2>7, <2>10, <3>2, <3>4
    <3>5. n >= first \/ first = n + 1
      BY <2>1, <2>4
    <3> QED  BY <3>3, <3>4, <3>5
  <2> QED  BY <2>9, <2>10
<1> QED  BY <1>1, LlmInvariant, PTL
=============================================================================
