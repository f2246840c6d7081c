---------------------------- MODULE RagPipeline -----------------------------
(***************************************************************************)
(* One run of the RAG orchestrator: POST /pipeline/run executing the       *)
(* LangGraph state machine of services/rag_orchestrator/graph.py.          *)
(*                                                                         *)
(* The variables are the fields of GraphState the graph's decisions and    *)
(* its response depend on, plus the rows the run writes to the trace       *)
(* store.  A node of the graph is an action; external_context, which runs  *)
(* two threads, is several.  What the LLM, the tools service and the       *)
(* retrieval service answer is chosen in each step.  Where text matters    *)
(* only by its origin, a field holds the iteration that produced it        *)
(* ("from", 0 when nothing has).                                           *)
(***************************************************************************)
EXTENDS Naturals, Sequences

CONSTANTS MaxRetries,   \* the 3 of route_after_judge and, less one, the 2 of judge_node
          Tools,        \* the tools of the catalog, web search among them
          WebSearch     \* tool_client.WEB_SEARCH_TOOL

ASSUME RetriesAssumption == MaxRetries \in Nat \ {0}
ASSUME ToolsAssumption == WebSearch \in Tools

VARIABLES
    node,                 \* the graph node that runs next
    web_search_enabled,   \* a field of the request, constant in a run
    retry_count,
    classification,
    retrieved_chunks,     \* [from, any]
    tool_results,         \* the tools that answered
    tool_notice,
    web_search_skipped,
    draft,                \* [from, kind]
    judge_status,
    judged_by_json,       \* judge_status was read from a JSON object, not guessed
    reasoning_is_text,    \* judge_reasoning is a string, which the rewriter strips
    reached_max_retries,
    final_answer,         \* [source, from]
    loop_traces,          \* one verdict per iteration, "unjudged" until it is judged
    current_iteration_id, \* index in iterationRows, 0 for None
    iterationRows,        \* loop_iterations rows of this run: [iteration, status]
    runRow,               \* the pipeline_runs row: "absent", "open" or "finished"
    branches,             \* the two threads of external_context and the tools one's work
    response              \* what the caller receives

answerVars == <<draft, judge_status, judged_by_json, reasoning_is_text,
                reached_max_retries, final_answer>>
contextVars == <<retrieved_chunks, tool_results, tool_notice, web_search_skipped>>
traceVars == <<loop_traces, current_iteration_id, iterationRows, runRow>>
vars == <<node, web_search_enabled, retry_count, classification, contextVars,
          answerVars, traceVars, branches, response>>

Nodes == {"start", "compressor", "rewriter", "orchestrator", "simple_responder", "retriever",
          "external_context", "drafter", "judge", "finish", "end"}
Classes == {"SIMPLE", "KNOWLEDGE", "TOOL"}
Statuses == {"PASS", "FAIL", "OTHER"}
Notices == {"none", "MCP_UNAVAILABLE", "WEB_SEARCH_SKIPPED"}

NoResponse == [state |-> "none", source |-> "none", warned |-> FALSE, cites |-> 0]
FailedResponse == [state |-> "failed", source |-> "none", warned |-> FALSE, cites |-> 0]
IdleBranches == [tools |-> "idle", retrieval |-> "idle", plan |-> {}, ok |-> {},
                 skipped |-> FALSE]

Iteration == retry_count + 1

Init ==
    /\ node = "start"
    /\ web_search_enabled \in BOOLEAN
    /\ retry_count = 0
    /\ classification = "UNKNOWN"
    /\ retrieved_chunks = [from |-> 0, any |-> FALSE]
    /\ tool_results = {}
    /\ tool_notice = "none"
    /\ web_search_skipped = FALSE
    /\ draft = [from |-> 0, kind |-> "none"]
    /\ judge_status = "none"
    /\ judged_by_json = FALSE
    /\ reasoning_is_text = TRUE
    /\ reached_max_retries = FALSE
    /\ final_answer = [source |-> "none", from |-> 0]
    /\ loop_traces = <<>>
    /\ current_iteration_id = 0
    /\ iterationRows = <<>>
    /\ runRow = "absent"
    /\ branches = IdleBranches
    /\ response = NoResponse

----------------------------------------------------------------------------
\* The nodes.

\* An exception that leaves a node ends the run: pipeline_run answers with the
\* error text.  PipelineRunLogger.__exit__ does not close the pipeline_runs row.
Fail ==
    /\ node' = "end"
    /\ response' = FailedResponse
    /\ UNCHANGED <<web_search_enabled, retry_count, classification, contextVars,
                   answerVars, traceVars, branches>>

\* PipelineRunLogger.__enter__ inserts the pipeline_runs row.
EnterRun ==
    /\ node = "start"
    /\ runRow' = "open"
    /\ node' = "compressor"
    /\ UNCHANGED <<web_search_enabled, retry_count, classification, contextVars,
                   answerVars, loop_traces, current_iteration_id, iterationRows,
                   branches, response>>

EnterRaises == node = "start" /\ Fail

\* A malformed provider payload raises inside any node that calls the LLM.
LlmNodes == {"compressor", "rewriter", "orchestrator", "simple_responder", "drafter",
             "judge"}
LlmRaises == node \in LlmNodes /\ Fail

Compressor ==
    /\ node = "compressor"
    /\ node' = "rewriter"
    /\ UNCHANGED <<web_search_enabled, retry_count, classification, contextVars,
                   answerVars, traceVars, branches, response>>

\* On a retry the judge's reasoning is stripped, which raises unless it is text.
FeedbackUsable == retry_count = 0 \/ reasoning_is_text

\* Mutant: a failed insert leaves the previous iteration's row id in the state.
RewriterKeepsRowId(logged) ==
    /\ node = "rewriter"
    /\ FeedbackUsable
    /\ loop_traces' = Append(loop_traces, "unjudged")
    /\ IF logged
       THEN /\ iterationRows' = Append(iterationRows,
                                       [iteration |-> Iteration, status |-> "unjudged"])
            /\ current_iteration_id' = Len(iterationRows) + 1
       ELSE UNCHANGED <<current_iteration_id, iterationRows>>
    /\ node' = "orchestrator"
    /\ UNCHANGED <<web_search_enabled, retry_count, classification, contextVars,
                   answerVars, runRow, branches, response>>

Rewriter(logged) ==
    /\ node = "rewriter"
    /\ FeedbackUsable
    /\ loop_traces' = Append(loop_traces, "unjudged")
    /\ IF logged
       THEN /\ iterationRows' = Append(iterationRows,
                                       [iteration |-> Iteration, status |-> "unjudged"])
            /\ current_iteration_id' = Len(iterationRows) + 1
       ELSE /\ current_iteration_id' = 0
            /\ UNCHANGED iterationRows
    /\ node' = "orchestrator"
    /\ UNCHANGED <<web_search_enabled, retry_count, classification, contextVars,
                   answerVars, runRow, branches, response>>

RewriterRaises ==
    /\ node = "rewriter"
    /\ ~FeedbackUsable
    /\ Fail

RouteAfterOrchestrator(class) ==
    CASE class = "SIMPLE" -> "simple_responder"
      [] class = "TOOL" -> "external_context"
      [] OTHER -> "retriever"

\* Without MCP a TOOL query is answered as a KNOWLEDGE query, with a notice.
Orchestrator(class, mcpAvailable) ==
    LET downgraded == class = "TOOL" /\ ~mcpAvailable
        final == IF downgraded THEN "KNOWLEDGE" ELSE class
    IN  /\ node = "orchestrator"
        /\ classification' = final
        /\ tool_notice' = IF downgraded THEN "MCP_UNAVAILABLE" ELSE tool_notice
        /\ node' = RouteAfterOrchestrator(final)
        /\ branches' = IF final = "TOOL"
                       THEN [IdleBranches EXCEPT !.tools = "planning",
                                                 !.retrieval = "running"]
                       ELSE branches
        /\ UNCHANGED <<web_search_enabled, retry_count, retrieved_chunks, tool_results,
                       web_search_skipped, answerVars, traceVars, response>>

SimpleResponder ==
    /\ node = "simple_responder"
    /\ final_answer' = [source |-> "simple", from |-> Iteration]
    /\ node' = "finish"
    /\ UNCHANGED <<web_search_enabled, retry_count, classification, contextVars, draft,
                   judge_status, judged_by_json, reasoning_is_text, reached_max_retries,
                   traceVars, branches, response>>

\* Mutant: an empty answer of the retrieval service leaves the old chunks.
RetrieverKeepsOld(any) ==
    /\ node = "retriever"
    /\ retrieved_chunks' = IF any THEN [from |-> Iteration, any |-> any]
                           ELSE retrieved_chunks
    /\ node' = "drafter"
    /\ UNCHANGED <<web_search_enabled, retry_count, classification, tool_results,
                   tool_notice, web_search_skipped, answerVars, traceVars, branches,
                   response>>

\* A blank query, an error of the retrieval service and no hit all give no chunk.
Retriever(any) ==
    /\ node = "retriever"
    /\ retrieved_chunks' = [from |-> Iteration, any |-> any]
    /\ node' = "drafter"
    /\ UNCHANGED <<web_search_enabled, retry_count, classification, tool_results,
                   tool_notice, web_search_skipped, answerVars, traceVars, branches,
                   response>>

----------------------------------------------------------------------------
\* external_context: the tools thread and the retrieval thread, then the join.

BranchStep ==
    /\ node = "external_context"
    /\ UNCHANGED <<node, web_search_enabled, retry_count, classification, tool_results,
                   tool_notice, web_search_skipped, answerVars, traceVars, response>>

\* The planner's calls, in an order that does not matter here.
PlanTools(plan) ==
    /\ branches.tools = "planning"
    /\ branches' = [branches EXCEPT !.tools = "executing", !.plan = plan]
    /\ BranchStep
    /\ UNCHANGED retrieved_chunks

\* Fetching the catalog or planning raises out of the thread.
PlanRaises ==
    /\ branches.tools = "planning"
    /\ branches' = [branches EXCEPT !.tools = "raised"]
    /\ BranchStep
    /\ UNCHANGED retrieved_chunks

\* One iteration of the tool loop.  A result is kept even when logging it raises; the
\* thread raises when logging the error raises again, or logging a skip raises.
CallTool(tool, outcome) ==
    /\ branches.tools = "executing"
    /\ tool \in branches.plan
    /\ LET skip == tool = WebSearch /\ ~web_search_enabled
           rest == [branches EXCEPT !.plan = @ \ {tool}]
       IN  branches' =
             CASE outcome = "log keeps raising" -> [branches EXCEPT !.tools = "raised"]
               [] outcome # "log keeps raising" /\ skip -> [rest EXCEPT !.skipped = TRUE]
               [] outcome = "success" /\ ~skip -> [rest EXCEPT !.ok = @ \cup {tool}]
               [] outcome = "error" /\ ~skip -> rest
    /\ BranchStep
    /\ UNCHANGED retrieved_chunks

ToolOutcomes == {"success", "error", "log keeps raising"}

FinishTools ==
    /\ branches.tools = "executing"
    /\ branches.plan = {}
    /\ branches' = [branches EXCEPT !.tools = "done"]
    /\ BranchStep
    /\ UNCHANGED retrieved_chunks

RetrieveBeside(found) ==
    /\ branches.retrieval = "running"
    /\ branches' = [branches EXCEPT !.retrieval = found]
    /\ BranchStep
    /\ UNCHANGED retrieved_chunks

\* Both futures have returned: the tools' updates and the chunks enter the state.
JoinBranches ==
    /\ node = "external_context"
    /\ branches.tools = "done"
    /\ branches.retrieval \in {"hits", "empty"}
    /\ tool_results' = branches.ok
    /\ web_search_skipped' = branches.skipped
    /\ tool_notice' = IF branches.skipped THEN "WEB_SEARCH_SKIPPED" ELSE tool_notice
    /\ retrieved_chunks' = [from |-> Iteration, any |-> branches.retrieval = "hits"]
    /\ branches' = IdleBranches
    /\ node' = "drafter"
    /\ UNCHANGED <<web_search_enabled, retry_count, classification, answerVars,
                   traceVars, response>>

\* Mutant: the join polls the tools thread until it reports a result.
JoinWaitsForever ==
    /\ node = "external_context"
    /\ branches.tools = "raised"
    /\ UNCHANGED vars

\* The exception of the tools thread surfaces once retrieval has returned as well.
JoinRaises ==
    /\ node = "external_context"
    /\ branches.tools = "raised"
    /\ branches.retrieval \in {"hits", "empty"}
    /\ Fail

ExternalContext ==
    \/ \E plan \in SUBSET Tools : PlanTools(plan)
    \/ PlanRaises
    \/ \E tool \in Tools, outcome \in ToolOutcomes : CallTool(tool, outcome)
    \/ FinishTools
    \/ \E found \in {"hits", "empty"} : RetrieveBeside(found)
    \/ JoinBranches
    \/ JoinRaises

----------------------------------------------------------------------------
HasContext == retrieved_chunks.any \/ tool_results # {}

\* normalize_kb_miss_response: no context, or a refusal, gives the KB-miss text.
NormalizedKind(refused) ==
    IF ~HasContext \/ refused THEN "kb_miss" ELSE "answer"

Drafter(refused) ==
    /\ node = "drafter"
    /\ draft' = [from |-> Iteration, kind |-> NormalizedKind(refused)]
    /\ node' = "judge"
    /\ UNCHANGED <<web_search_enabled, retry_count, classification, contextVars,
                   judge_status, judged_by_json, reasoning_is_text, reached_max_retries,
                   final_answer, traceVars, branches, response>>

\* The ways the judge's reply reads: a JSON object with a status, one without, and
\* text without an object, an outage message of invoke_llm included.
JsonReplies == {"json PASS", "json FAIL", "json other", "json no status"}
JudgeReplies == JsonReplies \cup {"text says FAIL", "other text"}

StatusOf(reply) ==
    CASE reply \in {"json PASS", "other text"} -> "PASS"
      [] reply \in {"json FAIL", "json no status", "text says FAIL"} -> "FAIL"
      [] reply = "json other" -> "OTHER"

\* Mutant: a PASS does not end the loop.
RouteIgnoringPass(status, retries) ==
    IF retries >= MaxRetries THEN "finish" ELSE "rewriter"

RouteAfterJudge(status, retries) ==
    IF status = "PASS" \/ retries >= MaxRetries THEN "finish" ELSE "rewriter"

\* Mutant: judge_node compares the count before its own increment with the limit.
ReachedMaxTooLate(status) == status = "FAIL" /\ retry_count >= MaxRetries

ReachedMax(status) == status = "FAIL" /\ retry_count >= MaxRetries - 1

\* judge_node and route_after_judge.  The row update may fail; that is only logged.
Judge(reply, textReason, logged) ==
    LET status == StatusOf(reply)
    IN  /\ node = "judge"
        /\ reply \notin JsonReplies => textReason
        /\ judge_status' = status
        /\ judged_by_json' = (reply \in JsonReplies)
        /\ reasoning_is_text' = textReason
        /\ retry_count' = retry_count + 1
        /\ loop_traces' = [loop_traces EXCEPT ![Len(loop_traces)] = status]
        /\ iterationRows' = IF logged /\ current_iteration_id # 0
                            THEN [iterationRows EXCEPT
                                    ![current_iteration_id].status = status]
                            ELSE iterationRows
        /\ reached_max_retries' = ReachedMax(status)
        /\ final_answer' = [source |-> "draft", from |-> draft.from]
        /\ node' = RouteAfterJudge(status, retry_count + 1)
        /\ UNCHANGED <<web_search_enabled, classification, contextVars, draft,
                       current_iteration_id, runRow, branches, response>>

\* The tail of run_pipeline: the warning, the trace row, the response.
Finish(logged) ==
    /\ node = "finish"
    /\ response' = [state |-> "answered", source |-> final_answer.source,
                    warned |-> reached_max_retries,
                    cites |-> IF retrieved_chunks.any THEN retrieved_chunks.from ELSE 0]
    /\ runRow' = IF logged THEN "finished" ELSE runRow
    /\ node' = "end"
    /\ UNCHANGED <<web_search_enabled, retry_count, classification, contextVars,
                   answerVars, loop_traces, current_iteration_id, iterationRows,
                   branches>>

\* The run has returned; its state is not touched again.
Returned == node = "end" /\ UNCHANGED vars

Next ==
    \/ EnterRun
    \/ EnterRaises
    \/ Compressor
    \/ \E logged \in BOOLEAN : Rewriter(logged)
    \/ RewriterRaises
    \/ \E class \in Classes, mcp \in BOOLEAN : Orchestrator(class, mcp)
    \/ SimpleResponder
    \/ \E any \in BOOLEAN : Retriever(any)
    \/ ExternalContext
    \/ \E refused \in BOOLEAN : Drafter(refused)
    \/ \E reply \in JudgeReplies, textReason \in BOOLEAN, logged \in BOOLEAN :
          Judge(reply, textReason, logged)
    \/ \E logged \in BOOLEAN : Finish(logged)
    \/ LlmRaises
    \/ Returned

\* Every call a node makes has a timeout and its exception is an outcome above, so
\* a run that can take a step takes one.
Spec == Init /\ [][Next]_vars /\ WF_vars(Next)

----------------------------------------------------------------------------
\* Properties.

GraphTypeOK ==
    /\ node \in Nodes
    /\ web_search_enabled \in BOOLEAN
    /\ retry_count \in 0..MaxRetries
    /\ classification \in Classes \cup {"UNKNOWN"}

ContextTypeOK ==
    /\ retrieved_chunks \in [from : 0..MaxRetries, any : BOOLEAN]
    /\ tool_results \subseteq Tools
    /\ tool_notice \in Notices
    /\ web_search_skipped \in BOOLEAN

AnswerTypeOK ==
    /\ draft \in [from : 0..MaxRetries, kind : {"none", "answer", "kb_miss"}]
    /\ judge_status \in Statuses \cup {"none"}
    /\ judged_by_json \in BOOLEAN
    /\ reasoning_is_text \in BOOLEAN
    /\ reached_max_retries \in BOOLEAN
    /\ final_answer \in [source : {"none", "simple", "draft"}, from : 0..MaxRetries]

LoopTrace == Statuses \cup {"unjudged"}
IterationRow == [iteration : 1..MaxRetries, status : LoopTrace]

TraceTypeOK ==
    /\ loop_traces \in Seq(LoopTrace)
    /\ Len(loop_traces) <= MaxRetries
    /\ current_iteration_id \in 0..MaxRetries
    /\ iterationRows \in Seq(IterationRow)
    /\ Len(iterationRows) <= Len(loop_traces)
    /\ runRow \in {"absent", "open", "finished"}

BranchTypeOK ==
    branches \in [tools : {"idle", "planning", "executing", "done", "raised"},
                  retrieval : {"idle", "running", "hits", "empty"},
                  plan : SUBSET Tools, ok : SUBSET Tools, skipped : BOOLEAN]

ResponseTypeOK ==
    response \in [state : {"none", "answered", "failed"},
                  source : {"none", "simple", "draft"},
                  warned : BOOLEAN, cites : 0..MaxRetries]

\* Every field of the run's state stays in its range; iterations never exceed
\* MaxRetries (the loop of services/rag_orchestrator/graph.py is bounded).
TypeOK ==
    /\ GraphTypeOK
    /\ ContextTypeOK
    /\ AnswerTypeOK
    /\ TraceTypeOK
    /\ BranchTypeOK
    /\ ResponseTypeOK

Answered == response.state = "answered"

\* The warning of run_pipeline is on the reply exactly when the judge rejected the
\* last draft the loop was allowed: a rejected draft never leaves without it, and
\* nothing else carries it, a small-talk reply after rejected drafts included.
WarningIffExhausted ==
    Answered => (response.warned <=> /\ response.source = "draft"
                                     /\ judge_status = "FAIL"
                                     /\ retry_count = MaxRetries)

\* A drafted reply cites the chunks retrieved for that very draft, however many
\* iterations and routes (retriever, external_context) came before it.
CitationsMatchDraft ==
    Answered /\ response.source = "draft" =>
        /\ final_answer.from = retry_count
        /\ response.cites \in {0, retry_count}

\* The loop_iterations rows and the loop_traces of the response tell one story, even
\* when inserting or updating a row failed: a row's verdict is that of its iteration.
TraceRowsAgree ==
    \A i \in DOMAIN iterationRows :
        LET row == iterationRows[i]
        IN  /\ row.iteration \in DOMAIN loop_traces
            /\ row.status \in {"unjudged", loop_traces[row.iteration]}
            /\ i > 1 => iterationRows[i - 1].iteration < row.iteration

\* The run refines the loop's promise.
Judged == SubSeq(loop_traces, 1, retry_count)

Outcome ==
    CASE response.state = "none" -> "pending"
      [] response.state = "failed" -> "failed"
      [] Answered /\ response.source = "simple" -> "direct"
      [] Answered /\ response.source # "simple" ->
            IF response.warned THEN "flagged"
            ELSE IF judge_status = "PASS" THEN "approved" ELSE "unresolved"

Promise == INSTANCE SelfCorrection
    WITH MaxAttempts <- MaxRetries, verdicts <- Judged, outcome <- Outcome

\* graph.py implements SelfCorrection: at most MaxRetries verdicts, none after a
\* PASS, one outcome, and that outcome is the one the verdicts call for.
ImplementsSelfCorrection == Promise!LoopSpec

\* Every run ends: the loop, the two threads and every raising call lead to a
\* response.
RunTerminates == <>(response.state # "none")

\* docs/football_rag_prd.md says an answer the judge did not accept is never served
\* to the user: a drafted reply without the warning was accepted by the judge.
ServedWasApproved ==
    Answered /\ response.source = "draft" /\ ~response.warned =>
        judge_status = "PASS" /\ judged_by_json

\* MCP_UNAVAILABLE_NOTICE of tool_client.py says the answer comes from the knowledge
\* base only: with it, the drafter is given no tool results.
NoticeMeansKnowledgeOnly ==
    node = "judge" /\ tool_notice = "MCP_UNAVAILABLE" /\ classification = "KNOWLEDGE" =>
        tool_results = {}
=============================================================================
