----------------------------- MODULE LlmGateway -----------------------------
(***************************************************************************)
(* One call of invoke_llm: the prompt that a component of the pipeline     *)
(* builds within its budgets, and the attempts of the provider.  Calls     *)
(* share nothing but the metrics, so one stands for all.                   *)
(***************************************************************************)
EXTENDS TokenBudget

CONSTANTS
  Inputs,         \* what a component may be called with: a set of Input
  GroqMaxRetries, \* groq_max_retries
  MaxInput,       \* llm_max_input_tokens
  ContextBudget,  \* llm_context_token_budget
  RewriterBudget, \* llm_rewriter_context_budget
  DraftBudget,    \* llm_judge_draft_token_budget
  OneScore        \* the weight that stands for a score of 1.0

Input == [role : {"drafter", "judge", "rewriter", "other"},
          system : Nat,       \* tokens of the system prompt
          query : Nat,        \* ... of the query and the wording that follows it
          tools : Seq(Nat),   \* ... of the tool results
          chunks : Seq([score : Nat, size : Nat]),
          messages : Seq(Nat), snapshot : Nat, feedback : Nat, draft : Nat]

ASSUME InputsAssumption == Inputs \subseteq Input
ASSUME BudgetsAssumption ==
  /\ GroqMaxRetries \in Nat /\ MaxInput \in Nat /\ ContextBudget \in Nat
  /\ RewriterBudget \in Nat /\ DraftBudget \in Nat /\ OneScore \in Nat \ {0}

VARIABLES
  input,     \* the component's arguments
  at,        \* where the call is
  payload,   \* the user message in the payload of the next attempt
  target,    \* user_token_budget // 2**shrink_attempts
  attempt,   \* attempts made
  shrinks,   \* shrink_attempts
  status,    \* status_code: of the last answer, 0 for None
  text       \* what invoke_llm returns: the model's text, an excuse or nothing

llmVars == <<input, at, payload, target, attempt, shrinks, status, text>>

-----------------------------------------------------------------------------
(* The prompts of components.py *)

Query(i) == Words("query", 1, i.query)
Label(n) == Words("source", n, 1)

\* Tool results weigh as much as five sure hits; a chunk without a score is
\* weighed by its rank.
Segments(i) ==
  [n \in DOMAIN i.tools |->
     [weight |-> 5 * OneScore, label |-> Label(n), body |-> Words("tool", n, i.tools[n])]]
  \o [n \in DOMAIN i.chunks |->
     [weight |-> IF i.chunks[n].score > 0 THEN i.chunks[n].score ELSE OneScore \div n,
      label |-> Label(Len(i.tools) + n),
      body |-> Words("chunk", n, i.chunks[n].size)]]

Context(i) == build_context_text(Segments(i), ContextBudget)

\* Mutant: the judge gets the whole draft.
JudgePromptUntrimmed(i) == Context(i) \o Query(i) \o Words("draft", 1, i.draft)

JudgePrompt(i) ==
  Context(i) \o Query(i) \o trim_preserve_edges(Words("draft", 1, i.draft), DraftBudget)

History(i) == [n \in DOMAIN i.messages |-> Words("message", n, i.messages[n])]

RewriterPrompt(i) ==
  trim_preserve_edges(Words("snapshot", 1, i.snapshot),
                      AtLeast(16 * Unit, RewriterBudget \div 3))
  \o fit_messages_for_prompt(History(i), AtLeast(16 * Unit, RewriterBudget \div 2))
  \o Query(i)
  \o trim_preserve_edges(Words("feedback", 1, i.feedback),
                         AtLeast(8 * Unit, RewriterBudget \div 4))

Prompt(i) ==
  CASE i.role = "drafter"  -> Context(i) \o Query(i)
    [] i.role = "judge"    -> JudgePrompt(i)
    [] i.role = "rewriter" -> RewriterPrompt(i)
    [] OTHER               -> Query(i)

-----------------------------------------------------------------------------
LlmInit ==
  /\ input \in Inputs
  /\ at = "build"
  /\ payload = <<>>
  /\ target = 0
  /\ attempt = 0
  /\ shrinks = 0
  /\ status = 0
  /\ text = "none"

Return(t) == at' = "done" /\ text' = t

\* _call_groq: the payload, cut to the input limit once.
Groq ==
  /\ at = "build"
  /\ payload' = fit_llm_input(input.system, Prompt(input), MaxInput)
  /\ target' = AtLeast(32 * Unit, MaxInput - input.system - 8 * Unit)
  /\ at' = IF GroqMaxRetries = 0 THEN "give up" ELSE "send"
  /\ UNCHANGED <<input, attempt, shrinks, status, text>>

\* No GROQ_API_KEY: the message of the ValueError.
NoKey ==
  /\ at = "build"
  /\ Return("excuse")
  /\ UNCHANGED <<input, payload, target, attempt, shrinks, status>>

\* The local provider: one attempt with the prompt as it is.  A blank text is
\* returned as such; a JSON body of another shape raises an IndexError or an
\* AttributeError, which is not caught.
Local ==
  /\ at = "build"
  /\ \E t \in {"model", "blank", "excuse", "exception"} : Return(t)
  /\ UNCHANGED <<input, payload, target, attempt, shrinks, status>>

NextAttempt ==
  /\ attempt' = attempt + 1
  /\ at' = IF attempt + 1 = GroqMaxRetries THEN "give up" ELSE "send"

\* 413: half of the last target, not less than sixteen units.
TooLarge ==
  /\ at = "send"
  /\ status' = 413
  /\ shrinks' = shrinks + 1
  /\ target' = target \div 2
  /\ payload' = trim_preserve_edges(payload, AtLeast(16 * Unit, target \div 2))
  /\ IF shrinks + 1 >= 8
     THEN Return("excuse") /\ UNCHANGED attempt
     ELSE NextAttempt /\ UNCHANGED text
  /\ UNCHANGED input

\* 429 and 502 to 504, which wait also after the last attempt; any other error
\* status, which raise_for_status raises, and a body that is not JSON.
Busy ==
  /\ at = "send"
  /\ status' \in {200, 400, 429, 503}
  /\ NextAttempt
  /\ UNCHANGED <<input, payload, target, shrinks, text>>

\* No answer: status_code stays what it was.
Unanswered ==
  /\ at = "send"
  /\ NextAttempt
  /\ UNCHANGED <<input, payload, target, shrinks, status, text>>

\* The model's text without its thinking; a blank one becomes an excuse.
Answer ==
  /\ at = "send"
  /\ status' = 200
  /\ \E t \in {"model", "excuse"} : Return(t)
  /\ UNCHANGED <<input, payload, target, attempt, shrinks>>

\* A JSON body without choices or content: not a RequestException.
Raises ==
  /\ at = "send"
  /\ status' = 200
  /\ Return("exception")
  /\ UNCHANGED <<input, payload, target, attempt, shrinks>>

\* All attempts are used up.
GiveUp ==
  /\ at = "give up"
  /\ Return("excuse")
  /\ UNCHANGED <<input, payload, target, attempt, shrinks, status>>

LlmNext ==
  \/ Groq \/ NoKey \/ Local
  \/ TooLarge \/ Busy \/ Unanswered \/ Answer \/ Raises
  \/ GiveUp

LlmSpec == LlmInit /\ [][LlmNext]_llmVars

-----------------------------------------------------------------------------
(* Properties *)

Texts == {"none", "model", "blank", "excuse", "exception"}

\* Types and ranges: never more than the configured number of attempts.
LlmTypeOK ==
  /\ input \in Inputs
  /\ at \in {"build", "send", "give up", "done"}
  /\ target \in Nat
  /\ attempt \in 0 .. GroqMaxRetries
  /\ shrinks \in 0 .. 8
  /\ status \in {0, 200, 400, 413, 429, 503}
  /\ text \in Texts

\* Whatever was put into the prompt and however often the provider found it too
\* large, what is sent fits: at first the input limit, then half as much with every
\* refusal, down to a floor.
PromptFits ==
  at = "send" =>
    /\ Len(payload) <= UserBudget(input.system, MaxInput)
    /\ shrinks > 0 => Len(payload) <= AtLeast(16 * Unit, target)

\* The question closes the drafter's prompt.  Cutting keeps both ends, so no
\* sequence of refusals makes the drafter answer without its question, as long as
\* the question is no longer than the end that the smallest cut keeps.
QuestionIsSent ==
  /\ at = "send"
  /\ input.role \in {"drafter", "other"}
  /\ 2 * input.query <= 16 * Unit - MarkerSize
  /\ UserBudget(input.system, MaxInput) >= 16 * Unit
  => SubSeq(payload, Len(payload) - input.query + 1, Len(payload)) = Query(input)

\* Three budgets cut the prompt of the drafter and the judge one after the other, and
\* this is about the payload of the first attempts: a 413 may cut sources away.  If the
\* last of the budgets is wide enough for the first two together, they shorten the
\* sources and drop none: each one's label and the start of its text are sent.
EverySourceSent ==
  LET segments == Segments(input)
      least == Total([n \in DOMAIN segments |-> Len(segments[n].label) + 3 * Unit])
  IN  /\ at = "send" /\ shrinks = 0
      /\ input.role \in {"drafter", "judge"}
      /\ ContextBudget > 0
      /\ AtLeast(ContextBudget, least) + input.query
           + (IF input.role = "judge" THEN AtLeast(DraftBudget, 0) ELSE 0)
           <= UserBudget(input.system, MaxInput)
      => \A n \in DOMAIN segments : \E k \in DOMAIN payload :
           /\ <<payload[k]>> = segments[n].label
           /\ segments[n].body # <<>> => payload[k + 1] = segments[n].body[1]

\* The rewriter sees the newest messages, as long as no 413 has cut its prompt, which
\* may take them as well: where a message is missing or cut, every older one is
\* missing, and the last one never is, if the budgets of the snapshot, the history and
\* the feedback fit into the input together.
NewestMessagesSent ==
  LET n == Len(input.messages)
      Sent(m, k) == \E j \in DOMAIN payload : payload[j] = <<"message", m, k>>
      Whole(m) == \A k \in 1 .. input.messages[m] : Sent(m, k)
      None(m) == \A k \in 1 .. input.messages[m] : ~Sent(m, k)
      Budgets == AtLeast(16 * Unit, RewriterBudget \div 3)
                   + AtLeast(16 * Unit, RewriterBudget \div 2)
                   + AtLeast(8 * Unit, RewriterBudget \div 4)
  IN  /\ at = "send" /\ shrinks = 0 /\ input.role = "rewriter"
      /\ Budgets + input.query <= UserBudget(input.system, MaxInput)
      =>
        /\ \A m \in 1 .. n - 1 : Whole(m + 1) \/ None(m)
        /\ n > 0 /\ input.messages[n] > 0 => ~None(n)
=============================================================================
