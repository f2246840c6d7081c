---------------------------- MODULE TokenBudget -----------------------------
(***************************************************************************)
(* How llm_gateway/token_budget.py cuts texts to size.  A text is the      *)
(* sequence of its tokens; that decoding and encoding again may change the *)
(* number of tokens at a cut by a few is left out, and so are the line     *)
(* breaks between joined parts, which the code does not count either.      *)
(*                                                                         *)
(* The thresholds of the code, 16, 32, 48, 96 and so on, are multiples of  *)
(* 16, the constant Unit; with a smaller one the same cuts happen to       *)
(* shorter texts.                                                          *)
(***************************************************************************)
EXTENDS Integers, Sequences, SequencesExt

CONSTANTS
  Unit,        \* 16 in the code
  MarkerSize   \* tokens of TRUNCATION_MARKER

ASSUME UnitAssumption == Unit \in Nat \ {0, 1}
\* TRUNCATION_MARKER is six words between dots and brackets, less than 16 tokens.
ASSUME MarkerAssumption == MarkerSize \in 0 .. Unit

\* A token is named by its text, the n-th of its kind, and its place in the text.
Words(kind, n, size) == [i \in 1 .. size |-> <<kind, n, i>>]
Marker == Words("marker", 1, MarkerSize)

AtLeast(a, b) == IF a < b THEN b ELSE a

\* Total(s): the sum of a sequence of numbers.
Total(s) ==
  LET upto[n \in 0 .. Len(s)] == IF n = 0 THEN 0 ELSE upto[n - 1] + s[n]
  IN  upto[Len(s)]

\* Mutant: the marker comes on top of the budget.
trim_and_mark(text, max_tokens) ==
  LET head == max_tokens \div 2
  IN  IF Len(text) <= max_tokens THEN text
      ELSE SubSeq(text, 1, head) \o Marker
             \o SubSeq(text, Len(text) - (max_tokens - head) + 1, Len(text))

\* Mutant: only the start of the text.
trim_to_token_budget(text, max_tokens) ==
  IF Len(text) <= max_tokens THEN text ELSE SubSeq(text, 1, max_tokens)

\* The start and the end of the text around the marker, or the bare start if
\* there is too little room for that.
trim_preserve_edges(text, max_tokens) ==
  LET remaining == max_tokens - Len(Marker)
      head == remaining \div 2
  IN  IF max_tokens <= 0 THEN <<>>
      ELSE IF Len(text) <= max_tokens THEN text
      ELSE IF remaining < Unit THEN SubSeq(text, 1, max_tokens)
      ELSE SubSeq(text, 1, head) \o Marker
             \o SubSeq(text, Len(text) - (remaining - head) + 1, Len(text))

\* Mutant: the budget is spent on the oldest messages.
fit_oldest_messages(messages, max_tokens) ==
  trim_to_token_budget(FlattenSeq(messages), max_tokens)

\* The newest messages that fit as a whole, and as much of the next one as there
\* is room for.
fit_messages_for_prompt(messages, max_tokens) ==
  LET n == Len(messages)
      Size(k) == Total([j \in 1 .. n - k + 1 |-> Len(messages[k + j - 1])])
      first == CHOOSE k \in 1 .. n + 1 :
                 /\ Size(k) <= max_tokens
                 /\ k > 1 => Size(k - 1) > max_tokens
      remaining == max_tokens - Size(first)
      cut == IF first > 1 /\ remaining >= 2 * Unit
             THEN trim_preserve_edges(messages[first - 1], remaining)
             ELSE <<>>
  IN  IF max_tokens <= 0 THEN <<>>
      ELSE cut \o FlattenSeq(SubSeq(messages, first, n))

-----------------------------------------------------------------------------
(* build_context_text_within_budget.  A segment is a tool result or a chunk *)
(* with its weight, its label and its body.                                 *)

Rendered(segments, allocations) ==
  FlattenSeq([i \in DOMAIN segments |->
    segments[i].label \o trim_preserve_edges(segments[i].body, allocations[i])])

\* By weight, and six units for the least of them.
FirstAllocations(segments, max_tokens) ==
  LET labels == Total([i \in DOMAIN segments |-> Len(segments[i].label)])
      body_budget == AtLeast(max_tokens - labels, max_tokens \div 2)
      weight_sum == Total([i \in DOMAIN segments |-> segments[i].weight])
  IN  [i \in DOMAIN segments |->
         AtLeast(6 * Unit, (body_budget * segments[i].weight) \div weight_sum)]

\* One round of the loop that takes 15% off everybody who has more than three units.
Reduced(allocations) ==
  [i \in DOMAIN allocations |-> AtLeast(3 * Unit, (85 * allocations[i]) \div 100)]

build_context_text(segments, max_tokens) ==
  LET Round[k \in Nat] == IF k = 0 THEN FirstAllocations(segments, max_tokens)
                          ELSE Reduced(Round[k - 1])
      Enough(k) == \/ Len(Rendered(segments, Round[k])) <= max_tokens
                   \/ \A i \in DOMAIN segments : Round[k][i] <= 3 * Unit
      last == CHOOSE k \in 0 .. max_tokens + 6 * Unit :
                Enough(k) /\ \A j \in 0 .. k - 1 : ~Enough(j)
  IN  IF max_tokens <= 0 \/ segments = <<>> THEN <<>>
      ELSE Rendered(segments, Round[last])

\* What is left for the user prompt beside the system prompt and a reserve.
UserBudget(system_tokens, max_input_tokens) ==
  AtLeast(max_input_tokens - (system_tokens + 4 * Unit), 2 * Unit)

fit_llm_input(system_tokens, user_prompt, max_input_tokens) ==
  trim_preserve_edges(user_prompt, UserBudget(system_tokens, max_input_tokens))
=============================================================================
