---------------------------- MODULE MCLlmGateway ----------------------------
(***************************************************************************)
(* LlmGateway with a unit an eighth of the code's, budgets of a size that  *)
(* suits it, and arguments on both sides of each of them.                  *)
(***************************************************************************)
EXTENDS LlmGateway

Nothing == [role |-> "other", system |-> 1, query |-> 3, tools |-> <<>>, chunks |-> <<>>,
            messages |-> <<>>, snapshot |-> 0, feedback |-> 0, draft |-> 0]

Chunk(score, size) == [score |-> score, size |-> size]

SomeChunks == {
  <<>>,                                                \* no context
  <<Chunk(30, 8), Chunk(0, 3)>>,                       \* all fit
  <<Chunk(30, 90), Chunk(10, 40), Chunk(0, 70)>>,      \* shortened by weight
  [n \in 1 .. 10 |-> Chunk(60 - n, 20)] }              \* more labels than budget

Drafts == { [Nothing EXCEPT !.role = r, !.chunks = c, !.tools = t, !.draft = d, !.system = s] :
            r \in {"drafter", "judge"}, c \in SomeChunks, t \in {<<>>, <<40>>},
            d \in {4, 50}, s \in {1, 90} }

Rewrites == { [Nothing EXCEPT !.role = "rewriter", !.messages = m, !.snapshot = s, !.feedback = f] :
              m \in {<<>>, <<5, 7>>, <<3, 40, 6>>, <<9, 20, 46>>, <<4, 60>>},
              s \in {1, 50}, f \in {0, 40} }

\* A long question, one with a long system prompt, and a plain one.
Questions == { Nothing, [Nothing EXCEPT !.query = 200], [Nothing EXCEPT !.system = 140] }

SomeInputs == { i \in Drafts : i.role = "judge" \/ i.draft = 4 } \cup Rewrites \cup Questions
=============================================================================
