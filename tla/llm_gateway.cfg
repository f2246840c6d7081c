SPECIFICATION LlmSpec
CONSTANTS
  Unit = 2
  MarkerSize = 1
  Inputs <- SomeInputs
  GroqMaxRetries = 9
  MaxInput = 130
  ContextBudget = 60
  RewriterBudget = 96
  DraftBudget = 24
  OneScore = 60
CHECK_DEADLOCK FALSE
INVARIANTS
  PromptFits
  QuestionIsSent
  EverySourceSent
  NewestMessagesSent
