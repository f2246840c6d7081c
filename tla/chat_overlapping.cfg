SPECIFICATION Spec
CONSTANTS
    Requests = {p1, p2}
    HotWindow = 1
    MaxOpen = 2
    LlmReplies = {"summary", "not json", "http error"}
INVARIANTS
    TurnsWithinAged
    QuestionInHistory
    DeletedStaysEmpty
    RewriterMissesOnlyLosses
PROPERTIES
    EveryMessageSettles
    LossesHaveACulprit
    SnapshotNeverForgets
