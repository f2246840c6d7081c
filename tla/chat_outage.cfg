SPECIFICATION Spec
CONSTANTS
    Requests = {p1, p2}
    HotWindow = 1
    MaxOpen = 1
    LlmReplies = {"summary", "not json", "http error"}
INVARIANT RewriterSeesWholeChat
