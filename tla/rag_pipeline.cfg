SPECIFICATION Spec
CONSTANTS
    MaxRetries = 3
    Tools = {mcp, web}
    WebSearch = web
INVARIANTS
    WarningIffExhausted
    CitationsMatchDraft
    TraceRowsAgree
PROPERTIES
    ImplementsSelfCorrection
    RunTerminates
