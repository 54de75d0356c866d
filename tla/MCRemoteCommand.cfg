SPECIFICATION StageSpec
CONSTANTS
    Codes <- MCCodes
    Drain = 1
    Faults = TRUE
    ScriptLines <- MCScriptLines
    ScriptCodes <- MCScriptCodes
    MaxLines = 1
    MaxStreamed = 1
    InlineCap = 2
    TailLines = 1
    Attempts = 2
    Grace = 1
    LeftBehind <- MCLeftBehind
    MaxBeats = 1
INVARIANTS
    SuccessIsReal
    NothingIsLost
    KillIsNamed
PROPERTY
    StageEnds
CHECK_DEADLOCK FALSE
