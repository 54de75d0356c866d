\* Two scripts, each of which may make its edit twice.
\* The scripts end.
SPECIFICATION Spec
CHECK_DEADLOCK FALSE
CONSTANTS
    Editors = {e1, e2}
    Keys = {"a", "b"}
    Aliases = {"live", "beta", "far"}
    FirstPage = {"live", "beta"}
    Edits <- MCEdits
    MaxTries = 2
SYMMETRY Symmetric
INVARIANTS
    RefusalIsFree
PROPERTIES
    OthersSurvive
    SuccessReachesTraffic
