\* Two execute_code calls with two concurrent tool calls each, one of a long-running tool,
\* and one name for the file in the workspace and the artifact.
CONSTANTS
    Calls = {c1, c2}
    Files = {f1}
    MaxVersion = 2
    NCallbacks = 2
    LongRunning = {c2}
    NBlocks = 2
    CallBlocks = {1}
    Contents = {"v1", "v2"}
SPECIFICATION ResultsSpec
INVARIANTS
    ResultsTypeOK
    EffectsMatchAnswers
    CallbacksGuard
    ChangesSaved
    ReportsOwnChanges
    HookSeesDelta
