SPECIFICATION Spec
CONSTANTS
    Modes = {"all", "best_only"}
    MaxTests = 2
    Figures = {0, 1}
    Backlog = 2
INVARIANTS
    LiveRunMatchesStored
    LiveResultsMatchStored
PROPERTIES
    EndIsFinal
CHECK_DEADLOCK FALSE
