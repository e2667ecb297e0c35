SPECIFICATION EditorSpec
CONSTANTS
    MaxEdits = 2
    MaxMishaps = 1
CHECK_DEADLOCK FALSE
INVARIANT WorkIsSaved
