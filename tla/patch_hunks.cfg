CONSTANTS
    Lines = {"a", "b"}
    MaxFile = 3
    MaxHunk = 2
    MaxHunks = 2
SPECIFICATION Spec
INVARIANT OnlyNamedLinesChange
CHECK_DEADLOCK FALSE
