SPECIFICATION Spec
CONSTANTS
    Drafts <- MCDrafts
    Paths <- MCPaths
    Replacements <- MCReplacements
    MaxDepth = 3
    MaxSize = 30
    MaxBytes = 50
    MaxEdits = 1
    MaxRevisions = 2
    MaxLines = 9
    MaxRows = 5
    Context = 1
PROPERTIES
    DiffIsAccepted
    DiffRebuilds
    DiffBounded
    EditIsLocal
    EditUndone
    EditKeepsValid
CHECK_DEADLOCK FALSE
