CONSTANTS
    Bases = {1, 2}
    NoBase = NoBase
    MaxCommands = 3
SPECIFICATION MCSpec
INVARIANT ShownDocumentsAreSelected
CHECK_DEADLOCK FALSE
