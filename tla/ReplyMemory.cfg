SPECIFICATION Spec
CONSTANTS
    None = None
    Absent = Absent
    Known = {k}
    Unknown = u
    Letters = {ab}
    Numbers = {n42}
    Padded = {}
    Added = {new}
    MaxMemories = 3
    MaxLines = 2
    MaxCalls = 2
INVARIANTS
    NamedAreGone
CHECK_DEADLOCK FALSE
