SPECIFICATION Spec
CONSTANTS
    WordSize = 6400
    MaxTime = 4
    Deadline = {0, 1, 2, 4}
    TickNs = 1000
    DropStale = FALSE
INVARIANT
    NotEarly
