SPECIFICATION Spec
CONSTANTS
    Conns = {c1, c2, c3}
    Pipelining = FALSE
SYMMETRY Symmetric
INVARIANTS ActiveIsOwned TrailIsClosed StoppedHasNoCommand RetiredIsWatched
CHECK_DEADLOCK FALSE
