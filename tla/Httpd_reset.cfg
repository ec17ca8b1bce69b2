\* Connections may be reset; their blocks are freed and given to later clients.
SPECIFICATION Spec
CONSTANTS
    MAX_CONN = 2
    MAX_HEAD_LEN = 2
    MAX_LINES = 2
    Blocks = {a1, a2}
    Clients = {c1, c2, c3}
    Interrupted = TRUE
    NULL = NULL
SYMMETRY Symmetry
INVARIANT AcceptedHasSlot
\* The clients are finitely many and each connects once.
CHECK_DEADLOCK FALSE
