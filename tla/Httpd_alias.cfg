\* Two clients are enough: the second gets the block of the first.
SPECIFICATION Spec
CONSTANTS
    MAX_CONN = 2
    MAX_HEAD_LEN = 2
    MAX_LINES = 2
    Blocks = {a1, a2}
    Clients = {c1, c2}
    Interrupted = TRUE
    NULL = NULL
INVARIANT LookupFindsOwnSlot
\* The clients are finitely many and each connects once.
CHECK_DEADLOCK FALSE
