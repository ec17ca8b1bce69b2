\* Two slots, three blocks and three clients: the pool fills up, a third
\* connection is refused, and blocks and slots are reused.  A client sends up to
\* three lines to a buffer of two, so heads may be too long and lines may follow
\* a complete head.
SPECIFICATION Spec
CONSTANTS
    MAX_CONN = 2
    MAX_HEAD_LEN = 2
    MAX_LINES = 3
    Blocks = {a1, a2, a3}
    Clients = {c1, c2, c3}
    Interrupted = FALSE
    NULL = NULL
SYMMETRY Symmetry
INVARIANT TypeOK
INVARIANT LookupFindsOwnSlot
INVARIANT NoSlotLeaks
PROPERTY ServesClients
\* The clients are finitely many and each connects once.
CHECK_DEADLOCK FALSE
