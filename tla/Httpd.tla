------------------------------- MODULE Httpd -------------------------------
(***************************************************************************)
(* The HTTP connection pool of src/user/server.c and the espconn callbacks *)
(* that drive it.  The SDK is single threaded: each callback runs to its   *)
(* end before the next one starts, so a callback is one action.            *)
(*                                                                         *)
(* Bytes are abstracted to the lines they make up: the receive loop keeps  *)
(* no state between two calls but the slot's, so a segment of several      *)
(* lines behaves as its lines received one after the other, and a line cut *)
(* in two as one line received with its last byte.  MAX_HEAD_LEN therefore *)
(* counts lines.                                                           *)
(*                                                                         *)
(* The espconn library is external.  It allocates one control block per    *)
(* connection and passes its address to the callbacks; blocks are reused.  *)
(* With Interrupted = TRUE a connection may also end by the reconnect      *)
(* callback, which frees the block "under our noses" (server.c:376-379).   *)
(***************************************************************************)
EXTENDS Integers, Sequences, FiniteSets

CONSTANTS
    MAX_CONN,       \* slots of the pool
    MAX_HEAD_LEN,   \* lines a slot's head buffer holds
    MAX_LINES,      \* bound: lines one client sends
    Blocks,         \* addresses of espconn control blocks
    Clients,        \* the clients, one connection each
    Interrupted,    \* whether connections may be reset
    NULL            \* the null pointer

ASSUME PoolAssumption ==
    /\ MAX_CONN \in Nat \ {0}
    /\ MAX_HEAD_LEN \in Nat
    /\ MAX_LINES \in Nat
    /\ Interrupted \in BOOLEAN

ASSUME NullAssumption ==
    /\ NULL \notin Blocks
    /\ NULL \notin Clients
    /\ NULL \notin Int

VARIABLES
    conn,           \* [Slots -> Blocks or NULL], gServerConnData[i].conn
    postLen,        \* [Slots -> {-1, 0}], -1 while the head is being received
    head,           \* [Slots -> lines], connPrivData[i].head up to headPos
    block,          \* [Blocks -> "free", "open" or "closing"], in the SDK
    peer,           \* [Blocks -> Clients or NULL], whose connection it is
    unsent,         \* [Blocks -> Nat], sent callbacks the SDK still owes
    lines,          \* [Clients -> Nat], lines the client has sent
    given,          \* [Clients -> the pool index found at connect, or NULL]
    ran             \* [Clients -> the heads executed on its connection, each
                    \*             one the set of its lines that were commands]

pool == <<conn, postLen, head>>
sdk == <<block, peer, unsent>>
vars == <<conn, postLen, head, block, peer, unsent, lines, given, ran>>

Slots == 0..(MAX_CONN - 1)

\* A line's URL asks, in the first field that getValue finds, for a command that
\* replies or for one that does not (initialize, or none of the table); or the
\* line is a header field, or empty.
Kinds == {"reply", "silent", "field", "blank"}
Commands == {"reply", "silent"}

Line == [from : Clients, nr : 1..MAX_LINES, kind : Kinds]

-----------------------------------------------------------------------------
(* Scans of the pool, from slot 0 upwards. *)

IsFirst(i, S) == i \in S /\ \A j \in S : i <= j

Holding(a) == {i \in Slots : conn[i] = a}

\* httpdFindConnData: the first slot that holds the block, or NULL.
FindConnData(a) ==
    IF Holding(a) = {} THEN NULL ELSE CHOOSE i \in Slots : IsFirst(i, Holding(a))

\* httpdConnectCb's scan: the first free slot, or MAX_CONN.
FreeSlot ==
    IF Holding(NULL) = {} THEN MAX_CONN
    ELSE CHOOSE i \in Slots : IsFirst(i, Holding(NULL))

\* The callbacks are registered only on a connection that got a slot.
Watched(a) == peer[a] # NULL /\ given[peer[a]] # MAX_CONN

-----------------------------------------------------------------------------
Init ==
    /\ conn = [i \in Slots |-> NULL]
    /\ postLen = [i \in Slots |-> 0]
    /\ head = [i \in Slots |-> <<>>]
    /\ block = [a \in Blocks |-> "free"]
    /\ peer = [a \in Blocks |-> NULL]
    /\ unsent = [a \in Blocks |-> 0]
    /\ lines = [c \in Clients |-> 0]
    /\ given = [c \in Clients |-> NULL]
    /\ ran = [c \in Clients |-> <<>>]

\* Mutant: headPos is not reset, the slot keeps what an earlier client sent.
AcceptKeepingHead(a, i) ==
    /\ conn' = [conn EXCEPT ![i] = a]
    /\ postLen' = [postLen EXCEPT ![i] = -1]
    /\ block' = [block EXCEPT ![a] = "open"]
    /\ UNCHANGED head

Accept(a, i) ==
    /\ conn' = [conn EXCEPT ![i] = a]
    /\ postLen' = [postLen EXCEPT ![i] = -1]
    /\ head' = [head EXCEPT ![i] = <<>>]
    /\ block' = [block EXCEPT ![a] = "open"]

Overflow(a) ==
    /\ block' = [block EXCEPT ![a] = "closing"]
    /\ UNCHANGED pool

\* httpdConnectCb: client c connects, the SDK gave the connection block a.
Connect(c, a) ==
    /\ given[c] = NULL
    /\ block[a] = "free"
    /\ given' = [given EXCEPT ![c] = FreeSlot]
    /\ peer' = [peer EXCEPT ![a] = c]
    /\ IF FreeSlot = MAX_CONN THEN Overflow(a) ELSE Accept(a, FreeSlot)
    /\ UNCHANGED <<unsent, lines, ran>>

\* An empty line after another line: CR LF CR LF is in the buffer.
Complete(h) == \E j \in 2..Len(h) : h[j].kind = "blank"

\* The lines of h that ServerParseHeaderURL hands to the command table.
Executed(h) == {h[j] : j \in {k \in 1..Len(h) : h[k].kind \in Commands}}

\* Each command that replies fills the send buffer and hands it to espconn_sent;
\* xmitSendBuff empties the buffer, so the next command starts a reply of its own.
Replies(h) == Cardinality({k \in 1..Len(h) : h[k].kind = "reply"})

\* A full buffer drops what does not fit.
Store(h, line) == IF Len(h) # MAX_HEAD_LEN THEN Append(h, line) ELSE h

\* Mutants: the end of the head is not recorded; a body is waited for.
HeadDoneForgotten(i) == UNCHANGED postLen
HeadDoneWithBody(i) == postLen' = [postLen EXCEPT ![i] = 1]

HeadDone(i) == postLen' = [postLen EXCEPT ![i] = 0]

\* The body of httpdRecvCb's loop for slot i, serving the connection a.
Parse(i, a, line) ==
    LET h == Store(head[i], line)
    IN  /\ head' = [head EXCEPT ![i] = h]
        /\ IF Complete(h)
           THEN /\ HeadDone(i)
                /\ ran' = [ran EXCEPT ![peer[a]] = Append(@, Executed(h))]
                /\ unsent' = [unsent EXCEPT ![a] = @ + Replies(h)]
           ELSE UNCHANGED <<postLen, ran, unsent>>

\* httpdRecvCb: after the head, postLen is 0 and the data is ignored.
Receive(a, kind) ==
    LET c == peer[a]
        i == FindConnData(a)
    IN  /\ block[a] = "open"
        /\ Watched(a)
        /\ lines[c] < MAX_LINES
        /\ lines' = [lines EXCEPT ![c] = @ + 1]
        /\ IF i # NULL /\ postLen[i] < 0
           THEN Parse(i, a, [from |-> c, nr |-> lines[c] + 1, kind |-> kind])
           ELSE UNCHANGED <<postLen, head, ran, unsent>>
        /\ UNCHANGED <<conn, block, peer, given>>

\* httpdSentCb: disconnect and retire the slot; nothing if there is none.
Sent(a) ==
    LET i == FindConnData(a)
    IN  /\ unsent[a] > 0
        /\ unsent' = [unsent EXCEPT ![a] = @ - 1]
        /\ IF i # NULL
           THEN /\ conn' = [conn EXCEPT ![i] = NULL]
                /\ block' = [block EXCEPT ![a] = "closing"]
           ELSE UNCHANGED <<conn, block>>
        /\ UNCHANGED <<postLen, head, peer, lines, given, ran>>

\* The client closes the connection, or the SDK's idle timeout does.
PeerClose(a) ==
    /\ block[a] = "open"
    /\ block' = [block EXCEPT ![a] = "closing"]
    /\ UNCHANGED <<pool, peer, unsent, lines, given, ran>>

\* Mutants: the callback's argument is trusted, which is the listening socket's
\* block, so no slot is found (the code under #if 0); any slot is cleared.
MustClearByArgument(a) == {}
MayClearAny == {i \in Slots : conn[i] # NULL}

\* httpdDisconCb looks at the state of the block of every slot: it is CLOSE
\* in the block that has just closed, it is neither NONE nor CLOSE in an open
\* one, and it is anything in one that is closing or whose memory was freed.
MustClear(a) == Holding(a)
MayClear == {i \in Slots : conn[i] # NULL /\ block[conn[i]] # "open"}

CloseDone(a) ==
    /\ block[a] = "closing"
    /\ block' = [block EXCEPT ![a] = "free"]
    /\ peer' = [peer EXCEPT ![a] = NULL]
    /\ unsent' = [unsent EXCEPT ![a] = 0]
    /\ IF Watched(a)
       THEN \E D \in SUBSET MayClear :
                /\ MustClear(a) \subseteq D
                /\ conn' = [i \in Slots |-> IF i \in D THEN NULL ELSE conn[i]]
       ELSE UNCHANGED conn
    /\ UNCHANGED <<postLen, head, lines, given, ran>>

\* httpdReconCb: the connection was reset; the callback leaves the slot as it
\* is and the SDK frees the block.
Abort(a) ==
    /\ Interrupted
    /\ block[a] # "free"
    /\ block' = [block EXCEPT ![a] = "free"]
    /\ peer' = [peer EXCEPT ![a] = NULL]
    /\ unsent' = [unsent EXCEPT ![a] = 0]
    /\ UNCHANGED <<pool, lines, given, ran>>

Next ==
    \/ \E c \in Clients, a \in Blocks : Connect(c, a)
    \/ \E a \in Blocks, kind \in Kinds : Receive(a, kind)
    \/ \E a \in Blocks : Sent(a)
    \/ \E a \in Blocks : PeerClose(a)
    \/ \E a \in Blocks : CloseDone(a)
    \/ \E a \in Blocks : Abort(a)

Spec == Init /\ [][Next]_vars

-----------------------------------------------------------------------------
TypeOK ==
    /\ conn \in [Slots -> Blocks \cup {NULL}]
    /\ postLen \in [Slots -> {-1, 0}]
    /\ head \in [Slots -> Seq(Line)]
    /\ block \in [Blocks -> {"free", "open", "closing"}]
    /\ peer \in [Blocks -> Clients \cup {NULL}]
    /\ unsent \in [Blocks -> Nat]
    /\ lines \in [Clients -> 0..MAX_LINES]
    /\ given \in [Clients -> (0..MAX_CONN) \cup {NULL}]
    /\ ran \in [Clients -> Seq(SUBSET Line)]

Served(a) == block[a] = "open" /\ Watched(a)

\* "Looks up the connData info for a specific esp connection" (server.c:129):
\* the callbacks of an open connection work on the slot it got at connect.
LookupFindsOwnSlot ==
    \A a \in Blocks : Served(a) => FindConnData(a) = given[peer[a]]

\* Even when connections are reset, the callbacks of an accepted connection
\* that is still open find some slot: data is never received into none
\* (httpdRecvCb's early return is for connections that are going down).
AcceptedHasSlot ==
    \A a \in Blocks : Served(a) => FindConnData(a) # NULL

\* Unless a connection is reset, no slot leaks: a slot that is taken is the one
\* its connection was given, and the SDK still has that connection.  The slots
\* of a client that never sends a complete head, gets no reply or goes away are
\* therefore all given back, at the latest when the SDK closes the connection.
NoSlotLeaks ==
    \A i \in Slots :
        conn[i] # NULL => block[conn[i]] # "free" /\ given[peer[conn[i]]] = i

\* How the pool implements ConnService: a client is held while the slot it was
\* given still holds the block of its connection.
Holds(c) == \E a \in Blocks : peer[a] = c /\ given[c] \in Slots /\ conn[given[c]] = a

Phase(c) ==
    IF given[c] = NULL THEN "idle"
    ELSE IF given[c] = MAX_CONN THEN "refused"
    ELSE IF Holds(c) THEN "held" ELSE "over"

Service == INSTANCE ConnService WITH
               Lines <- Line, Capacity <- MAX_CONN,
               phase <- [c \in Clients |-> Phase(c)], executed <- ran

\* The pool serves as ConnService says: it turns a connection away only while
\* MAX_CONN others are held, executes the head of a connection at most once,
\* executes no line of another client, and never resumes a finished connection.
ServesClients == Service!Spec

=============================================================================
