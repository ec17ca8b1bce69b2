----------------------------- MODULE HttpdProofs -----------------------------
(***************************************************************************)
(* Proofs about the connection pool for every number of slots, blocks,     *)
(* clients and lines.  TypeCorrect types the state; AcceptedAlwaysHasSlot  *)
(* holds even when connections are reset; LookupCorrect and PoolNeverLeaks *)
(* need that they are not.  PoolImplementsService: each initial state of   *)
(* the pool is one of ConnService, and each callback is an admission, a    *)
(* refusal, the execution of a head, or gives up some connections.         *)
(***************************************************************************)
EXTENDS Httpd, FiniteSetTheorems, Recursion

\* A scan of the pool that has something to find finds a first slot.
LEMMA ScanFinds ==
    ASSUME NEW S \in SUBSET Slots, S # {}
    PROVE  \E i \in Slots : IsFirst(i, S)
<1>1. S \in SUBSET Nat
    BY PoolAssumption DEF Slots
<1>2. PICK i \in S : \A j \in S : i <= j
    BY <1>1, LeastNumber
<1>3. \A j \in S : ~ (j < i)
    BY <1>1, <1>2
<1>. QED BY <1>1, <1>3 DEF IsFirst

\* httpdConnectCb's scan returns a pool index or MAX_CONN, and an index it
\* returns is that of a free slot; at MAX_CONN every slot is taken.
LEMMA FreeSlotIsFree ==
    /\ FreeSlot \in 0..MAX_CONN
    /\ FreeSlot # MAX_CONN => FreeSlot \in Slots /\ conn[FreeSlot] = NULL
    /\ FreeSlot = MAX_CONN => \A i \in Slots : conn[i] # NULL
<1>1. CASE Holding(NULL) = {}
    BY <1>1, PoolAssumption DEF FreeSlot, Holding
<1>2. CASE Holding(NULL) # {}
    <2>1. Holding(NULL) \in SUBSET Slots
        BY DEF Holding
    <2>2. FreeSlot \in Slots /\ IsFirst(FreeSlot, Holding(NULL))
        BY <1>2, <2>1, ScanFinds DEF FreeSlot
    <2>. QED BY <2>2, PoolAssumption DEF IsFirst, Holding, Slots
<1>. QED BY <1>1, <1>2

\* httpdFindConnData returns NULL only if no slot holds the block, and
\* otherwise a slot that does.
LEMMA FoundHolds ==
    ASSUME NEW a
    PROVE  /\ FindConnData(a) # NULL => /\ FindConnData(a) \in Slots
                                       /\ conn[FindConnData(a)] = a
           /\ FindConnData(a) = NULL <=> \A i \in Slots : conn[i] # a
<1>1. CASE Holding(a) = {}
    BY <1>1 DEF FindConnData, Holding
<1>2. CASE Holding(a) # {}
    <2>1. Holding(a) \in SUBSET Slots
        BY DEF Holding
    <2>2. FindConnData(a) \in Slots /\ IsFirst(FindConnData(a), Holding(a))
        BY <1>2, <2>1, ScanFinds DEF FindConnData
    <2>3. FindConnData(a) # NULL
        BY <2>2, NullAssumption DEF Slots
    <2>. QED BY <2>2, <2>3 DEF IsFirst, Holding
<1>. QED BY <1>1, <1>2

\* What a head executes are lines of it, and its replies can be counted.
LEMMA HeadTypes ==
    ASSUME NEW h \in Seq(Line)
    PROVE  Executed(h) \in SUBSET Line /\ Replies(h) \in Nat
<1>1. Executed(h) \in SUBSET Line
    BY DEF Executed
<1>2. Replies(h) \in Nat
    <2>1. IsFiniteSet(1..Len(h))
        BY FS_Interval
    <2>2. IsFiniteSet({k \in 1..Len(h) : h[k].kind = "reply"})
        BY <2>1, FS_Subset
    <2>. QED BY <2>2, FS_CardinalityType DEF Replies
<1>. QED BY <1>1, <1>2

LEMMA TypeInit == Init => TypeOK
BY NullAssumption, PoolAssumption DEF Init, TypeOK

LEMMA TypeParse ==
    ASSUME TypeOK, NEW i \in Slots, NEW a \in Blocks, NEW line \in Line,
           peer[a] \in Clients, Parse(i, a, line)
    PROVE  /\ postLen' \in [Slots -> {-1, 0}]
           /\ head' \in [Slots -> Seq(Line)]
           /\ unsent' \in [Blocks -> Nat]
           /\ ran' \in [Clients -> Seq(SUBSET Line)]
<1> DEFINE h == Store(head[i], line)
<1>1. h \in Seq(Line)
    BY DEF TypeOK, Store
<1>2. Executed(h) \in SUBSET Line /\ Replies(h) \in Nat
    BY <1>1, HeadTypes
<1>3. head' = [head EXCEPT ![i] = h]
    BY DEF Parse
<1>4. CASE Complete(h)
    <2>1. /\ postLen' = [postLen EXCEPT ![i] = 0]
          /\ ran' = [ran EXCEPT ![peer[a]] = Append(@, Executed(h))]
          /\ unsent' = [unsent EXCEPT ![a] = @ + Replies(h)]
        BY <1>4 DEF Parse, HeadDone
    <2>. HIDE DEF h
    <2>. QED BY <1>1, <1>2, <1>3, <2>1 DEF TypeOK
<1>5. CASE ~Complete(h)
    <2>1. UNCHANGED <<postLen, ran, unsent>>
        BY <1>5 DEF Parse
    <2>. HIDE DEF h
    <2>. QED BY <1>1, <1>3, <2>1 DEF TypeOK
<1>. QED BY <1>4, <1>5

LEMMA TypeNext == TypeOK /\ [Next]_vars => TypeOK'
<1>. SUFFICES ASSUME TypeOK, [Next]_vars PROVE TypeOK'
    OBVIOUS
<1>1. ASSUME NEW c \in Clients, NEW a \in Blocks, Connect(c, a) PROVE TypeOK'
    <2>1. CASE FreeSlot = MAX_CONN
        BY <1>1, <2>1, FreeSlotIsFree, PoolAssumption DEF Connect, Overflow, pool, TypeOK
    <2>2. CASE FreeSlot # MAX_CONN
        <3>1. FreeSlot \in Slots
            BY <2>2, FreeSlotIsFree
        <3>2. FreeSlot \in 0..MAX_CONN
            BY FreeSlotIsFree
        <3>3. Accept(a, FreeSlot)
            BY <1>1, <2>2 DEF Connect
        <3>. QED BY <1>1, <3>1, <3>2, <3>3 DEF Connect, Accept, TypeOK
    <2>. QED BY <2>1, <2>2
<1>2. ASSUME NEW a \in Blocks, NEW kind \in Kinds, Receive(a, kind) PROVE TypeOK'
    <2> DEFINE c == peer[a]
               i == FindConnData(a)
               line == [from |-> c, nr |-> lines[c] + 1, kind |-> kind]
    <2>1. c \in Clients /\ lines[c] \in 0..MAX_LINES /\ lines[c] < MAX_LINES
        BY <1>2 DEF Receive, Watched, TypeOK
    <2>2. lines[c] + 1 \in 1..MAX_LINES
        BY <2>1, PoolAssumption
    <2>3. line \in Line
        BY <2>1, <2>2 DEF Line
    <2>4. lines' \in [Clients -> 0..MAX_LINES]
        BY <1>2, <2>1, <2>2 DEF Receive, TypeOK
    <2>5. /\ postLen' \in [Slots -> {-1, 0}]
          /\ head' \in [Slots -> Seq(Line)]
          /\ unsent' \in [Blocks -> Nat]
          /\ ran' \in [Clients -> Seq(SUBSET Line)]
        <3>1. CASE i # NULL /\ postLen[i] < 0
            <4>1. i \in Slots
                BY <3>1, FoundHolds
            <4>2. Parse(i, a, line)
                BY <1>2, <3>1 DEF Receive
            <4>. HIDE DEF i, line
            <4>. QED BY <2>1, <2>3, <4>1, <4>2, TypeParse
        <3>2. CASE ~ (i # NULL /\ postLen[i] < 0)
            BY <1>2, <3>2 DEF Receive, TypeOK
        <3>. QED BY <3>1, <3>2
    <2>. QED BY <1>2, <2>4, <2>5 DEF Receive, TypeOK
<1>3. ASSUME NEW a \in Blocks, Sent(a) PROVE TypeOK'
    <2>1. unsent' \in [Blocks -> Nat]
        BY <1>3 DEF Sent, TypeOK
    <2>. QED BY <1>3, <2>1 DEF Sent, TypeOK
<1>4. ASSUME NEW a \in Blocks, PeerClose(a) PROVE TypeOK'
    BY <1>4 DEF PeerClose, pool, TypeOK
<1>5. ASSUME NEW a \in Blocks, CloseDone(a) PROVE TypeOK'
    <2>1. conn' \in [Slots -> Blocks \cup {NULL}]
        BY <1>5 DEF CloseDone, TypeOK
    <2>. QED BY <1>5, <2>1 DEF CloseDone, TypeOK
<1>6. ASSUME NEW a \in Blocks, Abort(a) PROVE TypeOK'
    BY <1>6 DEF Abort, pool, TypeOK
<1>7. CASE UNCHANGED vars
    BY <1>7 DEF vars, TypeOK
<1>. QED BY <1>1, <1>2, <1>3, <1>4, <1>5, <1>6, <1>7 DEF Next

\* The pool, the SDK's view of it and the history keep their types: in
\* particular no scan ever leaves the pool.
THEOREM TypeCorrect == Spec => []TypeOK
BY TypeInit, TypeNext, PTL DEF Spec

-----------------------------------------------------------------------------
(* Even when connections are reset. *)

\* What AcceptedHasSlot says, without the order of the scan.
HasSlot == \A a \in Blocks : Served(a) => \E i \in Slots : conn[i] = a

LEMMA HasSlotInit == Init => HasSlot
BY DEF Init, HasSlot, Served

LEMMA HasSlotNext == TypeOK /\ HasSlot /\ [Next]_vars => HasSlot'
<1>. SUFFICES ASSUME TypeOK, HasSlot, [Next]_vars, NEW b \in Blocks, Served(b)'
              PROVE  \E i \in Slots : conn'[i] = b
    BY DEF HasSlot
<1>1. ASSUME NEW c \in Clients, NEW a \in Blocks, Connect(c, a)
      PROVE  \E i \in Slots : conn'[i] = b
    <2>1. CASE FreeSlot = MAX_CONN
        <3>1. b # a
            BY <1>1, <2>1 DEF Connect, Overflow, Served, TypeOK
        <3>2. Served(b)
            BY <1>1, <2>1, <3>1, NullAssumption, PoolAssumption
               DEF Connect, Overflow, Served, Watched, TypeOK
        <3>. QED BY <1>1, <2>1, <3>2 DEF Connect, Overflow, pool, HasSlot
    <2>2. CASE FreeSlot # MAX_CONN
        <3>1. FreeSlot \in Slots /\ conn[FreeSlot] = NULL
            BY <2>2, FreeSlotIsFree
        <3>2. conn' = [conn EXCEPT ![FreeSlot] = a]
            BY <1>1, <2>2 DEF Connect, Accept
        <3>3. CASE b = a
            BY <3>1, <3>2, <3>3 DEF TypeOK
        <3>4. CASE b # a
            <4>1. Served(b)
                BY <1>1, <2>2, <3>4, NullAssumption, PoolAssumption
                   DEF Connect, Accept, Served, Watched, TypeOK
            <4>. QED BY <3>1, <3>2, <4>1, NullAssumption DEF HasSlot, TypeOK
        <3>. QED BY <3>3, <3>4
    <2>. QED BY <2>1, <2>2
<1>2. ASSUME NEW a \in Blocks, NEW kind \in Kinds, Receive(a, kind)
      PROVE  \E i \in Slots : conn'[i] = b
    BY <1>2 DEF Receive, Served, Watched, HasSlot
<1>3. ASSUME NEW a \in Blocks, Sent(a) PROVE \E i \in Slots : conn'[i] = b
    <2>1. CASE FindConnData(a) = NULL
        BY <1>3, <2>1 DEF Sent, Served, Watched, HasSlot
    <2>2. CASE FindConnData(a) # NULL
        <3>1. FindConnData(a) \in Slots /\ conn[FindConnData(a)] = a
            BY <2>2, FoundHolds
        <3>2. /\ conn' = [conn EXCEPT ![FindConnData(a)] = NULL]
              /\ block' = [block EXCEPT ![a] = "closing"]
              /\ UNCHANGED <<peer, given>>
            BY <1>3, <2>2 DEF Sent
        <3>3. b # a /\ Served(b)
            BY <3>2 DEF Served, Watched, TypeOK
        <3>. QED BY <3>1, <3>2, <3>3 DEF HasSlot, TypeOK
    <2>. QED BY <2>1, <2>2
<1>4. ASSUME NEW a \in Blocks, PeerClose(a) PROVE \E i \in Slots : conn'[i] = b
    BY <1>4 DEF PeerClose, pool, Served, Watched, HasSlot, TypeOK
<1>5. ASSUME NEW a \in Blocks, CloseDone(a) PROVE \E i \in Slots : conn'[i] = b
    <2>1. block[b] = "open" /\ Served(b)
        BY <1>5 DEF CloseDone, Served, Watched, TypeOK
    <2>2. PICK i \in Slots : conn[i] = b
        BY <2>1 DEF HasSlot
    <2>3. i \notin MayClear
        BY <2>1, <2>2 DEF MayClear
    <2>. QED BY <1>5, <2>2, <2>3 DEF CloseDone
<1>6. ASSUME NEW a \in Blocks, Abort(a) PROVE \E i \in Slots : conn'[i] = b
    BY <1>6 DEF Abort, pool, Served, Watched, HasSlot, TypeOK
<1>7. CASE UNCHANGED vars
    BY <1>7 DEF vars, Served, Watched, HasSlot
<1>. QED BY <1>1, <1>2, <1>3, <1>4, <1>5, <1>6, <1>7 DEF Next

\* httpdRecvCb and httpdSentCb always find a slot for an accepted connection
\* that is still open, whatever resets and reuse of control blocks came before.
THEOREM AcceptedAlwaysHasSlot == Spec => []AcceptedHasSlot
<1>1. HasSlot => AcceptedHasSlot
    BY FoundHolds DEF HasSlot, AcceptedHasSlot
<1>. QED BY <1>1, TypeInit, TypeNext, HasSlotInit, HasSlotNext, PTL DEF Spec

-----------------------------------------------------------------------------
(* When no connection is reset. *)

\* A slot's block is allocated to a connection that was given that slot.
SlotIsGiven ==
    \A i \in Slots : conn[i] # NULL =>
        peer[conn[i]] # NULL /\ given[peer[conn[i]]] = i

\* An open connection was accepted and still has the slot it was given.
OpenHoldsItsSlot ==
    \A a \in Blocks : block[a] = "open" =>
        /\ peer[a] # NULL
        /\ given[peer[a]] \in Slots
        /\ conn[given[peer[a]]] = a

\* A block is in use by a client that has connected, or free.
BlockHasPeer ==
    \A a \in Blocks :
        /\ block[a] = "free" <=> peer[a] = NULL
        /\ peer[a] # NULL => given[peer[a]] # NULL

\* The inductive invariant behind LookupFindsOwnSlot.
PoolInv == SlotIsGiven /\ OpenHoldsItsSlot /\ BlockHasPeer

LEMMA PoolInvInit == Init => PoolInv
BY DEF Init, PoolInv, SlotIsGiven, OpenHoldsItsSlot, BlockHasPeer

LEMMA PoolInvConnect ==
    ASSUME TypeOK, PoolInv, NEW c \in Clients, NEW a \in Blocks, Connect(c, a)
    PROVE  PoolInv'
<1>1. peer[a] = NULL /\ \A b \in Blocks : peer[b] # c
    BY NullAssumption DEF Connect, PoolInv, BlockHasPeer
<1>2. \A i \in Slots : conn[i] # a
    BY <1>1, NullAssumption DEF PoolInv, SlotIsGiven
<1>3. /\ peer' = [peer EXCEPT ![a] = c]
      /\ given' = [given EXCEPT ![c] = FreeSlot]
    BY DEF Connect
<1>4. FreeSlot \in 0..MAX_CONN /\ FreeSlot # NULL
    BY FreeSlotIsFree, NullAssumption, PoolAssumption
<1>5. CASE FreeSlot = MAX_CONN
    <2>1. block' = [block EXCEPT ![a] = "closing"] /\ conn' = conn
        BY <1>5 DEF Connect, Overflow, pool
    <2>2. SlotIsGiven'
        BY <1>1, <1>2, <1>3, <2>1 DEF PoolInv, SlotIsGiven, TypeOK
    <2>3. OpenHoldsItsSlot'
        BY <1>1, <1>3, <2>1 DEF PoolInv, OpenHoldsItsSlot, TypeOK
    <2>4. BlockHasPeer'
        BY <1>1, <1>3, <1>4, <2>1, NullAssumption DEF PoolInv, BlockHasPeer, TypeOK
    <2>. QED BY <2>2, <2>3, <2>4 DEF PoolInv
<1>6. CASE FreeSlot # MAX_CONN
    <2>1. FreeSlot \in Slots /\ conn[FreeSlot] = NULL
        BY <1>6, FreeSlotIsFree
    <2>2. /\ block' = [block EXCEPT ![a] = "open"]
          /\ conn' = [conn EXCEPT ![FreeSlot] = a]
        BY <1>6 DEF Connect, Accept
    <2>3. SlotIsGiven'
        BY <1>1, <1>2, <1>3, <2>1, <2>2, NullAssumption DEF PoolInv, SlotIsGiven, TypeOK
    <2>4. OpenHoldsItsSlot'
        BY <1>1, <1>3, <2>1, <2>2, NullAssumption DEF PoolInv, OpenHoldsItsSlot, TypeOK
    <2>5. BlockHasPeer'
        BY <1>1, <1>3, <1>4, <2>2, NullAssumption DEF PoolInv, BlockHasPeer, TypeOK
    <2>. QED BY <2>3, <2>4, <2>5 DEF PoolInv
<1>. QED BY <1>5, <1>6

LEMMA PoolInvSent ==
    ASSUME TypeOK, PoolInv, NEW a \in Blocks, Sent(a)
    PROVE  PoolInv'
<1>1. CASE FindConnData(a) = NULL
    BY <1>1 DEF Sent, PoolInv, SlotIsGiven, OpenHoldsItsSlot, BlockHasPeer
<1>2. CASE FindConnData(a) # NULL
    <2>1. FindConnData(a) \in Slots /\ conn[FindConnData(a)] = a
        BY <1>2, FoundHolds
    <2>2. /\ conn' = [conn EXCEPT ![FindConnData(a)] = NULL]
          /\ block' = [block EXCEPT ![a] = "closing"]
          /\ UNCHANGED <<peer, given>>
        BY <1>2 DEF Sent
    <2>3. peer[a] # NULL
        BY <2>1, NullAssumption DEF PoolInv, SlotIsGiven
    <2>4. SlotIsGiven'
        BY <2>1, <2>2 DEF PoolInv, SlotIsGiven, TypeOK
    <2>5. OpenHoldsItsSlot'
        BY <2>1, <2>2 DEF PoolInv, OpenHoldsItsSlot, TypeOK
    <2>6. BlockHasPeer'
        BY <2>2, <2>3 DEF PoolInv, BlockHasPeer, TypeOK
    <2>. QED BY <2>4, <2>5, <2>6 DEF PoolInv
<1>. QED BY <1>1, <1>2

\* When a block is freed no slot holds it any more: its own slots are cleared
\* by the callback, and a refused connection never had one.
LEMMA PoolInvCloseDone ==
    ASSUME TypeOK, PoolInv, NEW a \in Blocks, CloseDone(a)
    PROVE  PoolInv'
<1>1. /\ block' = [block EXCEPT ![a] = "free"]
      /\ peer' = [peer EXCEPT ![a] = NULL]
      /\ given' = given
    BY DEF CloseDone
<1>2. peer[a] # NULL
    BY DEF CloseDone, PoolInv, BlockHasPeer
<1>3. \A i \in Slots : conn'[i] # a /\ (conn'[i] # NULL => conn'[i] = conn[i])
    <2>1. CASE Watched(a)
        BY <2>1, NullAssumption DEF CloseDone, MustClear, Holding
    <2>2. CASE ~Watched(a)
        <3>1. given[peer[a]] = MAX_CONN
            BY <1>2, <2>2 DEF Watched
        <3>2. \A i \in Slots : conn[i] # a
            BY <3>1, NullAssumption, PoolAssumption DEF PoolInv, SlotIsGiven, Slots
        <3>. QED BY <2>2, <3>2 DEF CloseDone
    <2>. QED BY <2>1, <2>2
<1>4. \A b \in Blocks : block[b] = "open" => \A i \in Slots : conn[i] = b => conn'[i] = b
    BY NullAssumption DEF CloseDone, MayClear
<1>5. SlotIsGiven'
    BY <1>1, <1>3 DEF PoolInv, SlotIsGiven, TypeOK
<1>6. OpenHoldsItsSlot'
    BY <1>1, <1>4 DEF PoolInv, OpenHoldsItsSlot, TypeOK
<1>7. BlockHasPeer'
    BY <1>1, NullAssumption DEF PoolInv, BlockHasPeer, TypeOK
<1>. QED BY <1>5, <1>6, <1>7 DEF PoolInv

LEMMA PoolInvNext ==
    ASSUME Interrupted = FALSE
    PROVE  TypeOK /\ PoolInv /\ [Next]_vars => PoolInv'
<1>. SUFFICES ASSUME TypeOK, PoolInv, [Next]_vars PROVE PoolInv'
    OBVIOUS
<1>1. ASSUME NEW c \in Clients, NEW a \in Blocks, Connect(c, a) PROVE PoolInv'
    BY <1>1, PoolInvConnect
<1>2. ASSUME NEW a \in Blocks, NEW kind \in Kinds, Receive(a, kind) PROVE PoolInv'
    BY <1>2 DEF Receive, PoolInv, SlotIsGiven, OpenHoldsItsSlot, BlockHasPeer
<1>3. ASSUME NEW a \in Blocks, Sent(a) PROVE PoolInv'
    BY <1>3, PoolInvSent
<1>4. ASSUME NEW a \in Blocks, PeerClose(a) PROVE PoolInv'
    BY <1>4 DEF PeerClose, pool, PoolInv, SlotIsGiven, OpenHoldsItsSlot, BlockHasPeer, TypeOK
<1>5. ASSUME NEW a \in Blocks, CloseDone(a) PROVE PoolInv'
    BY <1>5, PoolInvCloseDone
<1>6. ASSUME NEW a \in Blocks, Abort(a) PROVE PoolInv'
    BY <1>6 DEF Abort
<1>7. CASE UNCHANGED vars
    BY <1>7 DEF vars, PoolInv, SlotIsGiven, OpenHoldsItsSlot, BlockHasPeer
<1>. QED BY <1>1, <1>2, <1>3, <1>4, <1>5, <1>6, <1>7 DEF Next

\* When no connection is reset, httpdFindConnData returns the slot that the
\* connection was given at connect, and so the state of no other client.
THEOREM LookupCorrect ==
    ASSUME Interrupted = FALSE
    PROVE  Spec => []LookupFindsOwnSlot
<1>1. PoolInv => LookupFindsOwnSlot
    <2>. SUFFICES ASSUME PoolInv, NEW a \in Blocks, Served(a)
                  PROVE  FindConnData(a) = given[peer[a]]
        BY DEF LookupFindsOwnSlot
    <2>1. given[peer[a]] \in Slots /\ conn[given[peer[a]]] = a
        BY DEF Served, PoolInv, OpenHoldsItsSlot
    <2>2. FindConnData(a) \in Slots /\ conn[FindConnData(a)] = a
        BY <2>1, FoundHolds
    <2>. QED BY <2>2, NullAssumption DEF PoolInv, SlotIsGiven
<1>. QED BY <1>1, TypeInit, TypeNext, PoolInvInit, PoolInvNext, PTL DEF Spec

\* When no connection is reset, a slot is never left with a connection that is
\* gone: the pool does not run dry, whatever its clients do.
THEOREM PoolNeverLeaks ==
    ASSUME Interrupted = FALSE
    PROVE  Spec => []NoSlotLeaks
<1>1. TypeOK /\ PoolInv => NoSlotLeaks
    BY DEF TypeOK, PoolInv, SlotIsGiven, BlockHasPeer, NoSlotLeaks
<1>. QED BY <1>1, TypeInit, TypeNext, PoolInvInit, PoolInvNext, PTL DEF Spec

-----------------------------------------------------------------------------
(* The service. *)

\* The two phases that the service asks for.
LEMMA PhaseFacts ==
    ASSUME NEW c \in Clients
    PROVE  /\ Phase(c) = "held" <=> Holds(c)
           /\ Phase(c) = "idle" <=> given[c] = NULL
<1>1. Holds(c) => given[c] # NULL /\ given[c] # MAX_CONN
    BY NullAssumption, PoolAssumption DEF Holds, Slots
<1>. QED BY <1>1 DEF Phase

-----------------------------------------------------------------------------
(* Heads. *)

\* A head that is still being received consists of lines of the connection's own
\* client, for whom nothing was executed before.
HeadInv ==
    /\ \A c \in Clients : given[c] = NULL => ran[c] = <<>>
    /\ \A a \in Blocks : block[a] = "open" =>
           LET i == given[peer[a]]
           IN  /\ postLen[i] < 0 => ran[peer[a]] = <<>>
               /\ \A j \in 1..Len(head[i]) : head[i][j].from = peer[a]

LEMMA HeadInvInit == Init => HeadInv
BY DEF Init, HeadInv

\* A callback that opens no connection and leaves the heads alone.
LEMMA HeadsLeftAlone ==
    ASSUME HeadInv, UNCHANGED <<postLen, head, given, ran>>,
           \A b \in Blocks : block'[b] = "open" => block[b] = "open" /\ peer'[b] = peer[b]
    PROVE  HeadInv'
BY DEF HeadInv

\* Open connections have slots of their own.
LEMMA OwnSlots ==
    ASSUME TypeOK, PoolInv, NEW a \in Blocks, NEW b \in Blocks, a # b,
           block[a] = "open", block[b] = "open"
    PROVE  given[peer[a]] # given[peer[b]] /\ peer[a] # peer[b]
BY DEF PoolInv, OpenHoldsItsSlot

LEMMA HeadInvConnect ==
    ASSUME TypeOK, PoolInv, HeadInv, NEW c \in Clients, NEW a \in Blocks, Connect(c, a)
    PROVE  HeadInv'
<1>1. /\ peer' = [peer EXCEPT ![a] = c]
      /\ given' = [given EXCEPT ![c] = FreeSlot]
      /\ ran' = ran
      /\ block[a] = "free"
      /\ given[c] = NULL
    BY DEF Connect
<1>2. \A b \in Blocks : peer[b] # c
    BY <1>1, NullAssumption DEF PoolInv, BlockHasPeer
<1>3. FreeSlot # NULL
    BY FreeSlotIsFree, NullAssumption, PoolAssumption
<1>4. \A d \in Clients : given'[d] = NULL => ran'[d] = <<>>
    BY <1>1, <1>3 DEF HeadInv, TypeOK
<1>5. ASSUME NEW b \in Blocks, b # a, block[b] = "open"
      PROVE  peer'[b] = peer[b] /\ given'[peer[b]] = given[peer[b]]
    BY <1>1, <1>2, <1>5 DEF TypeOK
<1>6. CASE FreeSlot = MAX_CONN
    <2>1. block' = [block EXCEPT ![a] = "closing"] /\ UNCHANGED <<postLen, head>>
        BY <1>6 DEF Connect, Overflow, pool
    <2>. QED BY <1>1, <1>4, <1>5, <2>1 DEF HeadInv, TypeOK
<1>7. CASE FreeSlot # MAX_CONN
    <2>1. FreeSlot \in Slots /\ conn[FreeSlot] = NULL
        BY <1>7, FreeSlotIsFree
    <2>2. /\ postLen' = [postLen EXCEPT ![FreeSlot] = -1]
          /\ head' = [head EXCEPT ![FreeSlot] = <<>>]
          /\ block' = [block EXCEPT ![a] = "open"]
        BY <1>7 DEF Connect, Accept
    <2>3. peer'[a] = c /\ given'[c] = FreeSlot /\ head'[FreeSlot] = <<>> /\ ran'[c] = <<>>
        BY <1>1, <2>1, <2>2 DEF HeadInv, TypeOK
    <2>4. ASSUME NEW b \in Blocks, b # a, block'[b] = "open"
          PROVE  LET i == given'[peer'[b]]
                 IN  /\ postLen'[i] < 0 => ran'[peer'[b]] = <<>>
                     /\ \A j \in 1..Len(head'[i]) : head'[i][j].from = peer'[b]
        <3>1. block[b] = "open"
            BY <2>2, <2>4 DEF TypeOK
        <3>2. given[peer[b]] \in Slots /\ given[peer[b]] # FreeSlot
            BY <2>1, <3>1, NullAssumption DEF PoolInv, OpenHoldsItsSlot
        <3>. QED BY <1>1, <1>5, <2>2, <2>4, <3>1, <3>2 DEF HeadInv, TypeOK
    <2>. QED BY <1>4, <2>3, <2>4 DEF HeadInv
<1>. QED BY <1>6, <1>7

-----------------------------------------------------------------------------
(* Receiving. *)

\* What a callback that receives a line works on.
LEMMA ReceivesInOwnSlot ==
    ASSUME TypeOK, PoolInv, NEW a \in Blocks, block[a] = "open"
    PROVE  /\ peer[a] \in Clients
           /\ given[peer[a]] \in Slots
           /\ conn[given[peer[a]]] = a
           /\ FindConnData(a) = given[peer[a]]
<1>1. /\ peer[a] \in Clients /\ given[peer[a]] \in Slots
      /\ conn[given[peer[a]]] = a
    BY DEF TypeOK, PoolInv, OpenHoldsItsSlot
<1>2. FindConnData(a) \in Slots /\ conn[FindConnData(a)] = a
    BY <1>1, FoundHolds
<1>. QED BY <1>1, <1>2, NullAssumption DEF PoolInv, SlotIsGiven

\* The lines of a head that are executed are its client's own.
LEMMA ExecutedIsOwn ==
    ASSUME NEW h \in Seq(Line), NEW c, \A j \in 1..Len(h) : h[j].from = c
    PROVE  Executed(h) \subseteq Service!Own(c)
BY DEF Executed, Service!Own

\* Storing a line of the client keeps the head its own.
LEMMA StoreKeepsOwn ==
    ASSUME NEW h \in Seq(Line), NEW line \in Line, NEW c, line.from = c,
           \A j \in 1..Len(h) : h[j].from = c
    PROVE  /\ Store(h, line) \in Seq(Line)
           /\ \A j \in 1..Len(Store(h, line)) : Store(h, line)[j].from = c
<1>1. CASE Len(h) = MAX_HEAD_LEN
    BY <1>1 DEF Store
<1>2. CASE Len(h) # MAX_HEAD_LEN
    BY <1>2 DEF Store
<1>. QED BY <1>1, <1>2

\* A segment that is not ignored is a line for the head in the client's slot.
LEMMA ReceiveParses ==
    ASSUME TypeOK, PoolInv, HeadInv, NEW a \in Blocks, NEW kind \in Kinds, Receive(a, kind)
    PROVE  \/ UNCHANGED <<conn, postLen, head, block, peer, given, ran>>
           \/ /\ UNCHANGED <<conn, block, peer, given>>
              /\ ran[peer[a]] = <<>>
              /\ \E h \in Seq(Line) :
                     /\ \A j \in 1..Len(h) : h[j].from = peer[a]
                     /\ head' = [head EXCEPT ![given[peer[a]]] = h]
                     /\ \/ /\ postLen' = [postLen EXCEPT ![given[peer[a]]] = 0]
                           /\ ran' = [ran EXCEPT ![peer[a]] = Append(@, Executed(h))]
                        \/ UNCHANGED <<postLen, ran>>
<1> DEFINE c == peer[a]
           i == given[c]
           line == [from |-> c, nr |-> lines[c] + 1, kind |-> kind]
           h == Store(head[i], line)
<1>1. block[a] = "open" /\ UNCHANGED <<conn, block, peer, given>>
    BY DEF Receive
<1>2. c \in Clients /\ i \in Slots /\ FindConnData(a) = i
    BY <1>1, ReceivesInOwnSlot
<1>3. CASE postLen[i] < 0
    <2>1. lines[c] \in 0..MAX_LINES /\ lines[c] < MAX_LINES
        BY <1>2 DEF Receive, TypeOK
    <2>2. lines[c] + 1 \in 1..MAX_LINES
        BY <2>1, PoolAssumption
    <2>3. line \in Line /\ line.from = c
        BY <1>2, <2>2 DEF Line
    <2>4. i # NULL
        BY <1>2, NullAssumption DEF Slots
    <2>5. Parse(i, a, line)
        BY <1>2, <1>3, <2>4 DEF Receive
    <2>6. ran[c] = <<>> /\ head[i] \in Seq(Line)
          /\ \A j \in 1..Len(head[i]) : head[i][j].from = c
        BY <1>1, <1>2, <1>3 DEF HeadInv, TypeOK
    <2>7. h \in Seq(Line) /\ \A j \in 1..Len(h) : h[j].from = c
        <3>. HIDE DEF line
        <3>. QED BY <2>3, <2>6, StoreKeepsOwn
    <2>8. /\ head' = [head EXCEPT ![i] = h]
          /\ \/ /\ postLen' = [postLen EXCEPT ![i] = 0]
                /\ ran' = [ran EXCEPT ![c] = Append(@, Executed(h))]
             \/ UNCHANGED <<postLen, ran>>
        BY <2>5 DEF Parse, HeadDone
    <2>. HIDE DEF h
    <2>. QED BY <1>1, <2>6, <2>7, <2>8
<1>4. CASE ~ (postLen[i] < 0)
    BY <1>1, <1>2, <1>4 DEF Receive
<1>. QED BY <1>3, <1>4

LEMMA HeadInvReceive ==
    ASSUME TypeOK, PoolInv, HeadInv, NEW a \in Blocks, NEW kind \in Kinds, Receive(a, kind)
    PROVE  HeadInv'
<1>1. block[a] = "open"
    BY DEF Receive
<1>2. peer[a] \in Clients /\ given[peer[a]] \in Slots
    BY <1>1, ReceivesInOwnSlot
<1>3. CASE UNCHANGED <<conn, postLen, head, block, peer, given, ran>>
    BY <1>3, HeadsLeftAlone
<1>4. ASSUME UNCHANGED <<conn, block, peer, given>>,
             NEW h \in Seq(Line),
             \A j \in 1..Len(h) : h[j].from = peer[a],
             ran[peer[a]] = <<>>,
             head' = [head EXCEPT ![given[peer[a]]] = h],
             \/ /\ postLen' = [postLen EXCEPT ![given[peer[a]]] = 0]
                /\ ran' = [ran EXCEPT ![peer[a]] = Append(@, Executed(h))]
             \/ UNCHANGED <<postLen, ran>>
      PROVE  HeadInv'
    <2>1. given[peer[a]] # NULL
        BY <1>2, NullAssumption DEF Slots
    <2>2. \A d \in Clients : given'[d] = NULL => ran'[d] = <<>>
        BY <1>2, <1>4, <2>1 DEF HeadInv, TypeOK
    <2>3. ASSUME NEW b \in Blocks, b # a, block[b] = "open"
          PROVE  LET i == given[peer[b]]
                 IN  /\ postLen'[i] < 0 => ran'[peer[b]] = <<>>
                     /\ \A j \in 1..Len(head'[i]) : head'[i][j].from = peer[b]
        <3>1. given[peer[b]] # given[peer[a]] /\ peer[b] # peer[a]
            BY <1>1, <2>3, OwnSlots
        <3>2. given[peer[b]] \in Slots /\ peer[b] \in Clients
            BY <2>3, ReceivesInOwnSlot
        <3>3. head'[given[peer[b]]] = head[given[peer[b]]]
              /\ postLen'[given[peer[b]]] = postLen[given[peer[b]]]
              /\ ran'[peer[b]] = ran[peer[b]]
            BY <1>2, <1>4, <3>1, <3>2 DEF TypeOK
        <3>. QED BY <2>3, <3>3 DEF HeadInv
    <2>4. LET i == given[peer[a]]
          IN  /\ postLen'[i] < 0 => ran'[peer[a]] = <<>>
              /\ \A j \in 1..Len(head'[i]) : head'[i][j].from = peer[a]
        <3>1. head'[given[peer[a]]] = h
            BY <1>2, <1>4 DEF TypeOK
        <3>2. postLen'[given[peer[a]]] < 0 => ran'[peer[a]] = <<>>
            BY <1>2, <1>4 DEF TypeOK
        <3>. QED BY <1>4, <3>1, <3>2
    <2>. QED BY <1>4, <2>2, <2>3, <2>4 DEF HeadInv
<1>. QED BY <1>3, <1>4, ReceiveParses

\* Callbacks that end a connection open none.
LEMMA EndsOpenNone ==
    ASSUME TypeOK, NEW a \in Blocks, Sent(a) \/ PeerClose(a) \/ CloseDone(a)
    PROVE  /\ UNCHANGED <<postLen, head, given, ran>>
           /\ \A b \in Blocks : block'[b] = "open" => block[b] = "open" /\ peer'[b] = peer[b]
<1>1. CASE Sent(a)
    BY <1>1 DEF Sent, TypeOK
<1>2. CASE PeerClose(a)
    BY <1>2 DEF PeerClose, pool, TypeOK
<1>3. CASE CloseDone(a)
    BY <1>3 DEF CloseDone, TypeOK
<1>. QED BY <1>1, <1>2, <1>3

LEMMA HeadInvNext ==
    ASSUME Interrupted = FALSE
    PROVE  TypeOK /\ PoolInv /\ HeadInv /\ [Next]_vars => HeadInv'
<1>. SUFFICES ASSUME TypeOK, PoolInv, HeadInv, [Next]_vars PROVE HeadInv'
    OBVIOUS
<1>1. ASSUME NEW c \in Clients, NEW a \in Blocks, Connect(c, a) PROVE HeadInv'
    BY <1>1, HeadInvConnect
<1>2. ASSUME NEW a \in Blocks, NEW kind \in Kinds, Receive(a, kind) PROVE HeadInv'
    BY <1>2, HeadInvReceive
<1>3. ASSUME NEW a \in Blocks, Sent(a) \/ PeerClose(a) \/ CloseDone(a) PROVE HeadInv'
    BY <1>3, EndsOpenNone, HeadsLeftAlone
<1>4. ASSUME NEW a \in Blocks, Abort(a) PROVE HeadInv'
    BY <1>4 DEF Abort
<1>5. CASE UNCHANGED vars
    BY <1>5, HeadsLeftAlone DEF vars
<1>. QED BY <1>1, <1>2, <1>3, <1>4, <1>5 DEF Next

-----------------------------------------------------------------------------
(* Steps of the pool are steps of the service. *)

Taken == {i \in Slots : conn[i] # NULL}

\* The clients held are as many as the slots taken: each slot has one client.
LEMMA HeldAreTaken ==
    ASSUME TypeOK, PoolInv
    PROVE  /\ IsFiniteSet(Taken)
           /\ Cardinality(Service!Held) = Cardinality(Taken)
<1> DEFINE f == [i \in Taken |-> peer[conn[i]]]
<1>1. IsFiniteSet(Slots)
    BY FS_Interval, PoolAssumption DEF Slots
<1>2. IsFiniteSet(Taken)
    BY <1>1, FS_Subset DEF Taken
<1>3. ASSUME NEW i \in Taken
      PROVE  /\ peer[conn[i]] \in Clients
             /\ given[peer[conn[i]]] = i
             /\ peer[conn[i]] \in Service!Held
    <2>1. conn[i] \in Blocks /\ i \in Slots
        BY DEF Taken, TypeOK
    <2>2. peer[conn[i]] \in Clients /\ given[peer[conn[i]]] = i
        BY <2>1 DEF Taken, TypeOK, PoolInv, SlotIsGiven
    <2>3. Holds(peer[conn[i]])
        BY <2>1, <2>2 DEF Holds
    <2>. QED BY <2>2, <2>3, PhaseFacts DEF Service!Held
<1>4. ASSUME NEW c \in Service!Held PROVE \E i \in Taken : f[i] = c
    <2>1. c \in Clients /\ Holds(c)
        BY PhaseFacts DEF Service!Held
    <2>2. PICK a \in Blocks : peer[a] = c /\ given[c] \in Slots /\ conn[given[c]] = a
        BY <2>1 DEF Holds
    <2>3. given[c] \in Taken
        BY <2>2, NullAssumption DEF Taken
    <2>. QED BY <2>2, <2>3
<1>5. f \in [Taken -> Service!Held]
    BY <1>3
<1>6. \A i, j \in Taken : f[i] = f[j] => i = j
    BY <1>3
<1>7. f \in Bijection(Taken, Service!Held)
    <2>. HIDE DEF f
    <2>1. DOMAIN f = Taken
        BY <1>5
    <2>. QED BY <1>4, <1>5, <1>6, <2>1 DEF Bijection, Injection, Surjection, IsInjective
<1>. QED BY <1>2, <1>7, FS_Bijection DEF ExistsBijection

\* The service is full just when no slot is free.
LEMMA FullIsFull ==
    ASSUME TypeOK, PoolInv
    PROVE  /\ FreeSlot = MAX_CONN => Cardinality(Service!Held) = MAX_CONN
           /\ FreeSlot # MAX_CONN => Cardinality(Service!Held) < MAX_CONN
<1>1. IsFiniteSet(Slots) /\ Cardinality(Slots) = MAX_CONN
    <2>1. /\ IsFiniteSet(0..(MAX_CONN - 1))
          /\ Cardinality(0..(MAX_CONN - 1)) =
                 IF 0 > MAX_CONN - 1 THEN 0 ELSE (MAX_CONN - 1) - 0 + 1
        BY FS_Interval, PoolAssumption
    <2>. QED BY <2>1, PoolAssumption DEF Slots
<1>2. Taken \in SUBSET Slots
    BY DEF Taken
<1>3. Cardinality(Taken) \in Nat
    BY HeldAreTaken, FS_CardinalityType
<1>4. /\ Cardinality(Taken) <= MAX_CONN
      /\ Cardinality(Taken) = MAX_CONN => Taken = Slots
    BY <1>1, <1>2, FS_Subset
<1>5. CASE FreeSlot = MAX_CONN
    <2>1. Taken = Slots
        BY <1>5, FreeSlotIsFree DEF Taken
    <2>. QED BY <1>1, <1>5, <2>1, HeldAreTaken
<1>6. CASE FreeSlot # MAX_CONN
    <2>1. Taken # Slots
        BY <1>6, FreeSlotIsFree DEF Taken
    <2>. QED BY <1>3, <1>4, <1>6, <2>1, HeldAreTaken, PoolAssumption
<1>. QED BY <1>5, <1>6

\* A callback that gives no client a slot gives up the clients that lose theirs.
LEMMA ReleaseStep ==
    ASSUME UNCHANGED <<given, ran>>, \A c \in Clients : Holds(c)' => Holds(c)
    PROVE  Service!Next
<1> DEFINE C == {c \in Clients : Holds(c) /\ ~ Holds(c)'}
<1>1. C \subseteq Service!Held
    BY PhaseFacts DEF Service!Held
<1>2. ASSUME NEW c \in Clients
      PROVE  Phase(c)' = IF c \in C THEN "over" ELSE Phase(c)
    <2>1. CASE c \in C
        <3>1. given[c] # NULL /\ given[c] # MAX_CONN
            BY <2>1, NullAssumption, PoolAssumption DEF Holds, Slots
        <3>. QED BY <2>1, <3>1 DEF Phase
    <2>2. CASE c \notin C
        <3>1. Holds(c)' <=> Holds(c)
            BY <2>2
        <3>. QED BY <2>2, <3>1 DEF Phase
    <2>. QED BY <2>1, <2>2
<1>. HIDE DEF C
<1>3. [c \in Clients |-> Phase(c)]' =
          [c \in Clients |-> IF c \in C THEN "over" ELSE [d \in Clients |-> Phase(d)][c]]
    BY <1>2
<1>4. Service!Release(C)
    BY <1>1, <1>3 DEF Service!Release
<1>. QED BY <1>1, <1>4 DEF Service!Next, Service!Held

\* The instance has a Cardinality of its own, which is the same one.
LEMMA SameCardinality == \A S : Service!Cardinality(S) = Cardinality(S)
BY DEF Service!Cardinality, Cardinality

LEMMA ConnectStep ==
    ASSUME TypeOK, PoolInv, NEW c \in Clients, NEW a \in Blocks, Connect(c, a)
    PROVE  Service!Admit(c) \/ Service!Refuse(c)
<1>1. /\ peer' = [peer EXCEPT ![a] = c]
      /\ given' = [given EXCEPT ![c] = FreeSlot]
      /\ ran' = ran
      /\ given[c] = NULL
      /\ block[a] = "free"
    BY DEF Connect
<1>2. peer[a] = NULL /\ \A b \in Blocks : peer[b] # c
    BY <1>1, NullAssumption DEF PoolInv, BlockHasPeer
<1>3. Phase(c) = "idle"
    BY <1>1, PhaseFacts
<1>4. FreeSlot # NULL
    BY FreeSlotIsFree, NullAssumption, PoolAssumption
<1>5. given'[c] = FreeSlot /\ peer'[a] = c
    BY <1>1 DEF TypeOK
<1>6. CASE FreeSlot = MAX_CONN
    <2>1. conn' = conn
        BY <1>6 DEF Connect, Overflow, pool
    <2>2. Phase(c)' = "refused"
        BY <1>4, <1>5, <1>6 DEF Phase
    <2>3. ASSUME NEW d \in Clients, d # c PROVE Phase(d)' = Phase(d)
        <3>1. given'[d] = given[d]
            BY <1>1, <2>3 DEF TypeOK
        <3>2. \A b \in Blocks : peer'[b] = d <=> peer[b] = d
            BY <1>1, <1>2, <2>3, NullAssumption DEF TypeOK
        <3>3. Holds(d)' <=> Holds(d)
            BY <2>1, <3>1, <3>2 DEF Holds
        <3>. QED BY <3>1, <3>3 DEF Phase
    <2>4. [e \in Clients |-> Phase(e)]' =
              [[e \in Clients |-> Phase(e)] EXCEPT ![c] = "refused"]
        BY <2>2, <2>3
    <2>5. Service!Refuse(c)
        BY <1>1, <1>3, <1>6, <2>4, FullIsFull, SameCardinality
           DEF Service!Refuse
    <2>. QED BY <2>5
<1>7. CASE FreeSlot # MAX_CONN
    <2>1. FreeSlot \in Slots /\ conn[FreeSlot] = NULL
        BY <1>7, FreeSlotIsFree
    <2>2. conn' = [conn EXCEPT ![FreeSlot] = a]
        BY <1>7 DEF Connect, Accept
    <2>3. conn'[FreeSlot] = a
        BY <2>1, <2>2 DEF TypeOK
    <2>4. Holds(c)'
        BY <1>5, <2>1, <2>3 DEF Holds
    <2>5. Phase(c)' = "held"
        BY <1>4, <1>5, <1>7, <2>4 DEF Phase
    <2>6. ASSUME NEW d \in Clients, d # c PROVE Phase(d)' = Phase(d)
        <3>1. given'[d] = given[d]
            BY <1>1, <2>6 DEF TypeOK
        <3>2. \A b \in Blocks : peer'[b] = d <=> peer[b] = d
            BY <1>1, <1>2, <2>6, NullAssumption DEF TypeOK
        <3>3. \A b \in Blocks : peer[b] = d /\ given[d] \in Slots =>
                  (conn'[given[d]] = b <=> conn[given[d]] = b)
            BY <1>2, <2>1, <2>2, <2>6, NullAssumption DEF TypeOK
        <3>4. Holds(d)' <=> Holds(d)
            BY <3>1, <3>2, <3>3 DEF Holds
        <3>. QED BY <3>1, <3>4 DEF Phase
    <2>7. [e \in Clients |-> Phase(e)]' =
              [[e \in Clients |-> Phase(e)] EXCEPT ![c] = "held"]
        BY <2>5, <2>6
    <2>8. Service!Admit(c)
        BY <1>1, <1>3, <1>7, <2>7, FullIsFull, SameCardinality
           DEF Service!Admit
    <2>. QED BY <2>8
<1>. QED BY <1>6, <1>7

LEMMA ReceiveStep ==
    ASSUME TypeOK, PoolInv, HeadInv, NEW a \in Blocks, NEW kind \in Kinds, Receive(a, kind)
    PROVE  Service!Next
<1>1. block[a] = "open" /\ UNCHANGED <<conn, peer, given>>
    BY DEF Receive
<1>2. /\ peer[a] \in Clients /\ given[peer[a]] \in Slots
      /\ conn[given[peer[a]]] = a
    BY <1>1, ReceivesInOwnSlot
<1>3. \A c \in Clients : Holds(c)' <=> Holds(c)
    BY <1>1 DEF Holds
<1>4. CASE ran' = ran
    BY <1>1, <1>3, <1>4, ReleaseStep
<1>5. ASSUME ran[peer[a]] = <<>>,
             NEW h \in Seq(Line),
             \A j \in 1..Len(h) : h[j].from = peer[a],
             ran' = [ran EXCEPT ![peer[a]] = Append(@, Executed(h))]
      PROVE  Service!Next
    <2>1. Holds(peer[a])
        BY <1>2 DEF Holds
    <2>2. Phase(peer[a]) = "held"
        BY <1>2, <2>1, PhaseFacts
    <2>3. ran'[peer[a]] = <<Executed(h)>>
        BY <1>2, <1>5 DEF TypeOK
    <2>4. Len(ran'[peer[a]]) = 1 /\ ran'[peer[a]][1] = Executed(h)
        BY <2>3
    <2>5. ran' = [ran EXCEPT ![peer[a]] = ran'[peer[a]]]
        BY <1>2, <1>5 DEF TypeOK
    <2>6. \A c \in Clients : Phase(c)' = Phase(c)
        BY <1>1, <1>3 DEF Phase
    <2>7. [c \in Clients |-> Phase(c)]' = [c \in Clients |-> Phase(c)]
        BY <2>6
    <2>8. Executed(h) \subseteq Service!Own(peer[a])
        BY <1>5, ExecutedIsOwn
    <2>9. Service!Serve(peer[a])
        BY <1>2, <1>5, <2>2, <2>4, <2>5, <2>7, <2>8 DEF Service!Serve
    <2>. QED BY <1>2, <2>9 DEF Service!Next
<1>. QED BY <1>4, <1>5, ReceiveParses

\* Callbacks that end a connection take slots and give none.
LEMMA EndStep ==
    ASSUME TypeOK, PoolInv, NEW a \in Blocks, Sent(a) \/ PeerClose(a) \/ CloseDone(a)
    PROVE  Service!Next
<1>1. UNCHANGED <<given, ran>>
    BY EndsOpenNone
<1>2. \A i \in Slots : conn'[i] # NULL => conn'[i] = conn[i]
    <2>1. CASE Sent(a)
        <3>1. FindConnData(a) # NULL => FindConnData(a) \in Slots
            BY FoundHolds
        <3>. QED BY <2>1, <3>1 DEF Sent, TypeOK
    <2>2. CASE PeerClose(a)
        BY <2>2 DEF PeerClose, pool
    <2>3. CASE CloseDone(a)
        BY <2>3 DEF CloseDone
    <2>. QED BY <2>1, <2>2, <2>3
<1>3. \A b \in Blocks : peer'[b] # NULL => peer'[b] = peer[b]
    <2>1. CASE Sent(a) \/ PeerClose(a)
        BY <2>1 DEF Sent, PeerClose
    <2>2. CASE CloseDone(a)
        BY <2>2 DEF CloseDone, TypeOK
    <2>. QED BY <2>1, <2>2
<1>4. \A c \in Clients : Holds(c)' => Holds(c)
    BY <1>1, <1>2, <1>3, NullAssumption DEF Holds
<1>. QED BY <1>1, <1>4, ReleaseStep

LEMMA ServiceInit == Init => Service!Init
<1>. SUFFICES ASSUME Init PROVE Service!Init
    OBVIOUS
<1>1. \A c \in Clients : Phase(c) = "idle"
    BY DEF Init, Phase
<1>. QED BY <1>1 DEF Init, Service!Init

LEMMA ServiceNext ==
    ASSUME Interrupted = FALSE
    PROVE  TypeOK /\ PoolInv /\ HeadInv /\ [Next]_vars => [Service!Next]_(Service!vars)
<1>. SUFFICES ASSUME TypeOK, PoolInv, HeadInv, [Next]_vars
              PROVE  Service!Next \/ UNCHANGED Service!vars
    OBVIOUS
<1>1. ASSUME NEW c \in Clients, NEW a \in Blocks, Connect(c, a) PROVE Service!Next
    BY <1>1, ConnectStep DEF Service!Next
<1>2. ASSUME NEW a \in Blocks, NEW kind \in Kinds, Receive(a, kind) PROVE Service!Next
    BY <1>2, ReceiveStep
<1>3. ASSUME NEW a \in Blocks, Sent(a) \/ PeerClose(a) \/ CloseDone(a) PROVE Service!Next
    BY <1>3, EndStep
<1>4. ASSUME NEW a \in Blocks, Abort(a) PROVE FALSE
    BY <1>4 DEF Abort
<1>5. CASE UNCHANGED vars
    <2>1. \A c \in Clients : Holds(c)' <=> Holds(c)
        BY <1>5 DEF vars, Holds
    <2>. QED BY <1>5, <2>1, ReleaseStep DEF vars
<1>. QED BY <1>1, <1>2, <1>3, <1>4, <1>5 DEF Next

\* When no connection is reset, the pool serves as ConnService says, however many
\* slots and clients there are.
THEOREM PoolImplementsService ==
    ASSUME Interrupted = FALSE
    PROVE  Spec => ServesClients
<1>. QED BY TypeInit, TypeNext, PoolInvInit, PoolInvNext, HeadInvInit, HeadInvNext,
            ServiceInit, ServiceNext, PTL DEF Spec, ServesClients, Service!Spec

=============================================================================
