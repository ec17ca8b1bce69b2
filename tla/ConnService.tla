---------------------------- MODULE ConnService ----------------------------
(***************************************************************************)
(* What the connection server of src/user/server.c promises its clients,   *)
(* with no pool slot, no receive buffer and no SDK in sight: a connection  *)
(* is admitted while fewer than Capacity others are held and is turned     *)
(* away otherwise; the request head of an admitted connection is executed  *)
(* at most once, and only lines that the same client sent are executed;    *)
(* a held connection is given up once and for all.                         *)
(***************************************************************************)
EXTENDS Naturals, FiniteSets, Sequences

CONSTANTS
    Clients,        \* the clients, one connection each
    Lines,          \* the lines a client can send, records with a field from
    Capacity        \* how many connections are held at once

VARIABLES
    phase,          \* [Clients -> "idle", "held", "refused" or "over"]
    executed        \* [Clients -> the request heads executed for it, each one
                    \*             the set of its lines that were commands]

vars == <<phase, executed>>

Own(c) == {l \in Lines : l.from = c}

Held == {c \in Clients : phase[c] = "held"}

Init ==
    /\ phase = [c \in Clients |-> "idle"]
    /\ executed = [c \in Clients |-> <<>>]

Admit(c) ==
    /\ phase[c] = "idle"
    /\ Cardinality(Held) < Capacity
    /\ phase' = [phase EXCEPT ![c] = "held"]
    /\ UNCHANGED executed

Refuse(c) ==
    /\ phase[c] = "idle"
    /\ Cardinality(Held) = Capacity
    /\ phase' = [phase EXCEPT ![c] = "refused"]
    /\ UNCHANGED executed

Serve(c) ==
    /\ phase[c] = "held"
    /\ executed[c] = <<>>
    /\ Len(executed'[c]) = 1
    /\ executed'[c][1] \subseteq Own(c)
    /\ executed' = [executed EXCEPT ![c] = executed'[c]]
    /\ UNCHANGED phase

\* One callback may give up several connections at once.
Release(C) ==
    /\ C \subseteq Held
    /\ phase' = [c \in Clients |-> IF c \in C THEN "over" ELSE phase[c]]
    /\ UNCHANGED executed

Next ==
    \/ \E c \in Clients : Admit(c) \/ Refuse(c) \/ Serve(c)
    \/ \E C \in SUBSET Clients : Release(C)

Spec == Init /\ [][Next]_vars
=============================================================================
