------------------------------ MODULE MainLoop ------------------------------
(***************************************************************************)
(* The task of src/user/user_main.c that posts itself to the SDK at every  *)
(* run and calls OneSecLoop every 5 s.  It measures time with              *)
(* system_get_time, 32 bits of microseconds that start again at 0 after    *)
(* some 71 minutes; the model's counter is TIMER ticks wide.               *)
(*                                                                         *)
(* Between two runs of the task its own delay and other callbacks take     *)
(* between 1 and MAX_GAP ticks.                                            *)
(***************************************************************************)
EXTENDS Integers

CONSTANTS
    TIMER,      \* ticks until system_get_time starts again, 2^32 us
    PERIOD,     \* 5000000 us in the code
    MAX_GAP     \* bound: ticks from one run of the task to the next

ASSUME LoopAssumption ==
    /\ PERIOD \in Nat
    /\ MAX_GAP \in Nat \ {0}
    /\ TIMER \in Nat
    /\ PERIOD + MAX_GAP < TIMER

VARIABLES
    now,        \* system_get_time
    stime,      \* the time the task called OneSecLoop last
    posted,     \* messages for the task in its queue
    since,      \* history: ticks since OneSecLoop ran, or since the start
    interval    \* history: ticks between the last two runs of OneSecLoop

loopvars == <<now, stime, posted, since, interval>>

LoopInit ==
    /\ now = 0
    /\ stime = 0
    /\ posted = 1
    /\ since = 0
    /\ interval = PERIOD + 1

\* Mutant: times are subtracted as if the counter never started again.
ElapsedSigned(t) == t - stime

\* tmp - stime in uint32
Elapsed(t) == (t - stime) % TIMER

\* Mutant: the task posts itself only if it had something to do.
RepostDue(due) == IF due THEN posted ELSE posted - 1

\* The task takes one message from its queue and posts one at its end.
Repost(due) == posted

\* loop, d ticks after its last run.
Loop(d) ==
    LET t   == (now + d) % TIMER
        due == Elapsed(t) > PERIOD
    IN  /\ posted > 0
        /\ now' = t
        /\ posted' = Repost(due)
        /\ IF due
           THEN /\ stime' = t
                /\ since' = 0
                /\ interval' = since + d
           ELSE /\ since' = since + d
                /\ UNCHANGED <<stime, interval>>

LoopNext == \E d \in 1..MAX_GAP : Loop(d)

LoopSpec == LoopInit /\ [][LoopNext]_loopvars

LoopFairSpec == LoopSpec /\ WF_loopvars(LoopNext)

-----------------------------------------------------------------------------
LoopTypeOK ==
    /\ now \in 0..(TIMER - 1)
    /\ stime \in 0..(TIMER - 1)
    /\ posted = 1
    /\ since \in Nat
    /\ interval \in Nat

\* "5 sec has passed" (user_main.c:82): OneSecLoop runs neither earlier than
\* that nor later than the first run of the task after it, also over the moment
\* at which the counter starts again.
RunsOnTime ==
    /\ since <= PERIOD
    /\ interval \in (PERIOD + 1)..(PERIOD + MAX_GAP)

\* OneSecLoop runs again and again.
RunsForever == []<>(since = 0)

=============================================================================
