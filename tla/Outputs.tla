------------------------------ MODULE Outputs ------------------------------
(***************************************************************************)
(* The output ports of src/user/RestAPI.c: the commands that switch them,  *)
(* the 3 s timer of the open command and the event scheduler OneSecLoop.   *)
(* All of it runs in callbacks of a single thread, one action each.        *)
(*                                                                         *)
(* A port is known by three representations that must agree: portsVal,     *)
(* which ip/status reports; the GPIO_OUT register, or the RTC latch for    *)
(* pin 16; and GPIO_OUT again, which ip/flipinput reads back.  What the    *)
(* register says reaches the pin only if the pad was switched to GPIO.     *)
(*                                                                         *)
(* Commands name ports and events inside their tables here; module Rest    *)
(* says what becomes of the others.                                        *)
(*                                                                         *)
(* The clock is the minute of the day.  It stands still until the first    *)
(* SNTP answer starts ntp_timer; an answer or a new time zone may set it   *)
(* to any minute.  A restart is a loss of power: events come back from     *)
(* flash (module Settings), ports and registers do not.                    *)
(***************************************************************************)
EXTENDS Integers

CONSTANTS
    Ports,              \* indices of the ports, 0..NUM_OF_PORTS-1
    PortPinNumber,      \* [Ports -> Int], pin 16 is on the RTC controller
    portsBits,          \* [Ports -> bit numbers of the GPIO registers]
    MAX_TIMED_POWER_EVENTS, \* 10 in the code
    PinValues,          \* bound: the integers clients pass to setpin
    EventRequests,      \* bound: the events clients ask for
    HOURS,              \* hours in a day
    MINUTES,            \* minutes in an hour
    NONE                \* no port

EventIds == 0..(MAX_TIMED_POWER_EVENTS - 1)
DAY == HOURS * MINUTES

ASSUME PortsAssumption ==
    /\ Ports \subseteq Nat
    /\ PortPinNumber \in [Ports -> Int]
    /\ portsBits \in [Ports -> Nat]
    /\ \A p, q \in Ports : portsBits[p] = portsBits[q] => p = q
    /\ \A p, q \in Ports : PortPinNumber[p] = PortPinNumber[q] => p = q
    /\ NONE \notin Ports

Time == [Hour : Int, Min : Int]

\* What ip/event can ask for: none of it is validated, neither the port.
EventRequest == [Active : Int, Port : Int, StartTime : Time, EndTime : Time]

ASSUME EventsAssumption == MAX_TIMED_POWER_EVENTS \in Nat

ASSUME ClockAssumption ==
    /\ HOURS \in Nat \ {0}
    /\ MINUTES \in Nat \ {0}
    /\ DAY \in Nat \ {0}
    /\ EventRequests \subseteq EventRequest
    /\ PinValues \subseteq Int

VARIABLES
    portsVal,       \* [Ports -> {0, 1}]
    gpioOut,        \* the bits set in GPIO_OUT
    gpioEnable,     \* the pins that are outputs
    rtcOut,         \* the RTC latch behind pin 16, 0 or 1
    pads,           \* the GPIO pins whose pad is switched to GPIO
    rtcEnable,      \* pin 16 is switched to the RTC latch, as an output
    events,         \* [EventIds -> Event], flashData->_PowerEvents
    openTimer,      \* the argument of the armed open_timer, or NONE
    clock,          \* the minute of the day the scheduler reads
    synced,         \* ntp_timer runs: there has been an SNTP answer
    serving,        \* InitializeRest has run and the server listens
    open,           \* history: the ports opened and not written since
    overtaken,      \* history: those of them whose timer another open took
    even            \* history: pin 16's port, last set to an even value but 0

levels == <<portsVal, gpioOut, gpioEnable, rtcOut, even>>
muxes == <<pads, rtcEnable>>
pins == <<levels, muxes>>
time == <<clock, synced>>
opens == <<open, overtaken>>
vars == <<pins, events, openTimer, time, serving, opens>>

\* What ip/status, ip/scan, setpin and flipinput answer with.
SendPortStatus == portsVal

\* An event as flash holds it; the fields are not validated, and in erased
\* flash every byte of them is 16rFF.
Event == [Active : 0..255, Port : Int, StartTime : Time, EndTime : Time]

ErasedTime == [Hour |-> -1, Min |-> -1]
Erased == [Active |-> 255, Port |-> -1, StartTime |-> ErasedTime, EndTime |-> ErasedTime]

Midnight == [Hour |-> 0, Min |-> 0]
Cleared == [Active |-> 0, Port |-> 0, StartTime |-> Midnight, EndTime |-> Midnight]

\* A C int stored in a bool of this build, an unsigned char.
ToBool(v) == v % 256

-----------------------------------------------------------------------------
(* When an event is on. *)

MinuteOf(t) == t.Hour * MINUTES + t.Min

\* Mutant: an interval over midnight is not unwrapped.
IsTimeInsideSameDay(start, end, current) ==
    LET diff    == MinuteOf(end) - MinuteOf(start)
        diffCur == MinuteOf(current) - MinuteOf(start)
    IN  diff - diffCur > 0 /\ diffCur >= 0

IsTimeInside(start, end, current) ==
    LET diff    == MinuteOf(end) - MinuteOf(start)
        diffCur == MinuteOf(current) - MinuteOf(start)
        Wrap(d) == IF d < 0 THEN d + DAY ELSE d
    IN  Wrap(diff) - Wrap(diffCur) > 0

Now == [Hour |-> clock \div MINUTES, Min |-> clock % MINUTES]

Covers(e) == IsTimeInside(events[e].StartTime, events[e].EndTime, Now)

\* An active event of port p covers the time; other port numbers are ignored.
Raised(p) == \E e \in EventIds :
                 events[e].Port = p /\ events[e].Active # 0 /\ Covers(e)

-----------------------------------------------------------------------------
(* PortPinSet, for every port p in DOMAIN W with inValue = W[p]. *)

Bits(P) == {portsBits[p] : p \in {q \in P : PortPinNumber[q] # 16}}

High(W) == {p \in DOMAIN W : W[p] # 0}

\* Mutant: pin 16 is left to GPIO_OUT like the others.
DriveLatchForgotten(W) == UNCHANGED rtcOut

\* gpio_output_set, with masks of the bits to set, to clear and to enable.
DriveGpio(W) ==
    /\ gpioOut' = (gpioOut \ Bits(DOMAIN W)) \cup Bits(High(W))
    /\ gpioEnable' = gpioEnable \cup Bits(DOMAIN W)

\* gpio16_output_set keeps the lowest bit of its argument.
DriveLatch(W) ==
    LET on == {p \in DOMAIN W : PortPinNumber[p] = 16}
    IN  IF on = {} THEN UNCHANGED rtcOut ELSE \E p \in on : rtcOut' = W[p] % 2

Write(W) ==
    /\ portsVal' = [p \in Ports |-> IF p \notin DOMAIN W THEN portsVal[p]
                                    ELSE IF p \in High(W) THEN 1 ELSE 0]
    /\ DriveGpio(W)
    /\ DriveLatch(W)
    /\ even' = (even \ DOMAIN W)
                  \cup {p \in High(W) : PortPinNumber[p] = 16 /\ W[p] % 2 = 0}
    /\ UNCHANGED muxes

\* A write by anyone but the open command and the scheduler.
PortPinSet(p, inValue) ==
    /\ Write([q \in {p} |-> inValue])
    /\ open' = open \ {p}
    /\ overtaken' = overtaken \ {p}

-----------------------------------------------------------------------------
\* The pads that are on GPIO once user_init is through: GPIO0's by reset, GPIO2's
\* by user_init_gpio.  stdoutInit gives GPIO1's to the UART, and the flash chip
\* is behind GPIO7's.
PadsAtStart == {0, 2}

\* A device whose flash was never written; GPIO2 is made an output.
Init ==
    /\ portsVal = [p \in Ports |-> 0]
    /\ gpioOut = {}
    /\ gpioEnable = {2}
    /\ rtcOut = 0
    /\ pads = PadsAtStart
    /\ rtcEnable = FALSE
    /\ events = [e \in EventIds |-> Erased]
    /\ openTimer = NONE
    /\ clock = 0
    /\ synced = FALSE
    /\ serving = FALSE
    /\ open = {}
    /\ overtaken = {}
    /\ even = {}

\* Mutant: pin 16 is not made an output.
InitializeRestWithoutPin16 ==
    /\ pads' = pads \cup {12, 13, 14, 15}
    /\ serving' = TRUE
    /\ UNCHANGED <<levels, rtcEnable, events, openTimer, time, opens>>

\* ServerInit, called by network_check_ip; calling it again changes nothing.
\* gpio16_output_conf leaves the latch as it is: a level that the scheduler has
\* given pin 16 before appears now.
InitializeRest ==
    /\ pads' = pads \cup {12, 13, 14, 15}
    /\ rtcEnable' = TRUE
    /\ serving' = TRUE
    /\ UNCHANGED <<levels, events, openTimer, time, opens>>

doSetPin(p, v) ==
    /\ serving
    /\ PortPinSet(p, ToBool(v))
    /\ UNCHANGED <<events, openTimer, time, serving>>

\* Mutant: the level is read from the enable register.
FlippedFromEnable(p) == IF portsBits[p] \in gpioEnable THEN 0 ELSE 1

\* What ip/flipinput switches port p to: pin 16 cannot be read back.
Flipped(p) ==
    IF PortPinNumber[p] = 16 THEN IF portsVal[p] # 0 THEN 0 ELSE 1
    ELSE IF portsBits[p] \in gpioOut THEN 0 ELSE 1

doFlipinput(p) ==
    /\ serving
    /\ PortPinSet(p, Flipped(p))
    /\ UNCHANGED <<events, openTimer, time, serving>>

\* Mutant: the timer is armed again with the argument it was first set to.
ArmKeepingPort(p) == openTimer' = IF openTimer = NONE THEN p ELSE openTimer

\* os_timer_disarm, os_timer_setfn and os_timer_arm of the one open_timer.
Arm(p) == openTimer' = p

\* Without a port in the URL, port 6.
doOpen(p) ==
    /\ serving
    /\ Arm(p)
    /\ Write([q \in {p} |-> 1])
    /\ open' = open \cup {p}
    /\ overtaken' = (overtaken \cup (open \cap {openTimer})) \ {p}
    /\ UNCHANGED <<events, time, serving>>

\* open_timer fires.
setPortToLow ==
    /\ openTimer # NONE
    /\ PortPinSet(openTimer, 0)
    /\ openTimer' = NONE
    /\ UNCHANGED <<events, time, serving>>

\* ip/event; a field missing from the URL is 0.
doSetEvent(e, request) ==
    /\ serving
    /\ events' = [events EXCEPT ![e] = [request EXCEPT !.Active = ToBool(@)]]
    /\ UNCHANGED <<pins, openTimer, time, serving, opens>>

doInitialize ==
    /\ serving
    /\ events' = [e \in EventIds |-> Cleared]
    /\ UNCHANGED <<pins, openTimer, time, serving, opens>>

\* Mutant: an event that is over lowers its port (line 147 without its test).
ScheduledLowering(p) ==
    IF Raised(p) THEN 1
    ELSE IF \E e \in EventIds : events[e].Active # 0 /\ events[e].Port = p THEN 0
    ELSE portsVal[p]

\* portsValtmp[p] after the loop over the events: an event that is over writes
\* 0 only where it finds a value other than 1, which is a 0.
Scheduled(p) == IF Raised(p) THEN 1 ELSE portsVal[p]

\* Every 5 s; the ports whose value changes are written.
OneSecLoop ==
    LET changed == {p \in Ports : portsVal[p] # Scheduled(p)}
    IN  /\ UNCHANGED <<events, openTimer, time, serving, opens>>
        /\ Write([p \in changed |-> Scheduled(p)])

\* Mutant: the hour is not taken modulo the day.
NextMinuteUnwrapped == clock + 1

NextMinute == (clock + 1) % DAY

\* ntp_timer, seen once a minute.
Tick ==
    /\ synced
    /\ clock' = NextMinute
    /\ UNCHANGED <<pins, events, openTimer, synced, serving, opens>>

\* An SNTP answer, which is asked for only once the server listens.
Sync(minute) ==
    /\ serving
    /\ clock' = minute
    /\ synced' = TRUE
    /\ UNCHANGED <<pins, events, openTimer, serving, opens>>

\* sntp_init, called by network_check_ip: the time zone shifts the clock, which
\* before the first answer stands at the shifted beginning of 1970.
SetZone(minute) ==
    /\ serving
    /\ clock' = minute
    /\ UNCHANGED <<pins, events, openTimer, synced, serving, opens>>

Restart ==
    /\ portsVal' = [p \in Ports |-> 0]
    /\ gpioOut' = {}
    /\ gpioEnable' = {2}
    /\ rtcOut' = 0
    /\ pads' = PadsAtStart
    /\ rtcEnable' = FALSE
    /\ openTimer' = NONE
    /\ clock' = 0
    /\ synced' = FALSE
    /\ serving' = FALSE
    /\ open' = {}
    /\ overtaken' = {}
    /\ even' = {}
    /\ UNCHANGED events

Next ==
    \/ InitializeRest
    \/ \E p \in Ports, v \in PinValues : doSetPin(p, v)
    \/ \E p \in Ports : doFlipinput(p)
    \/ \E p \in Ports : doOpen(p)
    \/ setPortToLow
    \/ \E e \in EventIds, request \in EventRequests : doSetEvent(e, request)
    \/ doInitialize
    \/ OneSecLoop
    \/ Tick
    \/ \E minute \in 0..(DAY - 1) : Sync(minute) \/ SetZone(minute)
    \/ Restart

Spec == Init /\ [][Next]_vars

\* The loop task posts itself again at every run.  An os_timer that is armed and
\* not armed again fires; where it is armed again and again fairness of its
\* firing is not justified, and OpenCloses, which is what needs it, says nothing.
FairSpec == Spec /\ WF_vars(OneSecLoop) /\ WF_vars(setPortToLow)

-----------------------------------------------------------------------------
TypeOK ==
    /\ portsVal \in [Ports -> {0, 1}]
    /\ gpioOut \subseteq Nat
    /\ gpioEnable \subseteq Nat
    /\ rtcOut \in {0, 1}
    /\ events \in [EventIds -> Event]
    /\ pads \subseteq Nat
    /\ rtcEnable \in BOOLEAN
    /\ openTimer \in Ports \cup {NONE}
    /\ clock \in 0..(DAY - 1)
    /\ synced \in BOOLEAN
    /\ serving \in BOOLEAN
    /\ open \subseteq Ports
    /\ overtaken \subseteq Ports
    /\ even \subseteq Ports

\* The level the program drives port p to; a pad on another function gets none.
Level(p) ==
    IF PortPinNumber[p] = 16 THEN IF rtcEnable THEN rtcOut ELSE 0
    ELSE IF portsBits[p] \in gpioOut \cap gpioEnable \cap pads THEN 1 ELSE 0

\* The ports whose pad belongs to the UART (GPIO1) or the flash chip (GPIO7).
Elsewhere == {p \in Ports : PortPinNumber[p] # 16
                             /\ portsBits[p] \notin {0, 2, 12, 13, 14, 15}}

\* "ip/status - returns the ports status" (RestAPI.c:28): while the server
\* listens, what is reported is what is driven, whichever of the commands, the
\* timer and the scheduler wrote the port last, and also what the scheduler wrote
\* before the pads were switched.  The exceptions are all there are, and their
\* pins never go high: the pads that are not the program's, and pin 16 set to an
\* even value, which portsVal takes for high and gpio16_output_set for low.
ReportedLevelIsDriven ==
    serving => \A p \in Ports :
        Level(p) = IF p \in Elsewhere \cup even THEN 0 ELSE SendPortStatus[p]

\* ip/flipinput inverts what ip/status reports, although it reads a register
\* (or, for pin 16, portsVal) that every other writer has to keep in step.
FlipInvertsReported ==
    [][\A p \in Ports :
           doFlipinput(p) => SendPortStatus'[p] = 1 - SendPortStatus[p]]_vars

\* OneSecLoop's loops as they are written (lines 129-155): portsValtmp starts as
\* portsVal, and the entries of the table may each overwrite it, in their order.
EntryWrites(tmp, e) ==
    LET p == events[e].Port
    IN  IF events[e].Active = 0 \/ p \notin Ports THEN tmp
        ELSE IF Covers(e) THEN [tmp EXCEPT ![p] = 1]
        ELSE IF tmp[p] # 1 THEN [tmp EXCEPT ![p] = 0]
        ELSE tmp

portsValtmp ==
    LET after[n \in 0..MAX_TIMED_POWER_EVENTS] ==
            IF n = 0 THEN portsVal ELSE EntryWrites(after[n - 1], n - 1)
    IN  after[MAX_TIMED_POWER_EVENTS]

\* The closed form that the scheduler's step uses is what the loops compute.
ScheduledIsLoop == portsValtmp = [p \in Ports |-> Scheduled(p)]

\* What an interval means: from its start up to, not including, its end, over
\* midnight if it ends before it starts, and never if the two are the same.
Inside(s, e, c) == IF s <= e THEN s <= c /\ c < e ELSE s <= c \/ c < e

TimeOfDay == [Hour : 0..(HOURS - 1), Min : 0..(MINUTES - 1)]

\* IsTimeInside tells, for all starts and ends of the day, whether the clock is
\* in that interval.
TimeInsideIsInterval ==
    \A s, e \in TimeOfDay :
        IsTimeInside(s, e, Now) <=> Inside(MinuteOf(s), MinuteOf(e), clock)

\* Some active event of port p has the clock in its interval.
Due(p) ==
    \E e \in EventIds :
        /\ events[e].Active # 0
        /\ events[e].Port = p
        /\ Inside(MinuteOf(events[e].StartTime), MinuteOf(events[e].EndTime), clock)

\* An event that stays on gets its port raised, whatever the event's place in
\* the table, its interval's place in the day and the commands in between.
EventRaisesPort ==
    \A p \in Ports : []<>(Due(p) => portsVal[p] = 1)

\* One timer serves every open command.  A port that was opened stays high until
\* it is written again; the timer is set to write it unless another port was
\* opened within the 3 s, and then nothing but a command ever lowers it.
OneOpenIsTimed ==
    \A p \in open : portsVal[p] = 1 /\ (openTimer = p <=> p \notin overtaken)

\* Once no more ports are opened (each open arms the timer afresh and so puts
\* it off), the ports that are left open are those another open has overtaken:
\* the timer lowers the last one and no other, or another command or a restart
\* comes first.
OpenCloses ==
    <>[][\A p \in Ports : ~doOpen(p)]_vars => <>[](open \subseteq overtaken)

=============================================================================
