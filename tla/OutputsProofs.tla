--------------------------- MODULE OutputsProofs ---------------------------
(***************************************************************************)
(* Proofs about the output ports for every set of ports, events, schedules *)
(* and every length of the day.                                            *)
(***************************************************************************)
EXTENDS Outputs, Recursion

USE DEF SendPortStatus

-----------------------------------------------------------------------------
(* The meaning of an interval. *)

\* A time of the day is one of its minutes.
LEMMA MinuteInDay ==
    ASSUME NEW t \in TimeOfDay
    PROVE  MinuteOf(t) \in 0..(DAY - 1)
<1> DEFINE h == t.Hour
           m == t.Min
<1>1. /\ h \in Nat /\ m \in Nat
      /\ h <= HOURS - 1 /\ m <= MINUTES - 1
      /\ HOURS \in Nat /\ MINUTES \in Nat
    BY ClockAssumption DEF TimeOfDay
<1>. HIDE DEF h, m
<1>2. h * MINUTES \in Nat /\ h * MINUTES <= (HOURS - 1) * MINUTES
    BY <1>1
<1>3. (HOURS - 1) * MINUTES = HOURS * MINUTES - MINUTES
    BY <1>1
<1>4. HOURS * MINUTES \in Nat
    BY <1>1
<1>5. h * MINUTES + m \in 0..(HOURS * MINUTES - 1)
    BY <1>1, <1>2, <1>3, <1>4
<1>. QED BY <1>5 DEF MinuteOf, DAY, h, m

\* The clock is the minute of the day of the time that the scheduler reads.
LEMMA NowIsClock ==
    ASSUME clock \in 0..(DAY - 1)
    PROVE  MinuteOf(Now) = clock
<1> DEFINE c == clock
<1>1. c \in Nat /\ MINUTES \in Nat \ {0}
    BY ClockAssumption
<1>. HIDE DEF c
<1>2. c = MINUTES * (c \div MINUTES) + (c % MINUTES)
    BY <1>1
<1>3. (c \div MINUTES) * MINUTES = MINUTES * (c \div MINUTES)
    BY <1>1
<1>. QED BY <1>1, <1>2, <1>3 DEF MinuteOf, Now, c

\* At every time of a day of any length IsTimeInside means the interval from
\* start up to end, over midnight if end comes first.
LEMMA InsideNow ==
    ASSUME clock \in 0..(DAY - 1), NEW s \in TimeOfDay, NEW e \in TimeOfDay
    PROVE  IsTimeInside(s, e, Now) <=> Inside(MinuteOf(s), MinuteOf(e), clock)
<1>1. /\ MinuteOf(s) \in 0..(DAY - 1)
      /\ MinuteOf(e) \in 0..(DAY - 1)
      /\ MinuteOf(Now) = clock
      /\ DAY \in Nat
    BY MinuteInDay, NowIsClock, ClockAssumption
<1>. QED BY <1>1 DEF IsTimeInside, Inside

-----------------------------------------------------------------------------
(* Types. *)

\* A write of levels to some ports.
Levels(W) == DOMAIN W \subseteq Ports /\ \A p \in DOMAIN W : W[p] \in 0..255

LEMMA TypeWrite ==
    ASSUME TypeOK, NEW W, Levels(W), Write(W)
    PROVE  /\ portsVal' \in [Ports -> {0, 1}]
           /\ gpioOut' \subseteq Nat
           /\ gpioEnable' \subseteq Nat
           /\ rtcOut' \in {0, 1}
           /\ even' \subseteq Ports
           /\ UNCHANGED muxes
<1>1. Bits(DOMAIN W) \subseteq Nat /\ Bits(High(W)) \subseteq Nat
    <2>1. \A P \in SUBSET Ports : Bits(P) \subseteq Nat
        BY PortsAssumption DEF Bits
    <2>2. DOMAIN W \in SUBSET Ports /\ High(W) \in SUBSET Ports
        BY DEF Levels, High
    <2>. QED BY <2>1, <2>2
<1>2. portsVal' \in [Ports -> {0, 1}]
    BY DEF TypeOK, Write
<1>3. gpioOut' \subseteq Nat /\ gpioEnable' \subseteq Nat
    BY <1>1 DEF TypeOK, Write, DriveGpio
<1>4. rtcOut' \in {0, 1}
    <2>1. \A v \in 0..255 : v % 2 \in {0, 1}
        OBVIOUS
    <2>2. rtcOut' = rtcOut \/ \E p \in DOMAIN W : rtcOut' = W[p] % 2
        BY DEF Write, DriveLatch
    <2>. QED BY <2>1, <2>2 DEF TypeOK, Levels
<1>5. even' \subseteq Ports /\ UNCHANGED muxes
    BY DEF TypeOK, Write, High, Levels
<1>. QED BY <1>2, <1>3, <1>4, <1>5

LEMMA OneLevel ==
    ASSUME NEW p \in Ports, NEW v \in 0..255
    PROVE  Levels([q \in {p} |-> v])
BY DEF Levels

LEMMA ScheduledLevels ==
    ASSUME TypeOK
    PROVE  Levels([p \in {q \in Ports : portsVal[q] # Scheduled(q)} |-> Scheduled(p)])
BY DEF Levels, Scheduled, TypeOK

LEMMA BoolIsByte ==
    ASSUME NEW v \in Int
    PROVE  ToBool(v) \in 0..255
BY DEF ToBool

LEMMA EventTypes == Erased \in Event /\ Cleared \in Event
BY DEF Erased, ErasedTime, Cleared, Midnight, Event, Time

LEMMA TypePortPinSet ==
    ASSUME TypeOK, NEW p \in Ports, NEW v \in 0..255, PortPinSet(p, v)
    PROVE  /\ portsVal' \in [Ports -> {0, 1}]
           /\ gpioOut' \subseteq Nat
           /\ gpioEnable' \subseteq Nat
           /\ rtcOut' \in {0, 1}
           /\ even' \subseteq Ports
           /\ UNCHANGED muxes
           /\ open' \subseteq Ports
           /\ overtaken' \subseteq Ports
<1> DEFINE W == [q \in {p} |-> v]
<1>1. Levels(W) /\ Write(W)
    BY OneLevel DEF PortPinSet
<1>2. open' \subseteq Ports /\ overtaken' \subseteq Ports
    BY DEF PortPinSet, TypeOK
<1>. HIDE DEF W
<1>. QED BY <1>1, <1>2, TypeWrite

LEMMA OutputsTypeInit == Init => TypeOK
<1>. SUFFICES ASSUME Init PROVE TypeOK
    OBVIOUS
<1>1. clock \in 0..(DAY - 1)
    BY ClockAssumption DEF Init
<1>2. events \in [EventIds -> Event]
    BY EventTypes DEF Init
<1>3. gpioOut \subseteq Nat /\ gpioEnable \subseteq Nat /\ pads \subseteq Nat
    BY DEF Init, PadsAtStart
<1>4. portsVal \in [Ports -> {0, 1}]
    BY DEF Init
<1>. QED BY <1>1, <1>2, <1>3, <1>4 DEF Init, TypeOK

LEMMA OutputsTypeNext == TypeOK /\ [Next]_vars => TypeOK'
<1>. SUFFICES ASSUME TypeOK, [Next]_vars PROVE TypeOK'
    OBVIOUS
<1>1. CASE InitializeRest
    BY <1>1 DEF InitializeRest, levels, opens, time, TypeOK
<1>2. ASSUME NEW p \in Ports, NEW v \in PinValues, doSetPin(p, v) PROVE TypeOK'
    <2>1. ToBool(v) \in 0..255
        BY BoolIsByte, ClockAssumption
    <2>. QED BY <1>2, <2>1, TypePortPinSet DEF doSetPin, muxes, time, TypeOK
<1>3. ASSUME NEW p \in Ports, doFlipinput(p) PROVE TypeOK'
    <2>1. Flipped(p) \in 0..255
        BY DEF Flipped
    <2>. QED BY <1>3, <2>1, TypePortPinSet DEF doFlipinput, muxes, time, TypeOK
<1>4. ASSUME NEW p \in Ports, doOpen(p) PROVE TypeOK'
    <2>1. Levels([q \in {p} |-> 1])
        BY DEF Levels
    <2>. QED BY <1>4, <2>1, TypeWrite DEF doOpen, Arm, muxes, time, TypeOK
<1>5. CASE setPortToLow
    <2>1. openTimer \in Ports /\ PortPinSet(openTimer, 0)
        BY <1>5 DEF setPortToLow, TypeOK
    <2>2. /\ portsVal' \in [Ports -> {0, 1}]
          /\ gpioOut' \subseteq Nat
          /\ gpioEnable' \subseteq Nat
          /\ rtcOut' \in {0, 1}
          /\ even' \subseteq Ports
          /\ UNCHANGED muxes
          /\ open' \subseteq Ports
          /\ overtaken' \subseteq Ports
        BY <2>1, TypePortPinSet
    <2>. QED BY <1>5, <2>2 DEF setPortToLow, muxes, time, TypeOK
<1>6. ASSUME NEW e \in EventIds, NEW request \in EventRequests, doSetEvent(e, request)
      PROVE  TypeOK'
    <2>1. request \in EventRequest
        BY ClockAssumption
    <2>2. ToBool(request.Active) \in 0..255
        BY <2>1, BoolIsByte DEF EventRequest
    <2>3. [request EXCEPT !.Active = ToBool(@)] \in Event
        BY <2>1, <2>2 DEF Event, EventRequest
    <2>. QED BY <1>6, <2>3 DEF doSetEvent, pins, levels, muxes, opens, time, TypeOK
<1>7. CASE doInitialize
    BY <1>7, EventTypes DEF doInitialize, pins, levels, muxes, opens, time, TypeOK
<1>8. CASE OneSecLoop
    <2> DEFINE changed == {p \in Ports : portsVal[p] # Scheduled(p)}
               W == [p \in changed |-> Scheduled(p)]
    <2>1. Levels(W) /\ Write(W)
        BY <1>8, ScheduledLevels DEF OneSecLoop
    <2>2. UNCHANGED <<events, openTimer, time, serving, opens>>
        BY <1>8 DEF OneSecLoop
    <2>. HIDE DEF W
    <2>. QED BY <2>1, <2>2, TypeWrite DEF muxes, opens, time, TypeOK
<1>9. CASE Tick
    <2>1. NextMinute \in 0..(DAY - 1)
        BY ClockAssumption DEF NextMinute, TypeOK
    <2>. QED BY <1>9, <2>1 DEF Tick, pins, levels, muxes, opens, TypeOK
<1>10. ASSUME NEW minute \in 0..(DAY - 1), Sync(minute) PROVE TypeOK'
    BY <1>10 DEF Sync, pins, levels, muxes, opens, TypeOK
<1>13. ASSUME NEW minute \in 0..(DAY - 1), SetZone(minute) PROVE TypeOK'
    BY <1>13 DEF SetZone, pins, levels, muxes, opens, TypeOK
<1>11. CASE Restart
    <2>1. clock' \in 0..(DAY - 1)
        BY <1>11, ClockAssumption DEF Restart
    <2>2. gpioOut' \subseteq Nat /\ gpioEnable' \subseteq Nat /\ pads' \subseteq Nat
        BY <1>11 DEF Restart, PadsAtStart
    <2>3. portsVal' \in [Ports -> {0, 1}]
        BY <1>11 DEF Restart
    <2>. QED BY <1>11, <2>1, <2>2, <2>3 DEF Restart, TypeOK
<1>12. CASE UNCHANGED vars
    BY <1>12 DEF vars, pins, levels, muxes, opens, time, TypeOK
<1>. QED BY <1>1, <1>2, <1>3, <1>4, <1>5, <1>6, <1>7, <1>8, <1>9, <1>10, <1>11, <1>12, <1>13
         DEF Next

\* Ports, registers, events, timer and clock keep their types.
THEOREM OutputsTypeCorrect == Spec => []TypeOK
BY OutputsTypeInit, OutputsTypeNext, PTL DEF Spec

\* At any time an event is on exactly in its interval: IsTimeInside is right for
\* all starts and ends of a day of any length.
THEOREM TimeInsideCorrect == Spec => []TimeInsideIsInterval
<1>1. TypeOK => TimeInsideIsInterval
    BY InsideNow DEF TypeOK, TimeInsideIsInterval
<1>. QED BY <1>1, OutputsTypeCorrect, PTL

-----------------------------------------------------------------------------
(* What is reported is what is driven, but for the exceptions that             *)
(* ReportedLevelIsDriven names.                                              *)

\* The register of a GPIO port says what is reported of it, enabled if it is high;
\* the latch says what is reported of pin 16, unless it was set to an even value
\* other than 0.
RegistersAgree ==
    \A p \in Ports :
        IF PortPinNumber[p] = 16
        THEN rtcOut = IF p \in even THEN 0 ELSE portsVal[p]
        ELSE /\ p \notin even
             /\ portsVal[p] = IF portsBits[p] \in gpioOut THEN 1 ELSE 0
             /\ portsBits[p] \in gpioOut => portsBits[p] \in gpioEnable

\* What the pads are switched to.
PadsSwitched ==
    /\ pads \subseteq {0, 2, 12, 13, 14, 15}
    /\ {0, 2} \subseteq pads
    /\ serving => rtcEnable /\ {0, 2, 12, 13, 14, 15} \subseteq pads

\* The inductive invariant behind ReportedLevelIsDriven and FlipInvertsReported.
OutputsInv == RegistersAgree /\ PadsSwitched

LEMMA OutputsInvInit == Init => OutputsInv
BY DEF Init, OutputsInv, RegistersAgree, PadsSwitched, PadsAtStart

LEMMA WriteAgrees ==
    ASSUME TypeOK, RegistersAgree, NEW W, Levels(W), Write(W)
    PROVE  RegistersAgree'
<1>. SUFFICES ASSUME NEW p \in Ports
              PROVE  IF PortPinNumber[p] = 16
                     THEN rtcOut' = IF p \in even' THEN 0 ELSE portsVal'[p]
                     ELSE /\ p \notin even'
                          /\ portsVal'[p] = IF portsBits[p] \in gpioOut' THEN 1 ELSE 0
                          /\ portsBits[p] \in gpioOut' => portsBits[p] \in gpioEnable'
    BY DEF RegistersAgree
<1> DEFINE b == portsBits[p]
<1>1. portsVal'[p] = IF p \notin DOMAIN W THEN portsVal[p]
                     ELSE IF W[p] # 0 THEN 1 ELSE 0
    BY DEF Write, High
<1>2. p \in even' <=> \/ p \in even /\ p \notin DOMAIN W
                      \/ /\ p \in DOMAIN W /\ W[p] # 0
                         /\ PortPinNumber[p] = 16 /\ W[p] % 2 = 0
    BY DEF Write, High
<1>3. CASE PortPinNumber[p] = 16
    <2>1. \A q \in DOMAIN W : PortPinNumber[q] = 16 <=> q = p
        BY <1>3, PortsAssumption DEF Levels
    <2>2. CASE p \in DOMAIN W
        <3>1. rtcOut' = W[p] % 2
            BY <2>1, <2>2 DEF Write, DriveLatch
        <3>2. W[p] \in 0..255
            BY <2>2 DEF Levels
        <3>3. W[p] % 2 \in {0, 1} /\ (W[p] = 0 => W[p] % 2 = 0)
            BY <3>2
        <3>. QED BY <1>1, <1>2, <1>3, <2>2, <3>1, <3>3
    <2>3. CASE p \notin DOMAIN W
        <3>1. rtcOut' = rtcOut
            BY <2>1, <2>3 DEF Write, DriveLatch
        <3>. QED BY <1>1, <1>2, <1>3, <2>3, <3>1 DEF RegistersAgree
    <2>. QED BY <2>2, <2>3
<1>4. CASE PortPinNumber[p] # 16
    <2>1. \A P \in SUBSET Ports : b \in Bits(P) <=> p \in P
        BY <1>4, PortsAssumption DEF Bits
    <2>2. /\ b \in Bits(DOMAIN W) <=> p \in DOMAIN W
          /\ b \in Bits(High(W)) <=> p \in DOMAIN W /\ W[p] # 0
        BY <2>1 DEF Levels, High
    <2>3. /\ b \in gpioOut' <=> \/ b \in gpioOut /\ p \notin DOMAIN W
                                \/ p \in DOMAIN W /\ W[p] # 0
          /\ b \in gpioEnable' <=> b \in gpioEnable \/ p \in DOMAIN W
        BY <2>2 DEF Write, DriveGpio
    <2>. QED BY <1>1, <1>2, <1>4, <2>3 DEF RegistersAgree
<1>. QED BY <1>3, <1>4

LEMMA OutputsInvWrite ==
    ASSUME TypeOK, OutputsInv, NEW W, Levels(W), Write(W), UNCHANGED serving
    PROVE  OutputsInv'
<1>1. PadsSwitched'
    BY DEF OutputsInv, PadsSwitched, Write, muxes
<1>. QED BY <1>1, WriteAgrees DEF OutputsInv

LEMMA OutputsInvUnchanged ==
    ASSUME OutputsInv, UNCHANGED <<pins, serving>>
    PROVE  OutputsInv'
BY DEF OutputsInv, pins, levels, muxes, RegistersAgree, PadsSwitched

LEMMA OutputsInvNext == TypeOK /\ OutputsInv /\ [Next]_vars => OutputsInv'
<1>. SUFFICES ASSUME TypeOK, OutputsInv, [Next]_vars PROVE OutputsInv'
    OBVIOUS
<1>1. CASE InitializeRest
    <2>1. RegistersAgree'
        BY <1>1 DEF InitializeRest, levels, OutputsInv, RegistersAgree
    <2>2. PadsSwitched'
        <3>1. {0, 2} \subseteq pads
            BY DEF OutputsInv, PadsSwitched
        <3>. QED BY <1>1, <3>1 DEF InitializeRest, OutputsInv, PadsSwitched
    <2>. QED BY <2>1, <2>2 DEF OutputsInv
<1>2. ASSUME NEW p \in Ports, NEW v \in PinValues, doSetPin(p, v) PROVE OutputsInv'
    <2>1. Levels([q \in {p} |-> ToBool(v)])
        BY BoolIsByte, OneLevel, ClockAssumption
    <2>. QED BY <1>2, <2>1, OutputsInvWrite DEF doSetPin, PortPinSet
<1>3. ASSUME NEW p \in Ports, doFlipinput(p) PROVE OutputsInv'
    <2>1. Levels([q \in {p} |-> Flipped(p)])
        BY DEF Levels, Flipped
    <2>. QED BY <1>3, <2>1, OutputsInvWrite DEF doFlipinput, PortPinSet
<1>4. ASSUME NEW p \in Ports, doOpen(p) PROVE OutputsInv'
    <2>1. Levels([q \in {p} |-> 1])
        BY DEF Levels
    <2>. QED BY <1>4, <2>1, OutputsInvWrite DEF doOpen
<1>5. CASE setPortToLow
    <2>1. Levels([q \in {openTimer} |-> 0])
        BY <1>5 DEF setPortToLow, TypeOK, Levels
    <2>. QED BY <1>5, <2>1, OutputsInvWrite DEF setPortToLow, PortPinSet
<1>6. ASSUME NEW e \in EventIds, NEW request \in EventRequests, doSetEvent(e, request)
      PROVE  OutputsInv'
    BY <1>6, OutputsInvUnchanged DEF doSetEvent
<1>7. CASE doInitialize
    BY <1>7, OutputsInvUnchanged DEF doInitialize
<1>8. CASE OneSecLoop
    <2> DEFINE changed == {p \in Ports : portsVal[p] # Scheduled(p)}
               W == [p \in changed |-> Scheduled(p)]
    <2>1. Levels(W) /\ Write(W) /\ UNCHANGED serving
        BY <1>8, ScheduledLevels DEF OneSecLoop
    <2>. HIDE DEF W
    <2>. QED BY <2>1, OutputsInvWrite
<1>9. CASE Tick
    BY <1>9, OutputsInvUnchanged DEF Tick
<1>10. ASSUME NEW minute \in 0..(DAY - 1), Sync(minute) PROVE OutputsInv'
    BY <1>10, OutputsInvUnchanged DEF Sync
<1>13. ASSUME NEW minute \in 0..(DAY - 1), SetZone(minute) PROVE OutputsInv'
    BY <1>13, OutputsInvUnchanged DEF SetZone
<1>11. CASE Restart
    BY <1>11 DEF Restart, OutputsInv, RegistersAgree, PadsSwitched, PadsAtStart
<1>12. CASE UNCHANGED vars
    BY <1>12, OutputsInvUnchanged DEF vars
<1>. QED BY <1>1, <1>2, <1>3, <1>4, <1>5, <1>6, <1>7, <1>8, <1>9, <1>10, <1>11, <1>12, <1>13
         DEF Next

\* ip/status reports the level of every pin after any sequence of commands, with
\* any values, timer callbacks, scheduler runs and restarts; only the pads that
\* the UART and the flash chip keep, and pin 16 set to an even value, stay low.
THEOREM StatusCorrect == Spec => []ReportedLevelIsDriven
<1>1. TypeOK /\ OutputsInv => ReportedLevelIsDriven
    <2>. SUFFICES ASSUME TypeOK, OutputsInv, serving, NEW p \in Ports
                  PROVE  Level(p) = IF p \in Elsewhere \cup even THEN 0 ELSE portsVal[p]
        BY DEF ReportedLevelIsDriven
    <2>1. rtcEnable /\ pads = {0, 2, 12, 13, 14, 15}
        BY DEF OutputsInv, PadsSwitched
    <2>. QED BY <2>1 DEF OutputsInv, RegistersAgree, Level, Elsewhere
<1>. QED BY <1>1, OutputsTypeInit, OutputsTypeNext, OutputsInvInit, OutputsInvNext, PTL
         DEF Spec

\* ip/flipinput inverts the reported level, although it reads GPIO_OUT, and
\* whatever values ports were set to.
THEOREM FlipCorrect == Spec => FlipInvertsReported
<1>1. TypeOK /\ OutputsInv /\ [Next]_vars =>
          [\A p \in Ports : doFlipinput(p) => portsVal'[p] = 1 - portsVal[p]]_vars
    <2>. SUFFICES ASSUME TypeOK, OutputsInv, NEW p \in Ports, doFlipinput(p)
                  PROVE  portsVal'[p] = 1 - portsVal[p]
        OBVIOUS
    <2>1. portsVal[p] \in {0, 1}
        BY DEF TypeOK
    <2>2. portsVal'[p] = IF Flipped(p) # 0 THEN 1 ELSE 0
        BY DEF doFlipinput, PortPinSet, Write, High
    <2>3. Flipped(p) = IF portsVal[p] = 1 THEN 0 ELSE 1
        BY <2>1 DEF Flipped, OutputsInv, RegistersAgree
    <2>. QED BY <2>1, <2>2, <2>3
<1>. QED BY <1>1, OutputsTypeInit, OutputsTypeNext, OutputsInvInit, OutputsInvNext, PTL
         DEF Spec, FlipInvertsReported

-----------------------------------------------------------------------------
(* The one timer of the open command. *)

\* No write of the scheduler concerns a port that is high.
LEMMA ScheduledKeepsHigh ==
    ASSUME TypeOK, NEW p \in Ports, OneSecLoop, portsVal[p] = 1
    PROVE  portsVal'[p] = 1
<1>1. Scheduled(p) = 1
    BY DEF Scheduled
<1>. QED BY <1>1 DEF OneSecLoop, Write, TypeOK

LEMMA OpenUnchanged ==
    ASSUME OneOpenIsTimed, UNCHANGED <<levels, openTimer, opens>>
    PROVE  OneOpenIsTimed'
BY DEF OneOpenIsTimed, levels, opens

LEMMA OpenPortPinSet ==
    ASSUME TypeOK, OneOpenIsTimed, NEW p \in Ports, NEW v, PortPinSet(p, v),
           openTimer' = openTimer \/ (openTimer = p /\ openTimer' = NONE)
    PROVE  OneOpenIsTimed'
<1>. SUFFICES ASSUME NEW q \in open'
              PROVE  portsVal'[q] = 1 /\ (openTimer' = q <=> q \notin overtaken')
    BY DEF OneOpenIsTimed
<1>1. q \in open /\ q # p /\ q \in Ports /\ q # NONE
    BY PortsAssumption DEF PortPinSet, TypeOK
<1>2. portsVal'[q] = portsVal[q] /\ (q \in overtaken' <=> q \in overtaken)
    BY <1>1 DEF PortPinSet, Write
<1>. QED BY <1>1, <1>2 DEF OneOpenIsTimed

LEMMA OpenNext == TypeOK /\ OneOpenIsTimed /\ [Next]_vars => OneOpenIsTimed'
<1>. SUFFICES ASSUME TypeOK, OneOpenIsTimed, [Next]_vars PROVE OneOpenIsTimed'
    OBVIOUS
<1>1. CASE InitializeRest
    BY <1>1, OpenUnchanged DEF InitializeRest
<1>2. ASSUME NEW p \in Ports, NEW v \in PinValues, doSetPin(p, v) PROVE OneOpenIsTimed'
    BY <1>2, OpenPortPinSet DEF doSetPin
<1>3. ASSUME NEW p \in Ports, doFlipinput(p) PROVE OneOpenIsTimed'
    BY <1>3, OpenPortPinSet DEF doFlipinput
<1>4. ASSUME NEW p \in Ports, doOpen(p) PROVE OneOpenIsTimed'
    <2>. SUFFICES ASSUME NEW q \in open'
                  PROVE  portsVal'[q] = 1 /\ (openTimer' = q <=> q \notin overtaken')
        BY DEF OneOpenIsTimed
    <2>1. openTimer' = p /\ (q \in open \/ q = p)
        BY <1>4 DEF doOpen, Arm
    <2>2. q \in overtaken' <=> q # p /\ (q \in overtaken \/ (q \in open /\ q = openTimer))
        BY <1>4 DEF doOpen
    <2>3. portsVal'[q] = IF q = p THEN 1 ELSE portsVal[q]
        BY <1>4, <2>1 DEF doOpen, Write, High, TypeOK
    <2>. QED BY <2>1, <2>2, <2>3 DEF OneOpenIsTimed
<1>5. CASE setPortToLow
    <2>1. openTimer \in Ports
        BY <1>5 DEF setPortToLow, TypeOK
    <2>. QED BY <1>5, <2>1, OpenPortPinSet DEF setPortToLow
<1>6. ASSUME NEW e \in EventIds, NEW request \in EventRequests, doSetEvent(e, request)
      PROVE  OneOpenIsTimed'
    BY <1>6, OpenUnchanged DEF doSetEvent, pins
<1>7. CASE doInitialize
    BY <1>7, OpenUnchanged DEF doInitialize, pins
<1>8. CASE OneSecLoop
    <2>1. UNCHANGED <<openTimer, opens>>
        BY <1>8 DEF OneSecLoop
    <2>2. \A p \in open : portsVal'[p] = 1
        BY <1>8, ScheduledKeepsHigh DEF OneOpenIsTimed, TypeOK
    <2>. QED BY <2>1, <2>2 DEF OneOpenIsTimed, opens
<1>9. CASE Tick
    BY <1>9, OpenUnchanged DEF Tick, pins
<1>10. ASSUME NEW minute \in 0..(DAY - 1), Sync(minute) PROVE OneOpenIsTimed'
    BY <1>10, OpenUnchanged DEF Sync, pins
<1>13. ASSUME NEW minute \in 0..(DAY - 1), SetZone(minute) PROVE OneOpenIsTimed'
    BY <1>13, OpenUnchanged DEF SetZone, pins
<1>11. CASE Restart
    BY <1>11 DEF Restart, OneOpenIsTimed
<1>12. CASE UNCHANGED vars
    BY <1>12, OpenUnchanged DEF vars, pins
<1>. QED BY <1>1, <1>2, <1>3, <1>4, <1>5, <1>6, <1>7, <1>8, <1>9, <1>10, <1>11, <1>12, <1>13
         DEF Next

\* Of the ports left open, the timer is set for exactly the one that no other open
\* has overtaken, and all of them are high: an overtaken one needs a command.
THEOREM OneOpenTimed == Spec => []OneOpenIsTimed
<1>1. Init => OneOpenIsTimed
    BY DEF Init, OneOpenIsTimed
<1>. QED BY <1>1, OpenNext, OutputsTypeInit, OutputsTypeNext, PTL DEF Spec

-----------------------------------------------------------------------------
(* OneSecLoop's loop over the events. *)

\* What portsValtmp may hold, and what it holds after n entries of the table.
LevelsTmp == [Ports -> {0, 1}]

RaisedBefore(n) ==
    {p \in Ports : \E e \in 0..(n - 1) :
        events[e].Active # 0 /\ events[e].Port = p /\ Covers(e)}

TmpAfter(n) == [p \in Ports |-> IF p \in RaisedBefore(n) THEN 1 ELSE portsVal[p]]

\* One entry raises its port if it covers the time, and otherwise changes nothing:
\* where it writes a 0, there is one.
LEMMA EntryRaises ==
    ASSUME portsVal \in LevelsTmp, NEW n \in Nat
    PROVE  EntryWrites(TmpAfter(n), n) = TmpAfter(n + 1)
<1>1. \A e : e \in 0..(n + 1 - 1) <=> e \in 0..(n - 1) \/ e = n
    OBVIOUS
<1>2. ASSUME NEW p \in Ports
      PROVE  p \in RaisedBefore(n + 1) <=>
                 \/ p \in RaisedBefore(n)
                 \/ events[n].Active # 0 /\ events[n].Port = p /\ Covers(n)
    <2> DEFINE hit(e) == events[e].Active # 0 /\ events[e].Port = p /\ Covers(e)
    <2>1. /\ p \in RaisedBefore(n) <=> \E e \in 0..(n - 1) : hit(e)
          /\ p \in RaisedBefore(n + 1) <=> \E e \in 0..(n + 1 - 1) : hit(e)
        BY DEF RaisedBefore
    <2>. HIDE DEF hit
    <2>2. p \in RaisedBefore(n + 1) <=> p \in RaisedBefore(n) \/ hit(n)
        BY <1>1, <2>1, Zenon
    <2>. QED BY <2>2 DEF hit
<1>3. ASSUME NEW p \in Ports
      PROVE  EntryWrites(TmpAfter(n), n)[p] = TmpAfter(n + 1)[p]
    <2>1. portsVal[p] \in {0, 1}
        BY DEF LevelsTmp
    <2> DEFINE tmp == TmpAfter(n)
    <2>2. /\ tmp[p] = IF p \in RaisedBefore(n) THEN 1 ELSE portsVal[p]
          /\ DOMAIN tmp = Ports
          /\ TmpAfter(n + 1)[p] = IF p \in RaisedBefore(n + 1) THEN 1 ELSE portsVal[p]
        BY DEF TmpAfter
    <2>. HIDE DEF tmp
    <2>3. EntryWrites(tmp, n)[p] =
              IF events[n].Active # 0 /\ events[n].Port = p /\ Covers(n) THEN 1 ELSE tmp[p]
        BY <2>1, <2>2 DEF EntryWrites
    <2>. QED BY <1>2, <2>2, <2>3 DEF tmp
<1>4. EntryWrites(TmpAfter(n), n) = [p \in Ports |-> EntryWrites(TmpAfter(n), n)[p]]
    BY DEF EntryWrites, TmpAfter
<1>5. TmpAfter(n + 1) = [p \in Ports |-> TmpAfter(n + 1)[p]]
    BY DEF TmpAfter
<1>. QED BY <1>3, <1>4, <1>5, Zenon

\* The loop for a table of any length.
LEMMA LoopIsClosedForm ==
    ASSUME portsVal \in LevelsTmp
    PROVE  ScheduledIsLoop
<1> DEFINE max == MAX_TIMED_POWER_EVENTS
           h == [n \in 0..max |-> TmpAfter(n)]
           Body(g) == [n \in 0..max |->
                          IF n = 0 THEN portsVal ELSE EntryWrites(g[n - 1], n - 1)]
           after == CHOOSE g : g = Body(g)
<1>1. max \in Nat
    BY EventsAssumption
<1>2. TmpAfter(0) = portsVal
    <2>1. RaisedBefore(0) = {}
        BY DEF RaisedBefore
    <2>. QED BY <2>1 DEF TmpAfter, LevelsTmp
<1>3. ASSUME NEW n \in 0..max PROVE h[n] = Body(h)[n]
    <2>1. CASE n = 0
        BY <1>2, <2>1
    <2>2. CASE n # 0
        <3>1. n - 1 \in Nat /\ n - 1 \in 0..max /\ n - 1 + 1 = n
            BY <1>1, <2>2
        <3>2. EntryWrites(TmpAfter(n - 1), n - 1) = TmpAfter(n)
            BY <3>1, EntryRaises
        <3>. QED BY <2>2, <3>1, <3>2
    <2>. QED BY <2>1, <2>2
<1>4. h = Body(h)
    BY <1>3
<1>5. after = Body(after)
    BY <1>4
<1> DEFINE S == {n \in Nat : after[n] = TmpAfter(n)}
<1>. HIDE DEF after
<1>6. 0 \in S
    BY <1>1, <1>2, <1>5
<1>7. ASSUME NEW n \in 0..(max - 1), n \in S PROVE n + 1 \in S
    <2>1. n \in Nat /\ n + 1 \in 0..max /\ n + 1 # 0 /\ n + 1 - 1 = n
        BY <1>1
    <2>2. after[n + 1] = EntryWrites(after[n], n)
        <3>1. \A m \in 0..max :
                  after[m] = IF m = 0 THEN portsVal ELSE EntryWrites(after[m - 1], m - 1)
            <4>. HIDE DEF max
            <4>. QED BY <1>5
        <3>. QED BY <2>1, <3>1
    <2>3. after[n] = TmpAfter(n)
        BY <1>7
    <2>. QED BY <2>1, <2>2, <2>3, EntryRaises
<1>8. max \in S
    <2>. HIDE DEF S
    <2>1. \A n \in 0..max : n \in S
        BY <1>1, <1>6, <1>7, BoundedInduction
    <2>. QED BY <1>1, <2>1
<1>9. portsValtmp = TmpAfter(max)
    <2>1. portsValtmp = after[max]
        BY DEF portsValtmp, after
    <2>. QED BY <1>8, <2>1
<1>10. \A p \in Ports : p \in RaisedBefore(max) <=> Raised(p)
    BY DEF RaisedBefore, Raised, EventIds
<1>. QED BY <1>9, <1>10 DEF ScheduledIsLoop, TmpAfter, Scheduled

\* The scheduler's step writes what the loop over the table computes, however
\* many events there are and whatever is in them.
THEOREM ScheduledCorrect == Spec => []ScheduledIsLoop
<1>1. TypeOK => ScheduledIsLoop
    BY LoopIsClosedForm DEF TypeOK, LevelsTmp
<1>. QED BY <1>1, OutputsTypeInit, OutputsTypeNext, PTL DEF Spec
=============================================================================
