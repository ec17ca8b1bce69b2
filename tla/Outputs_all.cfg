\* Two events on two ports, one of them pin 16; setpin with values on both sides
\* of a byte; every command, in any order, any number of times.
SPECIFICATION FairSpec
CONSTANTS
    Ports <- MCPorts
    PortPinNumber <- MCPortPinNumber
    portsBits <- MCPortsBits
    MAX_TIMED_POWER_EVENTS = 2
    EventRequests <- MCEventRequests
    PinValues = {1, 2, 256}
    HOURS = 2
    MINUTES = 2
    NONE = NONE
INVARIANT TypeOK
INVARIANT ReportedLevelIsDriven
INVARIANT OneOpenIsTimed
INVARIANT ScheduledIsLoop
INVARIANT TimeInsideIsInterval
PROPERTY FlipInvertsReported
PROPERTY EventRaisesPort
PROPERTY OpenCloses
