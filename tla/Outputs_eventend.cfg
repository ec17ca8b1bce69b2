\* One event is enough to see a port left high after its end.
SPECIFICATION EventEndSpec
CONSTANTS
    Ports <- MCPorts
    PortPinNumber <- MCPortPinNumber
    portsBits <- MCPortsBits
    MAX_TIMED_POWER_EVENTS = 1
    EventRequests <- MCEventRequests
    PinValues = {0, 1}
    HOURS = 2
    MINUTES = 2
    NONE = NONE
PROPERTY EventEndLowers
