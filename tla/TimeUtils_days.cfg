SPECIFICATION Spec
CONSTANTS
    LAST_DAY = 24855
    Seconds <- MCSeconds
    Zones <- MCZones
INVARIANT LocalTimeIsRight
CHECK_DEADLOCK FALSE
