SPECIFICATION Spec
CONSTANTS
    LAST_DAY = 60
    Seconds <- MCSeconds
    Zones <- MCZones
INVARIANT DateExists
CHECK_DEADLOCK FALSE
