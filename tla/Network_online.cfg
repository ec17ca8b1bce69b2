\* The delays are the code's, in seconds.  Three tries are a first, one in between
\* and a last one; three chains are one more than a late answer starts.
SPECIFICATION NetFairSpec
CONSTANTS
    SNTP_RETRY_TIMEOUT = 3
    SNTP_RETRY_TIMEOUT_MAX = 30
    MAX_CHAINS = 3
    MAX_TRIES = 3
    Zones <- MCZones
INVARIANTS
    TypeOK
    NetTypeOK
    OneChain
    NeverSilent
    ClockNeedsServer
PROPERTIES
    ServerComesUp
    ZoneIsApplied
    StationRecovers
    ClockIsRefreshed
