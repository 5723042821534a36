SPECIFICATION NetSpec
CONSTANTS
    Topologies <- MCTopologies
    Senders <- MCSenders
    RuleChoices <- MCRules
    CaptureLimit = 2
    MaxEvents = 2
\* A behaviour ends after MaxEvents calls.
CHECK_DEADLOCK FALSE
INVARIANTS
    NetTypeOK
    RoutesAreReal
PROPERTIES
    DeliveredAsSent
    PingAnswered
