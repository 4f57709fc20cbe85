SPECIFICATION Spec
CONSTANTS
    hc = hc
    kuma = kuma
    Healthchecks <- MCHealthchecks
    UptimeKumas <- MCUptimeKumas
    MaxSignals = 2
INVARIANTS
    TypeOK
    NothingLeftBehind
    MonitorsTellTruth
PROPERTIES
    StopsOnSignal
    KeepsUpdating
\* The process exits.
CHECK_DEADLOCK FALSE
