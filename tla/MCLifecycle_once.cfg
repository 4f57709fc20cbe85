SPECIFICATION Spec
CONSTANTS
    hc = hc
    kuma = kuma
    Healthchecks <- MCHealthchecks
    UptimeKumas <- MCUptimeKumas
    MaxSignals = 1
INVARIANT
    CleansUpOnExit
\* The process exits.
CHECK_DEADLOCK FALSE
