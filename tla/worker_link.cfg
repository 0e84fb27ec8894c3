SPECIFICATION MCSpec
CONSTANTS
    Host = "engine"
    Order <- SinkFirst
    Budget = 1
    MaxQueue = 2
    Slots = {s1, s2}
    Threads = 3
    Forever = FALSE
    MaxAttempts = 2
    MaxCalls = 3
CHECK_DEADLOCK FALSE
INVARIANTS TelemetryIsSound LinkIsSound
PROPERTIES EventuallyDrained CallsAnswered
