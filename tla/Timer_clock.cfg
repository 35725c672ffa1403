SPECIFICATION Spec
CONSTANTS
    CLOCK = 13
    interval = 4
    Latency = 3
    Others = {0, 3}
INVARIANTS TypeOK TickInTime OnlyOwnChannel
PROPERTIES TicksApart
