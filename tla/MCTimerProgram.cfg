SPECIFICATION FairTimerSpec
CONSTANTS
    N = 2
    Timers <- SomeTimers
    Timeout <- TimeoutOf
    None = None
    IntSize = 8
    UllSize = 32
    Starts = {3}
    MaxGap = 3
    MaxClock = 13
INVARIANTS TypeOK WheelConsistent TicksExact FiresOnTime
PROPERTIES Implements OverdueTimersFire

