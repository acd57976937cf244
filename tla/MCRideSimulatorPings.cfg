SPECIFICATION Spec
CONSTANTS
    TickMs = 2
    Delays <- const_Delays
    CancelDelays <- const_CancelDelays
    OfflineMs = 6
    PingMs = 3
    MaxRides = 1
    MaxTicks = 3
INVARIANT
    OfflineMarkersAreStored
