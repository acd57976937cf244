SPECIFICATION Spec
CONSTANTS
    TickMs = 2
    Delays <- const_Delays
    CancelDelays <- const_CancelDelays
    OfflineMs = 6
    PingMs = 2
    MaxRides = 2
    MaxTicks = 6
INVARIANTS
    RidesAndFleetAgree
    LifecycleAdvances
    ChargedOnceIffCompleted
    SimulatorInv
