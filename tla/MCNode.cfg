CONSTANTS
    MaxTasks <- MCMaxTasksWide
    TickWrap <- MCTickWrap
    ServerPeriod <- MCServerPeriod
    ServerCapacity <- MCServerCapacity
    GenPeriod <- MCGenPeriod
    GenCapacity <- MCGenCapacity
    ApCapacity <- MCApCapacity
    DelayTicks <- MCDelayTicks
SPECIFICATION Spec
INVARIANT TypeOK
INVARIANT AperiodicAccounted
INVARIANT CapacityConserved
INVARIANT AbsServerInv
INVARIANT AperiodicViaServer
PROPERTY ServedFinal
PROPERTY AperiodicServed
PROPERTY ServesSafely
PROPERTY ServesAsPromised
